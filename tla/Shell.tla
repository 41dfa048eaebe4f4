-------------------------------- MODULE Shell --------------------------------
(***************************************************************************)
(* The command line of NewrexOS: the keyboard interrupt                    *)
(* (drivers/keyboard.c), the command history, the input line of the GUI    *)
(* and the main loop that runs commands (kernel/kernel.c).                 *)
(*                                                                         *)
(* The interrupt handlers run with interrupts disabled and are one action  *)
(* each.  They share command_buffer, command_length, command_ready and the *)
(* history with the main loop, which is one action per access to a shared  *)
(* variable, and per byte where it copies or clears a buffer.              *)
(*                                                                         *)
(* Of the commands only those that wait with hlt, for keys or for a        *)
(* program, and panic are told apart; the other ones are a step of their   *)
(* own that leaves this state alone.                                       *)
(***************************************************************************)
EXTENDS Integers, FiniteSetsExt, Sequences

CONSTANTS
  Cap,          \* the size of command_buffer and of a history line (256)
  GuiCap,       \* the size of gui_cmd_buffer (100)
  MaxHistory,   \* MAX_HISTORY (10)
  Chars,        \* the characters that can be typed
  Nul,          \* the character that ends a string
  Quit,         \* the character 'q'
  Monitor,      \* the text of the command monitor, or of a watch command
  Vgamode,      \* the text of the command vgamode
  Exec,         \* the text of an exec command
  Panic         \* the text of the command panic

ASSUME ShellAssumption ==
  /\ Cap \in Nat \ {0} /\ GuiCap \in 1 .. Cap /\ MaxHistory \in Nat \ {0}
  /\ Nul \notin Chars /\ Quit \in Chars
  /\ {Monitor, Vgamode, Exec, Panic} \subseteq Seq(Chars)
  /\ Monitor # Vgamode /\ Exec \notin {Monitor, Vgamode}
  /\ Panic \notin {Monitor, Vgamode, Exec}

VARIABLES
  command_buffer, command_length, command_ready,
  cmd_history, history_count, history_pos,
  gui_cmd_buffer, gui_cmd_len, vga_active,
  pc,         \* where the main loop is
  k,          \* how many bytes of a loop over bytes are done
  stuck,      \* the processor waits for an interrupt, with interrupts off
  line,       \* what the screen shows behind the prompt
  raced,      \* was a key pressed since the last Enter, before the prompt was back
  torn,       \* has a raced line entered the history
  recent      \* the lines entered last, the newest first, unless torn

input   == <<command_buffer, command_length, command_ready>>
history == <<cmd_history, history_count, history_pos>>
gui     == <<gui_cmd_buffer, gui_cmd_len, vga_active>>
ghosts  == <<line, raced, torn, recent>>
shellVars == <<input, history, gui, pc, k, stuck, ghosts>>

Cells == Chars \cup {Nul}
Index == 0 .. (Cap - 1)
Lines == 0 .. (MaxHistory - 1)
Empty == [i \in Index |-> Nul]

\* A string ends at its first null character.
StrLen(s) == Min({i \in DOMAIN s : s[i] = Nul} \cup {Cardinality(DOMAIN s)})
Text(s) == [i \in 1 .. StrLen(s) |-> s[i - 1]]

\* With interrupts off a command that waits with hlt does not return, like panic; whether
\* exec comes to its wait depends on the file.
MayWait(text) == text \in {Monitor, Vgamode, Exec, Panic}
Returns(text) == text \notin {Monitor, Vgamode, Panic}

Newest(text) == SubSeq(<<text>> \o recent, 1, Min({MaxHistory, Len(recent) + 1}))

\* What is kept of the newest lines once the history may be torn
Kept(text, isTorn) == IF isTorn THEN <<>> ELSE Newest(text)

ShellInit ==
  /\ command_buffer = Empty /\ command_length = 0 /\ command_ready = FALSE
  /\ cmd_history = [l \in Lines |-> Empty] /\ history_count = 0 /\ history_pos = -1
  /\ gui_cmd_buffer = [i \in 0 .. (GuiCap - 1) |-> Nul] /\ gui_cmd_len = 0
  /\ vga_active = FALSE
  /\ pc = "idle" /\ k = 0 /\ stuck = FALSE
  /\ line = <<>> /\ raced = FALSE /\ torn = FALSE /\ recent = <<>>
-----------------------------------------------------------------------------
(* Interrupts. *)

\* Every interrupt ends a hlt.
Woken ==
  CASE pc = "asleep"    -> "idle"
    [] pc = "monasleep" -> "monitor"
    [] pc = "endasleep" -> "reset"
    [] pc = "execasleep" -> "exec"
    [] OTHER            -> pc

\* A key has been pressed; raced notes whether that was too early.
Key == /\ ~stuck
       /\ pc' = Woken
       /\ raced' = (raced \/ command_ready)
       /\ UNCHANGED <<k, torn>>

\* Mutant: the last cell is taken as well.
RoomToTheEnd == command_length < Cap

Room == command_length < Cap - 1

\* A key that the text shell takes
TypeChar(c) ==
  /\ Key /\ ~vga_active
  /\ IF Room
       THEN /\ command_buffer' = [command_buffer EXCEPT ![command_length] = c]
            /\ command_length' = command_length + 1
            /\ line' = Append(line, c)
       ELSE UNCHANGED <<command_buffer, command_length, line>>
  /\ UNCHANGED <<command_ready, history, gui, stuck, recent>>

Backspace ==
  /\ Key /\ ~vga_active
  /\ IF command_length > 0
       THEN /\ command_length' = command_length - 1
            /\ command_buffer' = [command_buffer EXCEPT ![command_length - 1] = Nul]
            /\ line' = SubSeq(line, 1, Len(line) - 1)
       ELSE UNCHANGED <<command_buffer, command_length, line>>
  /\ UNCHANGED <<command_ready, history, gui, stuck, recent>>

\* Mutant: the line is not ended where the cursor stands.
EnterOpen ==
  /\ Key /\ ~vga_active
  /\ command_ready' = TRUE
  /\ UNCHANGED <<command_buffer, command_length, history, gui, stuck, line, recent>>

Enter ==
  /\ Key /\ ~vga_active
  /\ command_buffer' = [command_buffer EXCEPT ![command_length] = Nul]
  /\ command_ready' = TRUE
  /\ UNCHANGED <<command_length, history, gui, stuck, line, recent>>

\* load_history(direction): an arrow key, which the GUI does not take over.  Its
\* prefix byte only sets e0_mode and is part of the action.
NewPos(direction) ==
  LET p == history_pos + direction
  IN  IF p < 0 THEN -1 ELSE IF p >= history_count THEN history_count - 1 ELSE p

\* The buffer with string s copied over it, up to and including the null.
Overlaid(s) == [i \in Index |-> IF i <= StrLen(s) THEN s[i] ELSE command_buffer[i]]

load_history(direction) ==
  /\ Key
  /\ IF history_count = 0
       THEN UNCHANGED <<command_buffer, command_length, history_pos, line>>
       ELSE LET s == IF NewPos(direction) = -1 THEN Empty
                     ELSE cmd_history[NewPos(direction)]
            IN  /\ history_pos' = NewPos(direction)
                /\ command_buffer' = Overlaid(s)
                /\ command_length' = StrLen(s)
                /\ line' = Text(s)
  /\ UNCHANGED <<command_ready, cmd_history, history_count, gui, stuck, recent>>

\* The timer interrupt, as far as this state goes
Tick == /\ ~stuck /\ Woken # pc
        /\ pc' = Woken
        /\ UNCHANGED <<input, history, gui, k, stuck, ghosts>>
-----------------------------------------------------------------------------
(* gui_handle_char: with the GUI on, keys go to its own input line, and the *)
(* commands entered there run inside the keyboard interrupt.                *)

GuiChar(c) ==
  /\ Key /\ vga_active /\ gui_cmd_len < GuiCap - 1
  /\ gui_cmd_buffer' = [gui_cmd_buffer EXCEPT ![gui_cmd_len] = c, ![gui_cmd_len + 1] = Nul]
  /\ gui_cmd_len' = gui_cmd_len + 1
  /\ UNCHANGED <<input, history, vga_active, stuck, line, recent>>

GuiBackspace ==
  /\ Key /\ vga_active /\ gui_cmd_len > 0
  /\ gui_cmd_buffer' = [gui_cmd_buffer EXCEPT ![gui_cmd_len - 1] = Nul]
  /\ gui_cmd_len' = gui_cmd_len - 1
  /\ UNCHANGED <<input, history, vga_active, stuck, line, recent>>

\* add_to_history as a whole, for a handler that nothing interrupts
Pushed(s) == [l \in Lines |-> IF l = 0 THEN s ELSE cmd_history[l - 1]]

\* add_to_history copies 256 bytes whatever the size of its argument: what lies
\* behind gui_cmd_buffer comes with it.
GuiAddToHistory ==
  IF gui_cmd_buffer[0] = Nul THEN UNCHANGED <<history, recent>>
  ELSE /\ \E behind \in [GuiCap .. (Cap - 1) -> Cells] :
            cmd_history' = Pushed([i \in Index |-> IF i < GuiCap THEN gui_cmd_buffer[i]
                                                   ELSE behind[i]])
       /\ history_count' = Min({history_count + 1, MaxHistory})
       /\ history_pos' = -1
       /\ recent' = Kept(Text(gui_cmd_buffer), torn)

GuiWipe == gui_cmd_len' = 0 /\ gui_cmd_buffer' = [gui_cmd_buffer EXCEPT ![0] = Nul]

\* A command that waits with hlt never returns here: interrupts are off.
GuiEnter ==
  /\ Key /\ vga_active
  /\ GuiAddToHistory
  /\ \/ /\ MayWait(Text(gui_cmd_buffer))
        /\ stuck' = TRUE /\ UNCHANGED <<gui_cmd_buffer, gui_cmd_len>>
     \/ Returns(Text(gui_cmd_buffer)) /\ GuiWipe /\ UNCHANGED stuck
  /\ UNCHANGED <<input, vga_active, line>>

Keyboard ==
  \/ \E c \in Chars : TypeChar(c) \/ GuiChar(c)
  \/ Backspace \/ Enter \/ GuiBackspace \/ GuiEnter
  \/ \E d \in {1, -1} : load_history(d)
-----------------------------------------------------------------------------
(* The main loop. *)

At(l) == ~stuck /\ pc = l
Go(l) == pc' = l /\ k' = 0 /\ UNCHANGED stuck

\* The test of command_ready, and of the first character in add_to_history
Look ==
  /\ At("idle")
  /\ Go(IF ~command_ready THEN "sleep"
        ELSE IF command_buffer[0] = Nul THEN "run" ELSE "copy")
  /\ UNCHANGED <<input, history, gui, ghosts>>

\* hlt, at the end of the main loop and of the loops of monitor and of exec
Hlt ==
  /\ pc \in {"sleep", "monsleep", "endsleep", "execsleep"}
  /\ ~stuck
  /\ Go(CASE pc = "sleep" -> "asleep" [] pc = "monsleep" -> "monasleep"
          [] pc = "endsleep" -> "endasleep" [] pc = "execsleep" -> "execasleep")
  /\ UNCHANGED <<input, history, gui, ghosts>>

\* Mutant: the newest line is overwritten first.
RowNewestFirst == k \div Cap

\* One byte of add_to_history: the oldest line is overwritten first, the newest
\* by the command last.
Row == MaxHistory - 1 - (k \div Cap)
Column == k % Cap

CopyByte ==
  /\ At("copy") /\ k < MaxHistory * Cap
  /\ cmd_history' = [cmd_history EXCEPT ![Row][Column] =
                       IF Row = 0 THEN command_buffer[Column]
                       ELSE cmd_history[Row - 1][Column]]
  /\ k' = k + 1
  /\ UNCHANGED <<input, history_count, history_pos, gui, pc, stuck, ghosts>>

CountLine ==
  /\ At("copy") /\ k = MaxHistory * Cap
  /\ history_count' = Min({history_count + 1, MaxHistory})
  /\ torn' = (torn \/ raced) /\ recent' = Kept(line, torn')
  /\ Go("rewind")
  /\ UNCHANGED <<input, cmd_history, history_pos, gui, line, raced>>

Rewind ==
  /\ At("rewind")
  /\ history_pos' = -1
  /\ Go("run")
  /\ UNCHANGED <<input, cmd_history, history_count, gui, ghosts>>

\* The command is recognised and, unless it waits, done.  exec returns at once if its file
\* cannot be run.
AfterCommand(text) ==
  CASE text = Monitor -> {"monitor"}
    [] text = Vgamode -> {"gui"}
    [] text = Exec    -> {"exec", "reset"}
    [] OTHER          -> {"reset"}

Run ==
  /\ At("run") /\ Text(command_buffer) # Panic
  /\ \E l \in AfterCommand(Text(command_buffer)) : Go(l)
  /\ vga_active' = (Text(command_buffer) = Vgamode)
  /\ UNCHANGED <<input, history, gui_cmd_buffer, gui_cmd_len, ghosts>>

Stop == stuck' = TRUE /\ UNCHANGED <<input, history, gui, pc, k, ghosts>>

\* It turns the interrupts off and never returns.
kernel_panic == At("run") /\ Text(command_buffer) = Panic /\ Stop

\* exec waits until its program has ended, which may never be: the test of the task's state.
ExecLook ==
  /\ At("exec")
  /\ \E l \in {"reset", "execsleep"} : Go(l)
  /\ UNCHANGED <<input, history, gui, ghosts>>

\* The program runs while exec waits; an exception in it stops the machine.
ProgramFaults == ~stuck /\ pc \in {"exec", "execsleep", "execasleep"} /\ Stop

\* monitor and watch end when the last character typed is a 'q'.
MonitorLook ==
  /\ At("monitor")
  /\ Go(IF command_length > 0 /\ command_buffer[command_length - 1] = Quit
          THEN "monreset" ELSE "monsleep")
  /\ UNCHANGED <<input, history, gui, ghosts>>

\* command_length = 0, when monitor ends and after every command
ResetLength ==
  /\ At("reset") \/ At("monreset")
  /\ command_length' = 0
  /\ line' = <<>>
  /\ raced' = (raced /\ pc = "monreset")
  /\ Go(IF pc = "reset" THEN "wipe" ELSE "monwipe")
  /\ UNCHANGED <<command_buffer, command_ready, history, gui, torn, recent>>

\* One byte of the loop that clears command_buffer
WipeByte ==
  /\ At("wipe") \/ At("monwipe")
  /\ k < Cap
  /\ command_buffer' = [command_buffer EXCEPT ![k] = Nul]
  /\ k' = k + 1
  /\ UNCHANGED <<command_length, command_ready, history, gui, pc, stuck, ghosts>>

\* monitor sleeps once more before its loop ends.
MonitorEnds ==
  /\ At("monwipe") /\ k = Cap
  /\ Go("endsleep")
  /\ UNCHANGED <<input, history, gui, ghosts>>

\* Mutant: command_ready is not reset.
DoneStillReady ==
  /\ At("wipe") /\ k = Cap
  /\ Go("sleep")
  /\ UNCHANGED <<input, history, gui, ghosts>>

CommandDone ==
  /\ At("wipe") /\ k = Cap
  /\ command_ready' = FALSE
  /\ Go("sleep")
  /\ UNCHANGED <<command_buffer, command_length, history, gui, ghosts>>

MainStep == \/ Look \/ Hlt \/ CopyByte \/ CountLine \/ Rewind \/ Run \/ kernel_panic
            \/ ExecLook \/ MonitorLook \/ ResetLength \/ WipeByte \/ MonitorEnds
            \/ CommandDone

ShellNext == Keyboard \/ Tick \/ MainStep \/ ProgramFaults

\* The timer ticks 18 times a second, and the main loop waits for nothing but it.
ShellFairness == WF_shellVars(Tick) /\ WF_shellVars(MainStep)

ShellSpec == ShellInit /\ [][ShellNext]_shellVars /\ ShellFairness
-----------------------------------------------------------------------------
(* Properties. *)

\* The shared variables have their types; in particular every index stays inside
\* its buffer whatever the order of keys and steps of the main loop.
ShellTypeOK ==
  /\ command_buffer \in [Index -> Cells] /\ command_length \in Index
  /\ command_ready \in BOOLEAN
  /\ cmd_history \in [Lines -> [Index -> Cells]] /\ history_count \in 0 .. MaxHistory
  /\ history_pos \in -1 .. (history_count - 1)
  /\ gui_cmd_len \in 0 .. (GuiCap - 1) /\ vga_active \in BOOLEAN
  /\ gui_cmd_buffer \in [0 .. (GuiCap - 1) -> Cells]
  /\ pc \in {"idle", "sleep", "asleep", "copy", "rewind", "run", "monitor", "monsleep",
             "monasleep", "monreset", "monwipe", "endsleep", "endasleep", "gui",
             "exec", "execsleep", "execasleep", "reset", "wipe"}
  /\ k \in 0 .. (MaxHistory * Cap) /\ stuck \in BOOLEAN

\* A string that the shell scans ends inside its array: the command, each history
\* line, also while it is half copied, and a line that came from the GUI together
\* with what lies behind its buffer.
Terminated ==
  /\ StrLen(command_buffer) < Cap
  /\ \A l \in Lines : StrLen(cmd_history[l]) < Cap

\* If the user waits for the prompt before typing on, the command that runs is
\* the line on the screen, whatever was typed, erased and recalled before.
EnteredIsShown ==
  command_ready /\ ~raced /\ pc \in {"idle", "sleep", "asleep", "copy", "rewind", "run"}
    => Text(command_buffer) = line

\* If no key was pressed while a command was on its way into the history, the
\* history holds the lines entered last, the newest first.
HistoryIsRecent ==
  ~torn /\ pc # "copy" =>
    /\ history_count = Len(recent)
    /\ \A l \in 0 .. (history_count - 1) : Text(cmd_history[l]) = recent[l + 1]

\* The command that runs from the GUI is as long as its cursor shows.
GuiLineWhole == StrLen(gui_cmd_buffer) = gui_cmd_len

\* An Enter is noticed, also if it comes between the test of command_ready and
\* the hlt, and the prompt comes back unless the command itself waits for keys or for a
\* program, or stops the machine.
PromptReturns == command_ready ~> ~command_ready \/ pc \in {"monitor", "gui", "exec"} \/ stuck

\* Whatever is typed when, also in the middle of the main loop's copying, every index
\* stays inside its array, every string that is scanned ends inside its own, and the
\* GUI's line is as long as its cursor shows.
ShellInv == ShellTypeOK /\ Terminated /\ GuiLineWhole
=============================================================================
