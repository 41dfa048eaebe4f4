------------------------------- MODULE Console -------------------------------
(***************************************************************************)
(* The text screen of kernel.c: print_char_color and check_scroll, and the *)
(* two commands that draw over and over at one place, monitor and watch.   *)
(* The kernel thread prints, and in the middle of that the keyboard and    *)
(* the network interrupt print too, on the same cursor.  cursor_offset is  *)
(* not volatile: the build (-O2) reads it once for a character, stores it  *)
(* once, and decides about scrolling with what it has stored.  Positions   *)
(* count cells of two bytes.                                               *)
(***************************************************************************)
EXTENDS Integers

CONSTANTS Rows, Cols   \* the screen (25, 80)

ASSUME ConsoleAssumption == Rows \in Nat \ {0} /\ Cols \in Nat \ {0}

VARIABLES
  cursor_offset, prompt_min_offset,
  base_cursor,   \* where monitor or watch draws
  kpc,           \* where the thread is in print_char_color
  at             \* the cursor that it has read

consoleVars == <<cursor_offset, prompt_min_offset, base_cursor, kpc, at>>

Cells == Rows * Cols
LastRow == (Rows - 1) * Cols

ConsoleInit ==
  /\ cursor_offset = 0 /\ prompt_min_offset = 0 /\ base_cursor = 0
  /\ kpc = "rest" /\ at = 0

\* Mutant: the screen scrolls one cell late.
NeedsScrollLate(cursor) == cursor > Cells

NeedsScroll(cursor) == cursor >= Cells

\* Behind a character, for which there may be no room; and behind a line end
NextCell(cursor) == IF cursor < Cells THEN cursor + 1 ELSE cursor
NewLine(cursor) == (cursor \div Cols + 1) * Cols

\* check_scroll: the rest of the prompt moves up with its line.
ScrolledPrompt == IF prompt_min_offset < Cols THEN 0 ELSE prompt_min_offset - Cols
-----------------------------------------------------------------------------
(* The thread. *)

\* A character or a line end is printed: the cursor is read.
PrintBegin ==
  /\ kpc = "rest"
  /\ at' = cursor_offset
  /\ kpc' \in {"char", "line"}
  /\ UNCHANGED <<cursor_offset, prompt_min_offset, base_cursor>>

\* The cell is written, and the cursor behind it stored.
PrintStore ==
  /\ kpc \in {"char", "line"}
  /\ cursor_offset' = IF kpc = "line" THEN NewLine(at) ELSE NextCell(at)
  /\ kpc' = IF NeedsScroll(cursor_offset') THEN "scroll" ELSE "rest"
  /\ UNCHANGED <<prompt_min_offset, base_cursor, at>>

\* check_scroll: moving the screen takes a while; then the cursor is set.
check_scroll ==
  /\ kpc = "scroll"
  /\ cursor_offset' = LastRow
  /\ prompt_min_offset' = ScrolledPrompt
  /\ kpc' = "rest"
  /\ UNCHANGED <<base_cursor, at>>

clear_screen ==
  /\ kpc = "rest"
  /\ cursor_offset' = 0
  /\ UNCHANGED <<prompt_min_offset, base_cursor, kpc, at>>

\* The end of a command, behind the prompt
PromptPrinted ==
  /\ kpc = "rest"
  /\ prompt_min_offset' = cursor_offset
  /\ UNCHANGED <<cursor_offset, base_cursor, kpc, at>>

\* monitor and watch remember where they are, and draw there at every tick, also when
\* the screen has scrolled since.
DrawHere ==
  /\ kpc = "rest"
  /\ base_cursor' = cursor_offset
  /\ UNCHANGED <<cursor_offset, prompt_min_offset, kpc, at>>

DrawAgain ==
  /\ kpc = "rest"
  /\ cursor_offset' = base_cursor
  /\ UNCHANGED <<prompt_min_offset, base_cursor, kpc, at>>
-----------------------------------------------------------------------------
(* An interrupt prints a character, a line end or a backspace, all at once. *)

IrqStores(cursor) ==
  /\ cursor_offset' = IF NeedsScroll(cursor) THEN LastRow ELSE cursor
  /\ prompt_min_offset' = IF NeedsScroll(cursor) THEN ScrolledPrompt ELSE prompt_min_offset
  /\ UNCHANGED <<base_cursor, kpc, at>>

IrqChar == IrqStores(NextCell(cursor_offset))
IrqLine == IrqStores(NewLine(cursor_offset))

IrqBackspace ==
  /\ cursor_offset > prompt_min_offset
  /\ cursor_offset' = cursor_offset - 1
  /\ UNCHANGED <<prompt_min_offset, base_cursor, kpc, at>>

ConsoleNext == \/ PrintBegin \/ PrintStore \/ check_scroll \/ clear_screen \/ PromptPrinted
               \/ DrawHere \/ DrawAgain \/ IrqChar \/ IrqLine \/ IrqBackspace

ConsoleSpec == ConsoleInit /\ [][ConsoleNext]_consoleVars
-----------------------------------------------------------------------------
\* The positions are on the screen, and the thread is at a known place.
ConsoleTypeOK ==
  /\ prompt_min_offset \in 0 .. (Cells - 1) /\ base_cursor \in 0 .. (Cells - 1)
  /\ cursor_offset \in Int /\ at \in 0 .. Cells /\ kpc \in {"rest", "char", "line", "scroll"}

(* Every cell that is written is on the screen: the one that the thread has chosen, even   *)
(* if interrupts have printed or scrolled since, and the one that an interrupt would write *)
(* or erase.  The cursor is behind the last cell only until the thread has scrolled.       *)
WritesOnScreen ==
  /\ kpc = "char" => at \in 0 .. (Cells - 1)
  /\ cursor_offset \in 0 .. Cells
  /\ cursor_offset = Cells => kpc = "scroll"

(* Thread and interrupts that print through one cursor never write off the screen. *)
ConsoleInv == ConsoleTypeOK /\ WritesOnScreen
=============================================================================
