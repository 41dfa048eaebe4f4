------------------------------- MODULE Desktop -------------------------------
(***************************************************************************)
(* The graphical desktop of kernel.c: the mouse interrupt, the window that *)
(* it moves, and the loop of vgamode that draws.                           *)
(*                                                                         *)
(* The handler turns interrupts on before it reads the controller, so the  *)
(* interrupt of the next byte can come between any two of its accesses to  *)
(* memory: active is the stack of handlers, the running one first, each    *)
(* with the registers it has filled.  A step of a handler is one such      *)
(* access, in the order of the repository's own kernel.o: it adds the      *)
(* movement before it clips, and once it has read mouse_x and win_x for    *)
(* the title bar it goes on with these copies.                             *)
(***************************************************************************)
EXTENDS Integers, Sequences, FiniteSets

CONSTANTS
  Width, Height,          \* the screen (320, 200)
  Byte,                   \* the values of a byte (256); the flags of a packet fit into it
  WinX, WinY, WinW,       \* the window at first (80, 40), and its width (160)
  TitleH, Margin,         \* the height of its title bar and the margin of its button (10)
  ButtonTop, ButtonEnd,   \* rows of the panic button (25, 55)
  Moves,                  \* the packets' movements: pairs of steps to the right and up
  MaxPackets,             \* bound: packets of a run
  MaxNest                 \* bound: handlers under way

ASSUME DesktopAssumption ==
  /\ {Width, Height, Byte, WinX, WinY, WinW, TitleH, Margin, ButtonTop, ButtonEnd} \subseteq Nat
  /\ Width > 0 /\ Height > 0 /\ Byte >= 64
  /\ TitleH < ButtonTop /\ ButtonTop <= ButtonEnd /\ 2 * Margin <= WinW
  /\ Moves \subseteq (-Byte .. (Byte - 1)) \X (-Byte .. (Byte - 1))
  /\ MaxPackets \in Nat /\ MaxNest \in Nat

VARIABLES
  packet, count,   \* the packet that the mouse sends, and how many there were
  sent,            \* how many of its bytes the controller has handed over
  active,          \* the handlers under way
  mouse_cycle, mouse_byte,
  nested,          \* a handler has run inside another
  crossed,         \* the latest packet was applied inside the application of another
  mouse_x, mouse_y, win_x, win_y, is_dragging, drag_off_x, drag_off_y,
  machine,         \* "runs", "panicked", or "wild" when a byte was stored behind mouse_cycle
  frame_ready,
  dpc,             \* where the loop of vgamode is; "text" before that, with vga_active 0
  drawn            \* the pointer on the screen

mouse == <<packet, count, sent>>
receiver == <<mouse_cycle, mouse_byte>>
history == <<nested, crossed>>
pointer == <<mouse_x, mouse_y>>
grip == <<is_dragging, drag_off_x, drag_off_y>>
window == <<pointer, win_x, win_y, grip, machine>>
loop == <<dpc, drawn>>
desktopVars == <<mouse, active, receiver, history, window, frame_ready, loop>>

Packet == [left : BOOLEAN, move : Moves]

\* A byte: the packet it is of, which is told from the one before, and its place there
ByteOf(n) == [of |-> packet, number |-> count % 2, place |-> n]
NoPacket == [left |-> FALSE, move |-> <<0, 0>>]
NoByte == [of |-> NoPacket, number |-> 0, place |-> 0]

\* What it is in the controller: the flags, or the low bits of a movement
Flag(set, bit) == IF set THEN bit ELSE 0
Value(d) ==
  CASE d.place = 1 -> 8 + Flag(d.of.left, 1) + Flag(d.of.move[1] < 0, 16)
                        + Flag(d.of.move[2] < 0, 32)
    [] d.place = 2 -> d.of.move[1] % Byte
    [] d.place = 3 -> d.of.move[2] % Byte
    [] OTHER -> 0
Has(d, bit) == (Value(d) \div bit) % 2 = 1

\* A handler: where it is, the byte and the mouse_cycle it has read, and its registers:
\* the three bytes of a packet, is_dragging, and places of the pointer and of the window
NewHandler ==
  [at |-> "start", d |-> NoByte, c |-> 0, b |-> <<NoByte, NoByte, NoByte>>,
   held |-> FALSE, x |-> 0, y |-> 0, wx |-> 0, wy |-> 0]

DesktopInit ==
  /\ packet = NoPacket /\ count = 0 /\ sent = 3
  /\ active = <<>> /\ mouse_cycle = 0 /\ mouse_byte = <<NoByte, NoByte, NoByte>>
  /\ nested = FALSE /\ crossed = FALSE
  /\ mouse_x = Width \div 2 /\ mouse_y = Height \div 2
  /\ win_x = WinX /\ win_y = WinY /\ is_dragging = FALSE /\ drag_off_x = 0 /\ drag_off_y = 0
  /\ machine = "runs" /\ frame_ready = TRUE /\ dpc = "text" /\ drawn = <<0, 0>>
-----------------------------------------------------------------------------
(* The mouse and its controller, which holds one byte. *)

MouseSends ==
  /\ machine = "runs" /\ dpc # "text" /\ sent = 3 /\ count < MaxPackets
  /\ packet' \in Packet
  /\ count' = count + 1 /\ sent' = 0
  /\ UNCHANGED <<active, receiver, history, window, frame_ready, loop>>
-----------------------------------------------------------------------------
(* mouse_isr_handler: the byte *)

\* The controller holds the next byte, and its interrupt comes, also inside a handler that
\* has gone past its sti and read its byte.  It ends a hlt.
MouseIrq ==
  /\ machine = "runs" /\ sent < 3 /\ Len(active) < MaxNest
  /\ active # <<>> => Head(active).at # "start"
  /\ active' = <<NewHandler>> \o active
  /\ nested' = (nested \/ active # <<>>)
  /\ dpc' = IF dpc = "hlt" THEN "check" ELSE dpc
  /\ UNCHANGED <<mouse, receiver, crossed, window, frame_ready, drawn>>

me == Head(active)
At(where) == machine = "runs" /\ active # <<>> /\ me.at = where
Become(h) == active' = <<h>> \o Tail(active)
Goto(where) == Become([me EXCEPT !.at = where])
Return == active' = Tail(active)

\* The byte is read.
ReadByte ==
  /\ At("start")
  /\ sent' = sent + 1
  /\ Become([me EXCEPT !.at = "read", !.d = ByteOf(sent')])
  /\ UNCHANGED <<packet, count, receiver, history, window, frame_ready, loop>>

\* mouse_cycle is read.  Where a first byte is expected, one without bit 3 is dropped: a
\* movement can have the bit too.
ReadCycle ==
  /\ At("read")
  /\ IF mouse_cycle = 0 /\ ~Has(me.d, 8)
       THEN Return ELSE Become([me EXCEPT !.at = "cycle", !.c = mouse_cycle])
  /\ UNCHANGED <<mouse, receiver, history, window, frame_ready, loop>>

\* mouse_byte[mouse_cycle++] = d: the cycle first
StoreCycle ==
  /\ At("cycle")
  /\ mouse_cycle' = (me.c + 1) % Byte
  /\ Goto("store")
  /\ UNCHANGED <<mouse, mouse_byte, history, window, frame_ready, loop>>

\* Behind the array lies mouse_cycle, and behind that what the handler must not touch.
StoreByte ==
  /\ At("store")
  /\ mouse_byte' = IF me.c < 3 THEN [mouse_byte EXCEPT ![me.c + 1] = me.d] ELSE mouse_byte
  /\ mouse_cycle' = IF me.c = 3 THEN Value(me.d) ELSE mouse_cycle
  /\ machine' = IF me.c > 3 THEN "wild" ELSE machine
  /\ IF me.c = 2 THEN Goto("packet") ELSE Return
  /\ UNCHANGED <<mouse, history, pointer, win_x, win_y, grip, frame_ready, loop>>

\* The places where a packet is being applied, from the first byte that is read back
Loading == {"byte1", "x", "byte0", "byte2", "y"}
Adding == {"addx", "addy", "clipx", "clipy", "frame"}
Looking == {"click", "px", "wx", "py", "wy", "buttonwy", "buttony", "again"}
Dragging == {"grab", "graby", "grabx", "offx", "movex", "movey", "offy", "put"}
Applying == Loading \cup Adding \cup Looking \cup Dragging

\* Whether a packet is applied inside another
Inside == \E k \in 2 .. Len(active) : active[k].at \in Applying

\* Mutant: the cycle goes on.
PacketDoneGoesOn ==
  /\ At("packet")
  /\ Goto("byte1") /\ crossed' = Inside
  /\ UNCHANGED <<mouse, receiver, nested, window, frame_ready, loop>>

PacketDone ==
  /\ At("packet")
  /\ mouse_cycle' = 0
  /\ IF dpc = "text" THEN Return /\ UNCHANGED crossed ELSE Goto("byte1") /\ crossed' = Inside
  /\ UNCHANGED <<mouse, mouse_byte, nested, window, frame_ready, loop>>

HandleByte == ReadByte \/ ReadCycle \/ StoreCycle \/ StoreByte \/ PacketDone
-----------------------------------------------------------------------------
(* mouse_isr_handler: the movement *)

\* A handler fills a register.
Load(where, h) ==
  /\ At(where) /\ Become(h)
  /\ UNCHANGED <<mouse, receiver, history, window, frame_ready, loop>>

LoadPacket ==
  \/ Load("byte1", [me EXCEPT !.at = "x", !.b[2] = mouse_byte[2]])
  \/ Load("x", [me EXCEPT !.at = "byte0", !.x = mouse_x])
  \/ Load("byte0", [me EXCEPT !.at = "byte2", !.b[1] = mouse_byte[1]])
  \/ Load("byte2", [me EXCEPT !.at = "y", !.b[3] = mouse_byte[3]])
  \/ Load("y", [me EXCEPT !.at = "addx", !.y = mouse_y])

\* mouse_byte is of type char, which is signed: 256 - mouse_byte[1], which is to be the
\* length of a step back, is 256 too long for the bytes from 128 on, and a long step
\* forward goes back.
Signed(v) == IF 2 * v >= Byte THEN v - Byte ELSE v
Travel(flags, bit, d) == Signed(Value(d)) - Flag(Has(flags, bit), Byte)

AddX ==
  /\ At("addx")
  /\ mouse_x' = me.x + Travel(me.b[1], 16, me.b[2])
  /\ Become([me EXCEPT !.at = "addy", !.x = mouse_x'])
  /\ UNCHANGED <<mouse, receiver, history, mouse_y, win_x, win_y, grip, machine, frame_ready, loop>>

AddY ==
  /\ At("addy")
  /\ mouse_y' = me.y - Travel(me.b[1], 32, me.b[3])
  /\ Become([me EXCEPT !.at = "clipx", !.y = mouse_y'])
  /\ UNCHANGED <<mouse, receiver, history, mouse_x, win_x, win_y, grip, machine, frame_ready, loop>>

\* What the handler has added up decides whether the pointer is set back.
Clipped(v, size) == IF v < 0 THEN 0 ELSE size - 1

ClipX ==
  /\ At("clipx")
  /\ mouse_x' = IF me.x \in 0 .. (Width - 1) THEN mouse_x ELSE Clipped(me.x, Width)
  /\ Goto("clipy")
  /\ UNCHANGED <<mouse, receiver, history, mouse_y, win_x, win_y, grip, machine, frame_ready, loop>>

ClipY ==
  /\ At("clipy")
  /\ mouse_y' = IF me.y \in 0 .. (Height - 1) THEN mouse_y ELSE Clipped(me.y, Height)
  /\ Goto("frame")
  /\ UNCHANGED <<mouse, receiver, history, mouse_x, win_x, win_y, grip, machine, frame_ready, loop>>

AskFrame ==
  /\ At("frame")
  /\ frame_ready' = TRUE
  /\ Goto("click")
  /\ UNCHANGED <<mouse, receiver, history, window, loop>>

MovePointer == LoadPacket \/ AddX \/ AddY \/ ClipX \/ ClipY \/ AskFrame
-----------------------------------------------------------------------------
(* mouse_isr_handler: the left button *)

\* Without it the window is dropped.
Release ==
  /\ At("click") /\ ~Has(me.b[1], 1)
  /\ is_dragging' = FALSE
  /\ Return
  /\ UNCHANGED <<mouse, receiver, history, pointer, win_x, win_y, drag_off_x, drag_off_y,
                 machine, frame_ready, loop>>

\* Where a handler goes from the title bar, that drags the window or not: beside the panic
\* button nothing more is asked of the pointer, and to the left of it is_dragging is known.
AfterTitle(h, drags) ==
  IF h.x < h.wx + Margin THEN IF drags THEN "offx" ELSE "done"
  ELSE IF h.x > h.wx + WinW - Margin THEN IF drags THEN "again" ELSE "done"
  ELSE "buttonwy"

AfterAbscissa(h) == IF ~h.held /\ h.x \in h.wx .. (h.wx + WinW) THEN "py" ELSE AfterTitle(h, h.held)
AfterOrdinate(h) == IF h.y \in h.wy .. (h.wy + TitleH) THEN "grab" ELSE AfterTitle(h, FALSE)

\* A handler fills a register and goes on, or is done.
LoadAndGo(at, h, where) ==
  /\ At(at)
  /\ IF where = "done" THEN Return ELSE Become([h EXCEPT !.at = where])
  /\ UNCHANGED <<mouse, receiver, history, window, frame_ready, loop>>

LookAtTitle ==
  \/ Load("click", [me EXCEPT !.at = "px", !.held = is_dragging]) /\ Has(me.b[1], 1)
  \/ Load("px", [me EXCEPT !.at = "wx", !.x = mouse_x])
  \/ LET h == [me EXCEPT !.wx = win_x] IN LoadAndGo("wx", h, AfterAbscissa(h))
  \/ Load("py", [me EXCEPT !.at = "wy", !.y = mouse_y])
  \/ LET h == [me EXCEPT !.wy = win_y] IN LoadAndGo("wy", h, AfterOrdinate(h))

\* The window is grabbed.
GrabWindow ==
  \/ /\ At("grab") /\ Goto("graby")
     /\ is_dragging' = TRUE /\ UNCHANGED <<drag_off_x, drag_off_y>>
     /\ UNCHANGED <<mouse, receiver, history, pointer, win_x, win_y, machine, frame_ready, loop>>
  \/ /\ At("graby") /\ Goto("grabx")
     /\ drag_off_y' = me.y - me.wy /\ UNCHANGED <<is_dragging, drag_off_x>>
     /\ UNCHANGED <<mouse, receiver, history, pointer, win_x, win_y, machine, frame_ready, loop>>
  \/ /\ At("grabx") /\ Goto(AfterTitle(me, TRUE))
     /\ drag_off_x' = me.x - me.wx /\ UNCHANGED <<is_dragging, drag_off_y>>
     /\ UNCHANGED <<mouse, receiver, history, pointer, win_x, win_y, machine, frame_ready, loop>>

\* kernel_panic does not return.
LookAtButton ==
  \/ Load("buttonwy", [me EXCEPT !.at = "buttony", !.wy = win_y])
  \/ /\ At("buttony")
     /\ Become([me EXCEPT !.at = "again", !.y = mouse_y])
     /\ machine' = IF mouse_y \in (me.wy + ButtonTop) .. (me.wy + ButtonEnd)
                     THEN "panicked" ELSE machine
     /\ UNCHANGED <<mouse, receiver, history, pointer, win_x, win_y, grip, frame_ready, loop>>
  \/ LoadAndGo("again", me, IF is_dragging THEN "offx" ELSE "done")

\* The window follows the pointer, as it was grabbed.
MoveWindow ==
  \/ Load("offx", [me EXCEPT !.at = "movex", !.x = me.x - drag_off_x])
  \/ /\ At("movex") /\ Goto("movey")
     /\ win_x' = me.x
     /\ UNCHANGED <<mouse, receiver, history, pointer, win_y, grip, machine, frame_ready, loop>>
  \/ Load("movey", [me EXCEPT !.at = "offy", !.y = mouse_y])
  \/ Load("offy", [me EXCEPT !.at = "put", !.y = me.y - drag_off_y])
  \/ /\ At("put") /\ Return
     /\ win_y' = me.y
     /\ UNCHANGED <<mouse, receiver, history, pointer, win_x, grip, machine, frame_ready, loop>>

LeftButton == Release \/ LookAtTitle \/ GrabWindow \/ LookAtButton \/ MoveWindow

MouseHandler == HandleByte \/ MovePointer \/ LeftButton
-----------------------------------------------------------------------------
(* The timer, and the loop of vgamode. *)

\* Mutant: only the mouse asks for a frame.
TickWithoutFrame ==
  /\ machine = "runs" /\ dpc # "text"
  /\ dpc' = IF dpc = "hlt" THEN "check" ELSE dpc
  /\ UNCHANGED <<mouse, active, receiver, history, window, frame_ready, drawn>>

\* timer_isr_handler
DesktopTick ==
  /\ machine = "runs" /\ dpc # "text"
  /\ frame_ready' = TRUE
  /\ dpc' = IF dpc = "hlt" THEN "check" ELSE dpc
  /\ UNCHANGED <<mouse, active, receiver, history, window, drawn>>

vgamode ==
  /\ dpc = "text"
  /\ dpc' = "check" /\ frame_ready' = TRUE
  /\ UNCHANGED <<mouse, active, receiver, history, window, drawn>>

\* The loop runs while no handler does.
LoopAt(where) == machine = "runs" /\ active = <<>> /\ dpc = where

\* Nothing was asked for: hlt.
NoFrame ==
  /\ LoopAt("check") /\ ~frame_ready
  /\ dpc' = "hlt"
  /\ UNCHANGED <<mouse, active, receiver, history, window, frame_ready, drawn>>

render_gui ==
  /\ LoopAt("check") /\ frame_ready
  /\ drawn' = pointer
  /\ dpc' = "clear"
  /\ UNCHANGED <<mouse, active, receiver, history, window, frame_ready>>

\* What the interrupts have asked for since is forgotten.
ClearFrame ==
  /\ LoopAt("clear")
  /\ frame_ready' = FALSE
  /\ dpc' = "hlt"
  /\ UNCHANGED <<mouse, active, receiver, history, window, drawn>>

DesktopLoop == NoFrame \/ render_gui \/ ClearFrame

DesktopNext == \/ MouseSends \/ MouseIrq \/ MouseHandler
               \/ DesktopTick \/ vgamode \/ DesktopLoop

\* The timer ticks, handlers return, and the loop runs when they have.
DesktopFairness == /\ WF_desktopVars(MouseHandler) /\ WF_desktopVars(DesktopTick)
                   /\ WF_desktopVars(DesktopLoop)

DesktopSpec == DesktopInit /\ [][DesktopNext]_desktopVars /\ DesktopFairness
-----------------------------------------------------------------------------
\* The mouse, the handlers, the window and the loop have their types.
DesktopTypeOK ==
  /\ packet \in Packet \cup {NoPacket} /\ count \in 0 .. MaxPackets /\ sent \in 0 .. 3
  /\ Len(active) <= MaxNest /\ mouse_cycle \in 0 .. (Byte - 1)
  /\ nested \in BOOLEAN /\ crossed \in BOOLEAN
  /\ {mouse_x, mouse_y, win_x, win_y} \subseteq Int
  /\ is_dragging \in BOOLEAN /\ frame_ready \in BOOLEAN
  /\ machine \in {"runs", "panicked", "wild"} /\ dpc \in {"text", "check", "clear", "hlt"}

\* Three bytes are those of one packet.
Whole(b) == \A k \in 1 .. 3 : b[k] = [b[1] EXCEPT !.place = k]

(* As long as no handler was interrupted by the next, the driver knows which byte of a *)
(* packet comes next, and what it applies are the three bytes of one packet.           *)
BytesInStep ==
  ~nested => /\ active = <<>> => mouse_cycle = sent % 3
             /\ At("addx") => Whole(me.b)

(* Whatever handler interrupts whom, and however far off the screen a handler stores the *)
(* pointer before it clips it: when they have returned it is on the screen.              *)
PointerOnScreen ==
  active = <<>> => mouse_x \in 0 .. (Width - 1) /\ mouse_y \in 0 .. (Height - 1)

(* A window that is dragged is under the pointer when the handlers have returned, held by *)
(* the place where it was grabbed, if the latest packet was not applied in the middle of  *)
(* the application of another: also when an earlier one was.                              *)
GripKept ==
  active = <<>> /\ is_dragging /\ ~crossed =>
    mouse_x = win_x + drag_off_x /\ mouse_y = win_y + drag_off_y

(* That place is one of the title bar, whatever handler interrupts whom. *)
GrippedByTitle == drag_off_x \in 0 .. WinW /\ drag_off_y \in 0 .. TitleH

(* Where the pointer is gets drawn, although the loop may forget that it was asked to. *)
PointerIsDrawn == []<>(drawn = pointer \/ machine # "runs" \/ dpc = "text")

(* Whatever handler interrupts whom, the pointer comes back to the screen and the window   *)
(* is held by its title bar; a packet that is applied in one go leaves the window in its   *)
(* grip; and without nesting, packets are put together as they were sent.                  *)
DesktopInv == /\ DesktopTypeOK /\ BytesInStep /\ PointerOnScreen /\ GripKept
              /\ GrippedByTitle

(* What kernel.c says of the frame that the handler asks for: a full packet arrived.  A  *)
(* handler that is interrupted before it has counted its byte mixes up the packets.      *)
PacketIsFull == At("frame") => Whole(me.b)

(* What the panic button says: the panic was initiated by a click of the user.  A window *)
(* that is dragged stays where it was while the button is looked for, and the pointer    *)
(* that goes down lands on it.                                                           *)
PanicIsAClick == [][machine' = "panicked" => ~me.held]_desktopVars
=============================================================================
