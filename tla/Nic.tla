--------------------------------- MODULE Nic ---------------------------------
(***************************************************************************)
(* The RTL8139 driver of drivers/rtl8139.c: finding and starting the card, *)
(* sending a frame, and the receive interrupt.  The kernel thread is at    *)
(* pc, one action per access to what it shares with the interrupt; the     *)
(* interrupt handler is at isr.  The handler runs with interrupts off, so  *)
(* only the card moves while it does.                                      *)
(*                                                                         *)
(* A frame is told by who sent it and by its two halves, so that a copy    *)
(* can be interrupted in the middle.  What the protocols do with a frame   *)
(* is in Arp and Tcp; here it either makes the handler answer or not.      *)
(***************************************************************************)
EXTENDS Pci, Sequences

CONSTANTS
  Buses,        \* what may be found on the PCI bus
  MaxDevices,   \* PCI_MAX_DEVICES (32)
  Descriptors,  \* the number of transmit descriptors (4)
  RxSize,       \* the size of the receive ring (8192)
  Crc,          \* the bytes of the checksum at the end of a frame (4)
  Sizes         \* the sizes of frames on the wire, checksum included

ASSUME NicAssumption ==
  /\ \A b \in Buses : IsBus(b)
  /\ MaxDevices \in Nat /\ Descriptors \in Nat \ {0}
  /\ RxSize \in Nat \ {0} /\ RxSize % 4 = 0 /\ Crc \in Nat
  /\ Sizes \subseteq Nat /\ \A s \in Sizes : Crc < s /\ s + 8 < RxSize

VARIABLES
  bus,         \* the PCI bus
  present,     \* rtl8139_present
  io,          \* is rtl8139_io_base set
  up,          \* has rtl8139_init started the card and unmasked its interrupt
  pc,          \* where the kernel thread is
  tx_index, rx_offset,
  tx_buffers,
  i,           \* the thread's copy of tx_index
  isr,         \* where the interrupt handler is
  seen,        \* the interrupt status it has read
  status,      \* the card: its interrupt status register
  own,         \* the card: the OWN bits of its descriptors
  txcur,       \* the card: the descriptor it sends next
  queue,       \* the card: the frames in the receive ring, the oldest first
  cbr,         \* the card: where it writes next
  capr,        \* the card: up to where it takes the ring for read
  lost,        \* a copy has run away
  due,         \* the frames handed over and not sent yet, unless raced
  raced,       \* the interrupt has sent while the thread was sending
  whole        \* was all that was sent before that what was handed over, in its order

driver == <<present, io, up, tx_index, rx_offset, tx_buffers>>
thread == <<pc, i>>
handler == <<isr, seen>>
sending == <<own, txcur, due, whole>>
ring == <<queue, cbr, capr>>
vars == <<bus, driver, thread, handler, status, sending, ring, lost, raced>>

Slots == 0 .. (Descriptors - 1)
Offsets == {n \in 0 .. (RxSize - 1) : n % 4 = 0}
Sender == {"thread", "handler"}
Frame == [answer : BOOLEAN, size : Sizes, at : Offsets]

\* Mutant: the offset is not rounded up.
NextRecordUnaligned(p, s) == (4 * ((p + s + 4) \div 4)) % RxSize

\* Where a record that starts at offset p with a frame of size s ends: a header of four
\* bytes, the frame, rounded up
Align(n) == 4 * (n \div 4)
NextRecord(p, s) == Align(p + s + 4 + 3) % RxSize

Init ==
  /\ bus \in Buses
  /\ present = FALSE /\ io = FALSE /\ up = FALSE
  /\ pc = "boot" /\ i = 0 /\ tx_index = 0 /\ rx_offset = 0
  /\ tx_buffers = [d \in Slots |-> <<"none", "none">>]
  /\ isr = "off" /\ seen = {}
  /\ status = {} /\ own = [d \in Slots |-> TRUE] /\ txcur = 0
  /\ queue = <<>> /\ cbr = 0 /\ capr = 0 /\ lost = FALSE
  /\ due = <<>> /\ raced = FALSE /\ whole = TRUE
-----------------------------------------------------------------------------
(* The kernel thread.  It runs while no interrupt is pending: the line of the *)
(* card is level-triggered.                                                   *)

Running == isr = "off" /\ (up => status = {}) /\ ~lost

\* rtl8139_init, before interrupts are enabled
rtl8139_init ==
  /\ Running /\ pc = "boot"
  /\ pc' = "idle"
  /\ present' = Usable(bus, MaxDevices)
  /\ io' = Usable(bus, MaxDevices)
  /\ up' = Usable(bus, MaxDevices)
  /\ tx_index' = 0 /\ rx_offset' = 0
  /\ UNCHANGED <<bus, tx_buffers, i, handler, status, sending, ring, lost, raced>>

\* rtl8139_send_packet, called by a command.  The index is read once.
SendBegin ==
  /\ Running /\ pc = "idle"
  /\ present /\ io
  /\ i' = tx_index
  /\ pc' = "wait"
  /\ UNCHANGED <<bus, driver, handler, status, sending, ring, lost, raced>>

\* Mutant: nobody waits for the descriptor.
SendWaitWrong ==
  /\ Running /\ pc = "wait"
  /\ pc' = "copy_head"
  /\ UNCHANGED <<bus, driver, i, handler, status, sending, ring, lost, raced>>

\* The descriptor is free.
SendWait ==
  /\ Running /\ pc = "wait"
  /\ own[i]
  /\ pc' = "copy_head"
  /\ UNCHANGED <<bus, driver, i, handler, status, sending, ring, lost, raced>>

\* The copy into the descriptor's buffer, in two halves
CopyHalf(at, half, then) ==
  /\ Running /\ pc = at
  /\ tx_buffers' = [tx_buffers EXCEPT ![i][half] = "thread"]
  /\ pc' = then
  /\ UNCHANGED <<bus, present, io, up, tx_index, rx_offset, i, handler, status, sending,
                 ring, lost, raced>>

SendCopy == CopyHalf("copy_head", 1, "copy_tail") \/ CopyHalf("copy_tail", 2, "start")

\* The size written to the descriptor's status register hands it to the card.
SendStart ==
  /\ Running /\ pc = "start"
  /\ own' = [own EXCEPT ![i] = FALSE]
  /\ due' = IF raced THEN <<>> ELSE Append(due, "thread")
  /\ pc' = "advance"
  /\ UNCHANGED <<bus, driver, i, handler, status, txcur, whole, ring, lost, raced>>

SendAdvance ==
  /\ Running /\ pc = "advance"
  /\ tx_index' = (i + 1) % Descriptors
  /\ pc' = "idle"
  /\ UNCHANGED <<bus, present, io, up, rx_offset, tx_buffers, i, handler, status, sending,
                 ring, lost, raced>>

\* netinfo looks for the card again.  rtl8139_probe first forgets it;
netinfo ==
  /\ Running /\ pc = "idle"
  /\ present' = FALSE /\ io' = FALSE
  /\ pc' = "probe"
  /\ UNCHANGED <<bus, up, tx_index, rx_offset, tx_buffers, i, handler, status, sending, ring,
                 lost, raced>>

\* rtl8139_enable_io sets the base, if there is a card to be used,
ProbeBase ==
  /\ Running /\ pc = "probe"
  /\ io' = Usable(bus, MaxDevices)
  /\ pc' = IF Usable(bus, MaxDevices) THEN "probed" ELSE "idle"
  /\ UNCHANGED <<bus, present, up, tx_index, rx_offset, tx_buffers, i, handler, status,
                 sending, ring, lost, raced>>

\* and then the card counts as present.
ProbePresent ==
  /\ Running /\ pc = "probed"
  /\ present' = TRUE
  /\ pc' = "idle"
  /\ UNCHANGED <<bus, io, up, tx_index, rx_offset, tx_buffers, i, handler, status, sending,
                 ring, lost, raced>>

Command == SendBegin \/ netinfo
ThreadStep == \/ rtl8139_init \/ SendWait \/ SendCopy \/ SendStart \/ SendAdvance
              \/ ProbeBase \/ ProbePresent
-----------------------------------------------------------------------------
(* The interrupt handler. *)

\* rtl8139_isr_handler reads the interrupt status.  Without the I/O base it reads a port
\* that nobody answers on: the buffer then seems empty, and nothing is acknowledged.
IsrRead ==
  /\ up /\ isr = "off" /\ status # {} /\ ~lost
  /\ IF io THEN isr' = "ack" /\ seen' = status
           ELSE UNCHANGED <<isr, seen>>
  /\ UNCHANGED <<bus, driver, thread, status, sending, ring, lost, raced>>

\* Mutant: everything is acknowledged, seen or not.
IsrAckAll ==
  /\ isr = "ack"
  /\ status' = {}
  /\ isr' = IF "rx" \in seen THEN "receive" ELSE "off"
  /\ UNCHANGED <<bus, driver, thread, seen, sending, ring, lost, raced>>

\* It acknowledges what it has read, before it receives.
IsrAck ==
  /\ isr = "ack"
  /\ status' = status \ seen
  /\ isr' = IF "rx" \in seen THEN "receive" ELSE "off"
  /\ UNCHANGED <<bus, driver, thread, seen, sending, ring, lost, raced>>

\* rtl8139_handle_receive decides by the end of the record whether a frame wraps around,
\* and copies size - Crc bytes: those before the end of the ring, and the rest from its
\* start.
FirstPart(p) == RxSize - (p + 4)
Splits(p, s) == p + s + 4 > RxSize
SecondPart(p, s) == s - Crc - FirstPart(p)

\* The second length is unsigned: a negative one copies memory without end.
RunsAway(p, s) == Splits(p, s) /\ SecondPart(p, s) < 0

\* Mutant: the copy starts at the header.
TakenFromHeader(p, s, k) ==
  IF Splits(p, s) /\ k >= FirstPart(p) THEN k - FirstPart(p) ELSE p + k

\* The address that byte k of the frame is taken from
TakenFrom(p, s, k) == IF Splits(p, s) /\ k >= FirstPart(p) THEN k - FirstPart(p) ELSE p + 4 + k

\* Is every byte taken from where the card put it?
Faithful(f) ==
  \A k \in 0 .. (f.size - Crc - 1) : TakenFrom(rx_offset, f.size, k) = f.at + 4 + k

\* rtl8139_send_packet, called by a protocol handler
Answer ==
  IF present /\ io
    THEN /\ own[tx_index]
         /\ tx_buffers' = [tx_buffers EXCEPT ![tx_index] = <<"handler", "handler">>]
         /\ own' = [own EXCEPT ![tx_index] = FALSE]
         /\ tx_index' = (tx_index + 1) % Descriptors
         /\ raced' = (raced \/ pc \in {"wait", "copy_head", "copy_tail", "start", "advance"})
         /\ due' = IF raced' THEN <<>> ELSE Append(due, "handler")
    ELSE UNCHANGED <<tx_buffers, own, tx_index, due, raced>>

NoAnswer == UNCHANGED <<tx_buffers, own, tx_index, due, raced>>

\* One turn of the loop.  What a frame that was not copied faithfully asks for is anyone's
\* guess.
IsrFrame ==
  /\ isr = "receive" /\ queue # <<>> /\ ~lost
  /\ LET f == Head(queue)
     IN  \/ /\ RunsAway(rx_offset, f.size)
            /\ lost' = TRUE
            /\ NoAnswer
            /\ UNCHANGED <<rx_offset, queue, capr>>
         \/ /\ ~RunsAway(rx_offset, f.size)
            /\ \/ (f.answer \/ ~Faithful(f)) /\ Answer
               \/ (~f.answer \/ ~Faithful(f)) /\ NoAnswer
            /\ rx_offset' = NextRecord(rx_offset, f.size)
            /\ capr' = NextRecord(rx_offset, f.size)
            /\ queue' = Tail(queue)
            /\ UNCHANGED lost
  /\ UNCHANGED <<bus, present, io, up, thread, handler, status, txcur, whole, cbr>>

IsrReturn ==
  /\ isr = "receive" /\ queue = <<>>
  /\ isr' = "off"
  /\ UNCHANGED <<bus, driver, thread, seen, status, sending, ring, lost, raced>>

IsrStep == IsrRead \/ IsrAck \/ IsrFrame \/ IsrReturn
-----------------------------------------------------------------------------
(* The card.  The receive configuration 0x68F has the WRAP bit set: a frame that does *)
(* not fit before the end of the ring is written on behind it.                        *)

\* How much of the ring is free; equal pointers mean all of it.
Free == IF queue = <<>> THEN RxSize ELSE (capr - cbr + RxSize) % RxSize

\* A frame arrives that fits.
Arrive ==
  \E answer \in BOOLEAN, s \in Sizes :
    /\ up /\ ~lost
    /\ Align(s + 4 + 3) < Free
    /\ queue' = Append(queue, [answer |-> answer, size |-> s, at |-> cbr])
    /\ cbr' = (cbr + Align(s + 4 + 3)) % RxSize
    /\ status' = status \cup {"rx"}
    /\ UNCHANGED <<bus, driver, thread, handler, sending, capr, lost, raced>>

\* The card sends the descriptor whose turn it is, if it has been handed over.
Transmit ==
  /\ ~own[txcur] /\ ~lost
  /\ own' = [own EXCEPT ![txcur] = TRUE]
  /\ txcur' = (txcur + 1) % Descriptors
  /\ whole' = (whole /\ (raced \/ tx_buffers[txcur] = <<Head(due), Head(due)>>))
  /\ due' = IF raced THEN <<>> ELSE Tail(due)
  /\ status' = status \cup {"tx"}
  /\ UNCHANGED <<bus, driver, thread, handler, ring, lost, raced>>

Next == Command \/ ThreadStep \/ IsrStep \/ Arrive \/ Transmit

Spec == /\ Init /\ [][Next]_vars
        /\ WF_vars(ThreadStep) /\ WF_vars(IsrStep) /\ WF_vars(Transmit)
-----------------------------------------------------------------------------
\* The driver, the card and the frames under way have their types; offsets stay in the ring.
TypeOK ==
  /\ bus \in Buses /\ present \in BOOLEAN /\ io \in BOOLEAN /\ up \in BOOLEAN
  /\ pc \in {"boot", "idle", "wait", "copy_head", "copy_tail", "start", "advance", "probe",
             "probed"}
  /\ tx_index \in Slots /\ i \in Slots /\ txcur \in Slots
  /\ rx_offset \in Offsets /\ cbr \in Offsets /\ capr \in Offsets
  /\ tx_buffers \in [Slots -> (Sender \cup {"none"}) \X (Sender \cup {"none"})]
  /\ isr \in {"off", "ack", "receive"} /\ seen \subseteq {"rx", "tx"}
  /\ status \subseteq {"rx", "tx"} /\ own \in [Slots -> BOOLEAN]
  /\ queue \in Seq(Frame) /\ lost \in BOOLEAN
  /\ due \in Seq(Sender) /\ raced \in BOOLEAN /\ whole \in BOOLEAN

(* The driver keeps its own idea of where the next record starts.  It must never differ *)
(* from where the card has put the oldest unread frame, or will put the next one.       *)
RxInStep ==
  rx_offset = (IF queue = <<>> THEN cbr ELSE Head(queue).at) /\ capr = rx_offset

(* A frame whose data the card did not have to write across the end of the ring reaches *)
(* the protocols byte for byte, or else the copy runs away; and that happens only if the *)
(* checksum, and nothing else, lies across the end.                                      *)
WholeFramesAreRead ==
  queue # <<>> =>
    LET f   == Head(queue)
        end == f.at + 4 + f.size - Crc
    IN  /\ end <= RxSize => Faithful(f) \/ RunsAway(rx_offset, f.size)
        /\ RunsAway(rx_offset, f.size) => end < RxSize /\ end + Crc > RxSize

(* As long as no interrupt has sent in the middle of the thread's sending, every frame *)
(* leaves whole, once, and in the order in which it was handed over; a descriptor that *)
(* the card owns has not been touched, and card and driver agree on which is next.     *)
SentAsHanded ==
  ~raced => /\ whole
            /\ pc \in {"copy_head", "copy_tail", "start"} => own[i]
            /\ Len(due) = Cardinality({d \in Slots : ~own[d]})

(* A comment of rtl8139_send_packet: "Wait until descriptor is free (checking ownership *)
(* bit of TSD register)".  While the thread copies into a buffer, its descriptor is the *)
(* driver's.                                                                            *)
CopiesIntoFree == pc \in {"copy_tail", "start"} => own[i]

(* Frames are taken out of the ring for as long as there are any, unless netinfo has   *)
(* taken the base away when an interrupt came, or a copy has run away: no frame is left *)
(* lying because its interrupt was acknowledged together with another.  Once raced, a   *)
(* descriptor can be handed over out of its turn, and the handler waits for it forever.  *)
Blind == up /\ ~io /\ status # {}
FramesHandled ==
  []<>(queue = <<>> \/ Blind \/ lost \/ raced) \/ []<><<rx_offset' # rx_offset>>_rx_offset

(* A command that uses the card comes to its end, unless frames never stop coming. *)
CommandsEnd ==
  \/ []<><<Arrive>>_vars
  \/ []<>(pc = "idle" \/ Blind \/ lost \/ raced)

(* The card is found wherever it is function 0 of a slot, if there is no other before it *)
(* and the bus holds no more devices than the list; and what is found is a card that has  *)
(* registers in I/O space.                                                                *)
CardIsFound ==
  pc \notin {"boot", "probe", "probed"}
    => LET cards == {p \in DOMAIN bus : bus[p].card}
       IN  /\ (\E p \in cards : /\ p[2] = 0 /\ bus[p].io
                                /\ \A q \in cards \ {p} : Precedes(p, q)
                                /\ Cardinality(DOMAIN bus) <= MaxDevices) => present
           /\ present => \E p \in cards : bus[p].io

(* What the driver believes of its card is so: whether there is one, which rtl8139_init  *)
(* and every netinfo find out anew, and where the next record in the receive ring starts, *)
(* whatever frames came, went and wrapped around.                                         *)
NicInv == TypeOK /\ CardIsFound /\ RxInStep

(* The driver never gets stuck on its own: frames are taken out of the ring, although the *)
(* handler acknowledges before it receives and both kinds of interrupt at once, and a     *)
(* command that waits for a descriptor gets one.                                          *)
NicProgress == FramesHandled /\ CommandsEnd
=============================================================================
