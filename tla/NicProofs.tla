------------------------------ MODULE NicProofs ------------------------------
(***************************************************************************)
(* Proofs about the RTL8139 driver: the receive ring, the transmit         *)
(* descriptors and the search for the card, for every size of ring, frame, *)
(* bus and list, and any number of descriptors.                            *)
(***************************************************************************)
EXTENDS Nic, SetInduction, FiniteSetTheorems, SequenceTheorems

\* The records in the ring follow one another, from where the driver reads to where the
\* card writes.
Chain ==
  /\ \A k \in 1 .. (Len(queue) - 1) : queue[k + 1].at = NextRecord(queue[k].at, queue[k].size)
  /\ queue # <<>> => cbr = NextRecord(queue[Len(queue)].at, queue[Len(queue)].size)

\* How many turns of the card descriptor d is away, and the descriptor n turns away
Turn(d) == IF d >= txcur THEN d - txcur ELSE d - txcur + Descriptors
After(n) == IF txcur + n < Descriptors THEN txcur + n ELSE txcur + n - Descriptors

\* Without a race, the descriptors that the card owns are the next Len(due), in their order;
\* they hold what was handed over, and the driver goes on behind them.
Owned ==
  /\ Len(due) <= Descriptors
  /\ \A d \in Slots : own[d] <=> Turn(d) >= Len(due)
  /\ \A d \in Slots : Turn(d) < Len(due)
       => tx_buffers[d] = <<due[Turn(d) + 1], due[Turn(d) + 1]>>
  /\ Len(due) = Cardinality({d \in Slots : ~own[d]})

InTurn ==
  /\ Owned
  /\ IF pc = "advance" THEN (tx_index + 1) % Descriptors = After(Len(due))
                       ELSE tx_index = After(Len(due))

\* What the thread has in its hands
InHand ==
  /\ pc \in {"wait", "copy_head", "copy_tail", "start", "advance"} => i = tx_index
  /\ pc \in {"copy_head", "copy_tail", "start"} => own[i]
  /\ pc = "copy_tail" => tx_buffers[i][1] = "thread"
  /\ pc = "start" => tx_buffers[i] = <<"thread", "thread">>

Sent == ~raced => whole /\ InTurn /\ InHand

\* Before rtl8139_init, nothing has moved; afterwards, the driver knows if it has a card.
Booted ==
  /\ pc = "boot" => ~up /\ isr = "off" /\ tx_index = 0 /\ rx_offset = 0
  /\ pc = "probe" => ~present
  /\ pc = "probed" => Usable(bus, MaxDevices)
  /\ pc \notin {"boot", "probe", "probed"} => present = Usable(bus, MaxDevices)

NicIndInv == TypeOK /\ RxInStep /\ Chain /\ Sent /\ Booted
-----------------------------------------------------------------------------
(* The search for the card. *)

LEMMA OrderOfPlaces ==
  ASSUME NEW p \in Nat \X Nat, NEW q \in Nat \X Nat
  PROVE  /\ p = <<p[1], p[2]>> /\ p[1] \in Nat /\ p[2] \in Nat
         /\ ~(Precedes(p, q) /\ Precedes(q, p)) /\ ~Precedes(p, p)
         /\ p # q => Precedes(p, q) \/ Precedes(q, p)
<1>1. /\ p = <<p[1], p[2]>> /\ p[1] \in Nat /\ p[2] \in Nat
      /\ q = <<q[1], q[2]>> /\ q[1] \in Nat /\ q[2] \in Nat
  OBVIOUS
<1>2. ~(Precedes(p, q) /\ Precedes(q, p)) /\ ~Precedes(p, p)
  BY <1>1 DEF Precedes
<1>3. p # q => Precedes(p, q) \/ Precedes(q, p)
  BY <1>1 DEF Precedes
<1> QED
  BY <1>1, <1>2, <1>3

\* rtl8139_probe has a first card to take, if any is listed.
LEMMA FirstCardIsCard ==
  ASSUME NEW b, IsBus(b), NEW max \in Nat, Cards(b, max) # {}
  PROVE  /\ FirstCard(b, max) \in Cards(b, max)
         /\ \A q \in Cards(b, max) \ {FirstCard(b, max)} : Precedes(FirstCard(b, max), q)
<1> DEFINE C == Cards(b, max)
           S == {p[1] : p \in C}
<1>1. C \subseteq Nat \X Nat
  BY DEF Cards, pci_scan_devices, Visited, IsBus
<1>2. S \in SUBSET Nat /\ S # {}
  BY <1>1, OrderOfPlaces
<1>3. PICK s \in S : \A t \in S : s <= t
  BY <1>2, LeastElement
<1> DEFINE F == {p[2] : p \in {c \in C : c[1] = s}}
<1>4. F \in SUBSET Nat /\ F # {}
  BY <1>1, <1>3, OrderOfPlaces
<1>5. PICK f \in F : \A g \in F : f <= g
  BY <1>4, LeastElement
<1>6. PICK p \in C : p[1] = s /\ p[2] = f
  BY <1>5
<1>7. \A q \in C \ {p} : Precedes(p, q)
  <2> SUFFICES ASSUME NEW q \in C, q # p
               PROVE  Precedes(p, q)
    OBVIOUS
  <2>1. /\ q = <<q[1], q[2]>> /\ q[1] \in Nat /\ q[2] \in Nat
        /\ p = <<p[1], p[2]>> /\ p[1] \in Nat /\ p[2] \in Nat
    BY <1>1, OrderOfPlaces
  <2>2. s <= q[1] /\ (q[1] = s => f <= q[2])
    BY <1>3, <1>5
  <2> QED
    BY <1>6, <2>1, <2>2 DEF Precedes
<1> HIDE DEF C
<1>8. \E c \in C : \A q \in C \ {c} : Precedes(c, q)
  BY <1>7
<1>9. FirstCard(b, max) = CHOOSE c \in C : \A q \in C \ {c} : Precedes(c, q)
  BY DEF FirstCard, C
<1>10. FirstCard(b, max) \in C /\ \A q \in C \ {FirstCard(b, max)} : Precedes(FirstCard(b, max), q)
  BY <1>8, <1>9
<1> QED
  BY <1>10 DEF C

LEMMA CardIsUsable ==
  ASSUME NEW b, IsBus(b), NEW max \in Nat, NEW p \in DOMAIN b, b[p].card, b[p].io, p[2] = 0,
         \A q \in {c \in DOMAIN b : b[c].card} \ {p} : Precedes(p, q),
         Cardinality(DOMAIN b) <= max
  PROVE  Usable(b, max)
<1>1. DOMAIN b \subseteq Nat \X Nat /\ IsFiniteSet(DOMAIN b)
  BY DEF IsBus
<1>2. p = <<p[1], 0>> /\ p[1] \in Nat
  BY <1>1, OrderOfPlaces
<1>3. p \in Visited(b)
  BY <1>2 DEF Visited
<1>4. Cardinality({q \in Visited(b) : Precedes(q, p)}) < max
  <2> DEFINE B == {q \in Visited(b) : Precedes(q, p)}
             D == DOMAIN b \ {p}
  <2>1. B \subseteq D
    BY <1>1, OrderOfPlaces DEF Visited
  <2>2. IsFiniteSet(D) /\ Cardinality(D) = Cardinality(DOMAIN b) - 1
    BY <1>1, FS_RemoveElement
  <2>3. Cardinality(DOMAIN b) \in Nat
    BY <1>1, FS_CardinalityType
  <2> HIDE DEF B, D
  <2>4. IsFiniteSet(B) /\ Cardinality(B) <= Cardinality(D) /\ Cardinality(B) \in Nat
    BY <2>1, <2>2, FS_Subset, FS_CardinalityType
  <2>5. Cardinality(B) < max
    BY <2>2, <2>3, <2>4
  <2> QED
    BY <2>5 DEF B
<1>5. p \in Cards(b, max)
  BY <1>3, <1>4 DEF Cards, pci_scan_devices
<1>6. Cards(b, max) \subseteq {c \in DOMAIN b : b[c].card}
  BY DEF Cards, pci_scan_devices, Visited
<1>7. PICK c \in Cards(b, max) : c = FirstCard(b, max) /\ \A q \in Cards(b, max) \ {c} : Precedes(c, q)
  BY <1>5, FirstCardIsCard
<1>8. c = p
  <2> SUFFICES ASSUME c # p
               PROVE  FALSE
    OBVIOUS
  <2>1. Precedes(c, p) /\ Precedes(p, c)
    BY <1>5, <1>6, <1>7
  <2>2. c \in Nat \X Nat /\ p \in Nat \X Nat
    BY <1>1, <1>6
  <2> QED
    BY <2>1, <2>2, OrderOfPlaces
<1> QED
  BY <1>5, <1>7, <1>8 DEF Usable

LEMMA UsableIsCard ==
  ASSUME NEW b, IsBus(b), NEW max \in Nat, Usable(b, max)
  PROVE  \E p \in {c \in DOMAIN b : b[c].card} : b[p].io
<1>1. Cards(b, max) # {} /\ b[FirstCard(b, max)].io
  BY DEF Usable
<1>2. FirstCard(b, max) \in Cards(b, max)
  BY <1>1, FirstCardIsCard
<1>3. Cards(b, max) \subseteq {c \in DOMAIN b : b[c].card}
  BY DEF Cards, pci_scan_devices, Visited
<1> QED
  BY <1>1, <1>2, <1>3
-----------------------------------------------------------------------------
(* The receive ring. *)

LEMMA NicConstants ==
  /\ RxSize \in Nat /\ RxSize >= 4 /\ RxSize % 4 = 0 /\ Crc \in Nat /\ MaxDevices \in Nat
  /\ Descriptors \in Nat /\ Descriptors >= 1
  /\ \A s \in Sizes : s \in Nat /\ Crc < s /\ s + 8 < RxSize
  /\ \A b \in Buses : IsBus(b)
BY NicAssumption

\* The driver's arithmetic and the card's lead to the same place, aligned and in the ring.
LEMMA RecordEnd ==
  ASSUME NEW p \in Offsets, NEW s \in Sizes
  PROVE  /\ NextRecord(p, s) = (p + Align(s + 4 + 3)) % RxSize
         /\ NextRecord(p, s) \in Offsets
<1>1. /\ RxSize \in Nat /\ RxSize >= 4 /\ RxSize % 4 = 0 /\ s \in Nat /\ s + 8 < RxSize
      /\ p \in Nat /\ p < RxSize /\ p % 4 = 0
  BY NicConstants DEF Offsets
<1> DEFINE a == Align(s + 4 + 3)
<1>2. a \in Nat /\ a % 4 = 0 /\ a <= s + 7
  BY <1>1 DEF Align
<1>3. Align(p + s + 4 + 3) = p + a
  BY <1>1 DEF Align
<1> HIDE DEF a
<1>4. (p + a) % RxSize \in Offsets
  <2>1. CASE p + a < RxSize
    <3>1. (p + a) % RxSize = p + a
      BY <1>1, <1>2, <2>1
    <3> QED
      BY <1>1, <1>2, <2>1, <3>1 DEF Offsets
  <2>2. CASE p + a >= RxSize
    <3>1. (p + a) % RxSize = p + a - RxSize
      BY <1>1, <1>2, <2>2
    <3> QED
      BY <1>1, <1>2, <2>2, <3>1 DEF Offsets
  <2> QED
    BY <1>1, <1>2, <2>1, <2>2
<1> QED
  BY <1>3, <1>4 DEF NextRecord, a

LEMMA RingKept ==
  ASSUME NicIndInv, UNCHANGED <<rx_offset, ring>>
  PROVE  RxInStep' /\ Chain'
<1>1. UNCHANGED <<rx_offset, queue, cbr, capr>>
  BY DEF ring
<1> QED
  BY <1>1 DEF NicIndInv, RxInStep, Chain

\* A frame arrives behind the last.
LEMMA RingArrive ==
  ASSUME NicIndInv, Arrive
  PROVE  /\ RxInStep' /\ Chain'
         /\ queue' \in Seq(Frame) /\ cbr' \in Offsets /\ status' = status \cup {"rx"}
         /\ UNCHANGED <<bus, driver, thread, handler, sending, capr, lost, raced>>
<1>1. PICK answer \in BOOLEAN, s \in Sizes :
         /\ queue' = Append(queue, [answer |-> answer, size |-> s, at |-> cbr])
         /\ cbr' = (cbr + Align(s + 4 + 3)) % RxSize
         /\ status' = status \cup {"rx"}
         /\ UNCHANGED <<bus, driver, thread, handler, sending, capr, lost, raced>>
  BY DEF Arrive
<1> DEFINE f == [answer |-> answer, size |-> s, at |-> cbr]
<1>2. queue \in Seq(Frame) /\ cbr \in Offsets /\ f \in Frame /\ f.at = cbr /\ f.size = s
  BY DEF NicIndInv, TypeOK, Frame
<1>3. cbr' = NextRecord(f.at, f.size) /\ cbr' \in Offsets
  BY <1>1, <1>2, RecordEnd
<1>4. rx_offset' = rx_offset /\ capr' = capr
  BY <1>1 DEF driver
<1> HIDE DEF f
<1>5. /\ queue' \in Seq(Frame) /\ Len(queue') = Len(queue) + 1 /\ Len(queue) \in Nat
      /\ \A k \in 1 .. Len(queue) : queue'[k] = queue[k]
      /\ queue'[Len(queue) + 1] = f
  BY <1>1, <1>2 DEF f
<1>6. queue' # <<>> /\ Head(queue') = queue'[1]
  BY <1>5
<1>7. RxInStep'
  <2>1. CASE queue = <<>>
    <3>1. Len(queue) = 0 /\ queue'[1] = f
      BY <1>5, <2>1
    <3> QED
      BY <1>2, <1>4, <1>6, <2>1, <3>1 DEF NicIndInv, RxInStep
  <2>2. CASE queue # <<>>
    <3>1. Len(queue) >= 1 /\ Head(queue) = queue[1] /\ queue'[1] = queue[1]
      BY <1>2, <1>5, <2>2
    <3> QED
      BY <1>4, <1>6, <2>2, <3>1 DEF NicIndInv, RxInStep
  <2> QED
    BY <2>1, <2>2
<1>8. Chain'
  <2>1. ASSUME NEW k \in 1 .. (Len(queue') - 1)
        PROVE  queue'[k + 1].at = NextRecord(queue'[k].at, queue'[k].size)
    <3>1. k \in 1 .. Len(queue) /\ queue'[k] = queue[k]
      BY <1>5
    <3>2. CASE k = Len(queue)
      <4>1. queue # <<>> /\ queue'[k + 1] = f
        BY <1>5, <3>1, <3>2
      <4> QED
        BY <1>2, <3>1, <3>2, <4>1 DEF NicIndInv, Chain
    <3>3. CASE k # Len(queue)
      <4>1. k \in 1 .. (Len(queue) - 1) /\ k + 1 \in 1 .. Len(queue)
        BY <1>5, <3>1, <3>3
      <4> QED
        BY <1>5, <3>1, <4>1 DEF NicIndInv, Chain
    <3> QED
      BY <3>2, <3>3
  <2> QED
    BY <1>3, <1>5, <2>1 DEF Chain
<1> QED
  BY <1>1, <1>3, <1>5, <1>7, <1>8

\* The driver takes the oldest frame out and goes on where the next record begins.
LEMMA RingTake ==
  ASSUME NicIndInv, queue # <<>>, cbr' = cbr, queue' = Tail(queue),
         rx_offset' = NextRecord(rx_offset, Head(queue).size),
         capr' = NextRecord(rx_offset, Head(queue).size)
  PROVE  /\ RxInStep' /\ Chain'
         /\ queue' \in Seq(Frame) /\ rx_offset' \in Offsets /\ capr' \in Offsets
<1>1. /\ queue \in Seq(Frame) /\ Len(queue) \in Nat /\ Len(queue) >= 1
      /\ Head(queue) = queue[1] /\ queue[1] \in Frame
      /\ queue' \in Seq(Frame) /\ Len(queue') = Len(queue) - 1
      /\ \A k \in 1 .. (Len(queue) - 1) : queue'[k] = queue[k + 1]
  BY DEF NicIndInv, TypeOK
<1>2. queue[1].at = rx_offset /\ queue[1].size \in Sizes /\ rx_offset \in Offsets
  BY <1>1 DEF NicIndInv, TypeOK, RxInStep, Frame
<1>3. rx_offset' \in Offsets /\ capr' \in Offsets /\ capr' = rx_offset'
  BY <1>1, <1>2, RecordEnd
<1>4. RxInStep'
  <2>1. CASE queue' = <<>>
    <3>1. Len(queue) = 1
      BY <1>1, <2>1
    <3> QED
      BY <1>1, <1>2, <1>3, <2>1, <3>1 DEF NicIndInv, RxInStep, Chain
  <2>2. CASE queue' # <<>>
    <3>1. Len(queue) >= 2 /\ Head(queue') = queue'[1] /\ queue'[1] = queue[2]
      BY <1>1, <2>2
    <3>2. queue[2].at = NextRecord(queue[1].at, queue[1].size)
      BY <1>1, <3>1 DEF NicIndInv, Chain
    <3> QED
      BY <1>1, <1>2, <1>3, <2>2, <3>1, <3>2 DEF RxInStep
  <2> QED
    BY <2>1, <2>2
<1>5. Chain'
  <2>1. ASSUME NEW k \in 1 .. (Len(queue') - 1)
        PROVE  queue'[k + 1].at = NextRecord(queue'[k].at, queue'[k].size)
    <3>1. k + 1 \in 1 .. (Len(queue) - 1) /\ k \in 1 .. (Len(queue) - 1)
      BY <1>1
    <3>2. queue'[k] = queue[k + 1] /\ queue'[k + 1] = queue[(k + 1) + 1]
      BY <1>1, <3>1
    <3> QED
      BY <3>1, <3>2 DEF NicIndInv, Chain
  <2>2. ASSUME queue' # <<>>
        PROVE  cbr' = NextRecord(queue'[Len(queue')].at, queue'[Len(queue')].size)
    <3>1. Len(queue) - 1 \in 1 .. (Len(queue) - 1)
      BY <1>1, <2>2
    <3>2. queue'[Len(queue) - 1] = queue[(Len(queue) - 1) + 1]
      BY <1>1, <3>1
    <3>3. (Len(queue) - 1) + 1 = Len(queue)
      BY <1>1
    <3> QED
      BY <1>1, <3>2, <3>3 DEF NicIndInv, Chain
  <2> QED
    BY <2>1, <2>2 DEF Chain
<1> QED
  BY <1>1, <1>3, <1>4, <1>5

\* What the driver copies, where the card wrote
LEMMA CopyIsFaithful ==
  ASSUME NicIndInv
  PROVE  WholeFramesAreRead
<1> SUFFICES ASSUME queue # <<>>
             PROVE  /\ Head(queue).at + 4 + Head(queue).size - Crc <= RxSize
                         => Faithful(Head(queue)) \/ RunsAway(rx_offset, Head(queue).size)
                    /\ RunsAway(rx_offset, Head(queue).size)
                         => /\ Head(queue).at + 4 + Head(queue).size - Crc < RxSize
                            /\ Head(queue).at + 4 + Head(queue).size - Crc + Crc > RxSize
  BY DEF WholeFramesAreRead
<1>1. PICK f \in Frame : f = Head(queue) /\ f.at = rx_offset
  BY DEF NicIndInv, TypeOK, RxInStep
<1>2. /\ f.at \in Nat /\ f.size \in Nat /\ Crc \in Nat /\ RxSize \in Nat /\ Crc < f.size
      /\ f.at < RxSize
  BY NicConstants DEF Frame, Offsets
<1>3. ASSUME f.at + 4 + f.size - Crc <= RxSize
      PROVE  Faithful(f)
  <2> SUFFICES ASSUME NEW k \in 0 .. (f.size - Crc - 1)
               PROVE  TakenFrom(rx_offset, f.size, k) = f.at + 4 + k
    BY DEF Faithful
  <2>1. k < FirstPart(rx_offset)
    BY <1>1, <1>2, <1>3 DEF FirstPart
  <2>2. FirstPart(rx_offset) \in Int
    BY <1>1, <1>2 DEF FirstPart
  <2> QED
    BY <1>1, <1>2, <2>1, <2>2 DEF TakenFrom
<1>4. RunsAway(rx_offset, f.size) => f.at + 4 + f.size - Crc < RxSize /\ f.at + 4 + f.size > RxSize
  BY <1>1, <1>2 DEF RunsAway, Splits, SecondPart, FirstPart
<1> QED
  BY <1>1, <1>2, <1>3, <1>4
-----------------------------------------------------------------------------
(* The transmit descriptors. *)

LEMMA Turns ==
  ASSUME txcur \in Slots
  PROVE  /\ \A d \in Slots : Turn(d) \in 0 .. (Descriptors - 1)
         /\ \A n \in 0 .. Descriptors : After(n) \in Slots
         /\ \A d \in Slots, n \in 0 .. (Descriptors - 1) : Turn(d) = n <=> d = After(n)
         /\ \A n \in 0 .. (Descriptors - 1) : (After(n) + 1) % Descriptors = After(n + 1)
         /\ Turn(txcur) = 0 /\ After(Descriptors) = txcur
<1> DEFINE D == Descriptors
<1>1. D \in Nat /\ D >= 1 /\ txcur \in 0 .. (D - 1) /\ Slots = 0 .. (D - 1)
  BY NicConstants DEF Slots
<1>2. \A n \in 0 .. (D - 1) : (After(n) + 1) % D = After(n + 1)
  <2> SUFFICES ASSUME NEW n \in 0 .. (D - 1)
               PROVE  (After(n) + 1) % D = After(n + 1)
    OBVIOUS
  <2>1. After(n) \in 0 .. (D - 1)
    BY <1>1 DEF After
  <2>2. (After(n) + 1) % D = IF After(n) + 1 < D THEN After(n) + 1 ELSE After(n) + 1 - D
    <3> HIDE DEF D
    <3>1. CASE After(n) + 1 < D
      BY <1>1, <2>1, <3>1
    <3>2. CASE After(n) + 1 = D
      BY <1>1, <2>1, <3>2
    <3> QED
      BY <1>1, <2>1, <3>1, <3>2
  <2> QED
    BY <1>1, <2>1, <2>2 DEF After
<1> QED
  BY <1>1, <1>2 DEF Turn, After

LEMMA CountIsFinite ==
  ASSUME NEW o
  PROVE  IsFiniteSet({d \in Slots : ~o[d]})
<1>1. IsFiniteSet(Slots)
  BY NicConstants, FS_Interval DEF Slots
<1> QED
  BY <1>1, FS_Subset

\* A descriptor with its frame is handed to the card, behind those that it owns.
LEMMA HandOver ==
  ASSUME TypeOK, Owned, NEW x \in Slots, x = After(Len(due)), own[x], NEW who \in Sender,
         txcur' = txcur, own' = [own EXCEPT ![x] = FALSE], due' = Append(due, who),
         tx_buffers'[x] = <<who, who>>, \A d \in Slots \ {x} : tx_buffers'[d] = tx_buffers[d]
  PROVE  /\ Owned' /\ due' \in Seq(Sender) /\ own' \in [Slots -> BOOLEAN]
         /\ (x + 1) % Descriptors = After(Len(due))'
<1> DEFINE n == Len(due)
<1>1. /\ due \in Seq(Sender) /\ n \in 0 .. Descriptors /\ txcur \in Slots
      /\ own \in [Slots -> BOOLEAN] /\ Descriptors \in Nat /\ Descriptors >= 1
  BY NicConstants DEF TypeOK, Owned
<1>2. /\ \A d \in Slots : Turn(d) \in 0 .. (Descriptors - 1)
      /\ \A d \in Slots, m \in 0 .. (Descriptors - 1) : Turn(d) = m <=> d = After(m)
      /\ \A m \in 0 .. (Descriptors - 1) : (After(m) + 1) % Descriptors = After(m + 1)
  BY <1>1, Turns
<1>3. n \in 0 .. (Descriptors - 1) /\ Turn(x) = n
  <2>1. Turn(x) >= n
    BY DEF Owned
  <2>2. n \in 0 .. (Descriptors - 1)
    BY <1>1, <1>2, <2>1
  <2> QED
    BY <1>2, <2>2
<1>4. /\ due' \in Seq(Sender) /\ Len(due') = n + 1
      /\ \A k \in 1 .. n : due'[k] = due[k]
      /\ due'[n + 1] = who
  BY <1>1
<1>5. /\ own' \in [Slots -> BOOLEAN] /\ ~own'[x] /\ \A d \in Slots \ {x} : own'[d] = own[d]
  BY <1>1
<1>6. \A d : Turn(d)' = Turn(d)
  BY DEF Turn
<1>7. \A m : After(m)' = After(m)
  BY DEF After
<1>8. (x + 1) % Descriptors = After(Len(due))'
  <2>1. After(Len(due))' = After(n + 1)
    BY <1>4 DEF After
  <2> QED
    BY <1>2, <1>3, <2>1
<1> HIDE DEF n
<1>9. \A d \in Slots \ {x} : Turn(d) # n
  BY <1>2, <1>3
<1>10. \A d \in Slots : own'[d] <=> Turn(d) >= n + 1
  <2> SUFFICES ASSUME NEW d \in Slots
               PROVE  own'[d] <=> Turn(d) >= n + 1
    OBVIOUS
  <2>1. CASE d = x
    BY <1>3, <1>5, <2>1
  <2>2. CASE d # x
    <3>1. Turn(d) \in Nat /\ n \in Nat /\ Turn(d) # n
      BY <1>2, <1>3, <1>9, <2>2
    <3>2. Turn(d) >= n + 1 <=> Turn(d) >= n
      BY <3>1
    <3>3. own[d] <=> Turn(d) >= n
      BY DEF Owned, n
    <3> QED
      BY <1>5, <2>2, <3>2, <3>3
  <2> QED
    BY <2>1, <2>2
<1>11. \A d \in Slots : Turn(d) < n + 1 => tx_buffers'[d] = <<due'[Turn(d) + 1], due'[Turn(d) + 1]>>
  <2> SUFFICES ASSUME NEW d \in Slots, Turn(d) < n + 1
               PROVE  tx_buffers'[d] = <<due'[Turn(d) + 1], due'[Turn(d) + 1]>>
    OBVIOUS
  <2>1. CASE d = x
    BY <1>3, <1>4, <2>1
  <2>2. CASE d # x
    <3>1. Turn(d) + 1 \in 1 .. n /\ Turn(d) < n
      BY <1>2, <1>3, <1>9, <2>2
    <3>2. tx_buffers[d] = <<due[Turn(d) + 1], due[Turn(d) + 1]>>
      BY <3>1 DEF Owned, n
    <3> QED
      BY <1>4, <2>2, <3>1, <3>2
  <2> QED
    BY <2>1, <2>2
<1>12. n + 1 = Cardinality({d \in Slots : ~own'[d]})
  <2> DEFINE A == {d \in Slots : ~own[d]}
  <2>1. {d \in Slots : ~own'[d]} = A \cup {x} /\ x \notin A
    BY <1>5
  <2>2. IsFiniteSet(A) /\ n = Cardinality(A)
    BY CountIsFinite DEF Owned, n
  <2> HIDE DEF A
  <2>3. Cardinality(A \cup {x}) = n + 1
    BY <2>1, <2>2, FS_AddElement
  <2> QED
    BY <2>1, <2>3
<1>13. Len(due') <= Descriptors
  BY <1>1, <1>3, <1>4
<1>14. Owned'
  BY <1>4, <1>6, <1>10, <1>11, <1>12, <1>13 DEF Owned
<1> QED
  BY <1>4, <1>5, <1>8, <1>14

\* The card sends the descriptor whose turn it is: it holds the frame that is due.
LEMMA SendOldest ==
  ASSUME TypeOK, Owned, ~own[txcur],
         own' = [own EXCEPT ![txcur] = TRUE], txcur' = (txcur + 1) % Descriptors,
         due' = Tail(due), tx_buffers' = tx_buffers
  PROVE  /\ Owned' /\ due' \in Seq(Sender) /\ own' \in [Slots -> BOOLEAN] /\ txcur' \in Slots
         /\ tx_buffers[txcur] = <<Head(due), Head(due)>>
         /\ After(Len(due))' = After(Len(due))
<1> DEFINE n == Len(due)
           D == Descriptors
<1>1. /\ due \in Seq(Sender) /\ n \in 0 .. D /\ txcur \in Slots /\ Slots = 0 .. (D - 1)
      /\ own \in [Slots -> BOOLEAN] /\ D \in Nat /\ D >= 1
  BY NicConstants DEF TypeOK, Owned, Slots
<1>2. /\ \A d \in Slots : Turn(d) \in 0 .. (D - 1)
      /\ \A d \in Slots, m \in 0 .. (D - 1) : Turn(d) = m <=> d = After(m)
      /\ Turn(txcur) = 0
  BY <1>1, Turns
<1>3. n >= 1
  BY <1>1, <1>2 DEF Owned
<1>4. /\ due' \in Seq(Sender) /\ Len(due') = n - 1 /\ Head(due) = due[1]
      /\ \A k \in 1 .. (n - 1) : due'[k] = due[k + 1]
  BY <1>1, <1>3
<1>5. tx_buffers[txcur] = <<Head(due), Head(due)>>
  <2>1. Turn(txcur) < n /\ Turn(txcur) + 1 = 1
    BY <1>2, <1>3
  <2> QED
    BY <1>1, <1>4, <2>1 DEF Owned
<1>6. /\ own' \in [Slots -> BOOLEAN] /\ own'[txcur]
      /\ \A d \in Slots \ {txcur} : own'[d] = own[d]
  BY <1>1
<1>7. txcur \in Nat /\ txcur < D /\ txcur' = IF txcur + 1 < D THEN txcur + 1 ELSE 0
  <2>1. txcur \in Nat /\ txcur < D /\ D \in Nat
    BY <1>1
  <2>2. CASE txcur + 1 < D
    BY <2>1, <2>2
  <2>3. CASE txcur + 1 = D
    BY <2>1, <2>3
  <2> QED
    BY <2>1, <2>2, <2>3
<1>8. txcur' \in Slots
  BY <1>1, <1>7
<1>8a. \A d \in Slots : Turn(d)' = IF d = txcur THEN D - 1 ELSE Turn(d) - 1
  <2> SUFFICES ASSUME NEW d \in 0 .. (D - 1)
               PROVE  Turn(d)' = IF d = txcur THEN D - 1 ELSE Turn(d) - 1
    BY <1>1
  <2> HIDE DEF D
  <2>1. CASE txcur + 1 < D
    <3>1. txcur' = txcur + 1
      BY <1>7, <2>1
    <3> QED
      BY <1>1, <1>7, <3>1, SMTT(30) DEF Turn, D
  <2>2. CASE txcur + 1 = D
    <3>1. txcur' = 0
      BY <1>1, <1>7, <2>2
    <3> QED
      BY <1>1, <1>7, <2>2, <3>1 DEF Turn, D
  <2> QED
    BY <1>1, <1>7, <2>1, <2>2
<1>8b. \A d \in Slots \ {txcur} : Turn(d) >= 1
  BY <1>1 DEF Turn
<1>9. After(Len(due))' = After(Len(due))
  <2>1. CASE txcur + 1 < D
    <3>1. txcur' = txcur + 1
      BY <1>7, <2>1
    <3> QED
      BY <1>1, <1>3, <1>4, <1>7, <3>1 DEF After
  <2>2. CASE txcur + 1 = D
    <3>1. txcur' = 0
      BY <1>1, <1>7, <2>2
    <3> QED
      BY <1>1, <1>3, <1>4, <1>7, <2>2, <3>1 DEF After
  <2> QED
    BY <1>1, <1>7, <2>1, <2>2
<1>10. \A d \in Slots : own'[d] <=> Turn(d)' >= n - 1
  <2> SUFFICES ASSUME NEW d \in Slots
               PROVE  own'[d] <=> Turn(d)' >= n - 1
    OBVIOUS
  <2>1. CASE d = txcur
    BY <1>1, <1>6, <1>8a, <2>1
  <2>2. CASE d # txcur
    <3>1. own[d] <=> Turn(d) >= n
      BY DEF Owned
    <3>2. Turn(d)' = Turn(d) - 1 /\ Turn(d) \in Nat
      BY <1>2, <1>8a, <2>2
    <3>3. Turn(d)' >= n - 1 <=> Turn(d) >= n
      BY <1>1, <3>2
    <3> QED
      BY <1>6, <2>2, <3>1, <3>3
  <2> QED
    BY <2>1, <2>2
<1>11. \A d \in Slots : Turn(d)' < n - 1
         => tx_buffers'[d] = <<due'[Turn(d)' + 1], due'[Turn(d)' + 1]>>
  <2> SUFFICES ASSUME NEW d \in Slots, Turn(d)' < n - 1
               PROVE  tx_buffers[d] = <<due'[Turn(d)' + 1], due'[Turn(d)' + 1]>>
    OBVIOUS
  <2>1. d # txcur
    BY <1>1, <1>8a
  <2>2. Turn(d)' = Turn(d) - 1 /\ Turn(d) \in Nat /\ Turn(d) >= 1
    BY <1>1, <1>2, <1>8a, <1>8b, <2>1
  <2>2a. Turn(d) \in 1 .. (n - 1) /\ Turn(d)' + 1 = Turn(d)
    BY <1>1, <2>2
  <2>3. due'[Turn(d)] = due[Turn(d) + 1]
    BY <1>4, <2>2a
  <2>4. tx_buffers[d] = <<due[Turn(d) + 1], due[Turn(d) + 1]>>
    BY <1>1, <2>2a, SMTT(30) DEF Owned
  <2> QED
    BY <2>2a, <2>3, <2>4
<1>12. n - 1 = Cardinality({d \in Slots : ~own'[d]})
  <2> DEFINE A == {d \in Slots : ~own[d]}
  <2>1. {d \in Slots : ~own'[d]} = A \ {txcur} /\ txcur \in A
    BY <1>1, <1>6
  <2>2. IsFiniteSet(A) /\ n = Cardinality(A)
    BY CountIsFinite DEF Owned
  <2> HIDE DEF A
  <2>3. Cardinality(A \ {txcur}) = n - 1
    BY <2>1, <2>2, FS_RemoveElement
  <2> QED
    BY <2>1, <2>3
<1>13. Len(due') <= Descriptors
  BY <1>1, <1>4
<1>14. Owned'
  BY <1>4, <1>10, <1>11, <1>12, <1>13 DEF Owned
<1> QED
  BY <1>4, <1>5, <1>6, <1>8, <1>9, <1>14

\* A step that leaves the descriptors alone
LEMMA SendingKept ==
  ASSUME NicIndInv, UNCHANGED <<tx_buffers, tx_index, own, txcur, due, whole, raced>>,
         ~raced => InHand', pc' = "advance" <=> pc = "advance"
  PROVE  Sent'
<1> SUFFICES ASSUME ~raced
             PROVE  whole' /\ InTurn' /\ InHand'
  BY DEF Sent
<1>1. whole /\ InTurn
  BY DEF NicIndInv, Sent
<1>2. \A d : Turn(d)' = Turn(d)
  BY DEF Turn
<1>3. After(Len(due))' = After(Len(due))
  BY DEF After
<1>4. Owned'
  BY <1>1, <1>2 DEF InTurn, Owned
<1>5. InTurn'
  BY <1>1, <1>3, <1>4 DEF InTurn
<1> QED
  BY <1>1, <1>5

\* The same for a step of the interrupt or of the card, with the thread where it was
LEMMA HandKept ==
  ASSUME NicIndInv, UNCHANGED <<tx_buffers, tx_index, own, txcur, due, whole, raced, pc, i>>
  PROVE  Sent'
<1>1. ~raced => InHand'
  BY DEF NicIndInv, Sent, InHand
<1> QED
  BY <1>1, SendingKept

LEMMA UsableIsBoolean ==
  ASSUME TypeOK
  PROVE  Usable(bus, MaxDevices) \in BOOLEAN
BY DEF Usable

LEMMA NicInitInv ==
  ASSUME Init
  PROVE  NicIndInv
<1>1. 0 \in Slots /\ 0 \in Offsets
  BY NicConstants DEF Slots, Offsets
<1>2. TypeOK
  BY <1>1 DEF Init, TypeOK
<1>3. RxInStep /\ Chain /\ Booted
  BY DEF Init, RxInStep, Chain, Booted
<1>4. Sent
  <2>1. Len(due) = 0 /\ {d \in Slots : ~own[d]} = {} /\ txcur = 0 /\ tx_index = 0
    BY DEF Init
  <2>2. \A d \in Slots : Turn(d) \in Nat
    BY <2>1, <1>1, Turns, NicConstants
  <2>3. Owned
    <3>1. \A d \in Slots : own[d] = TRUE
      BY DEF Init
    <3>2. \A d \in Slots : Turn(d) >= Len(due) /\ ~(Turn(d) < Len(due))
      BY <2>1, <2>2
    <3>3. Len(due) <= Descriptors /\ Len(due) = Cardinality({d \in Slots : ~own[d]})
      BY <2>1, FS_EmptySet, NicConstants
    <3> QED
      BY <3>1, <3>2, <3>3 DEF Owned
  <2>4. After(Len(due)) = 0
    BY <2>1, NicConstants DEF After
  <2> QED
    BY <2>1, <2>3, <2>4 DEF Init, Sent, InTurn, InHand
<1> QED
  BY <1>2, <1>3, <1>4 DEF NicIndInv

LEMMA InitStep ==
  ASSUME NicIndInv, rtl8139_init
  PROVE  NicIndInv'
<1>1. /\ pc = "boot" /\ pc' = "idle" /\ tx_index' = 0 /\ rx_offset' = 0
      /\ present' = Usable(bus, MaxDevices) /\ io' = Usable(bus, MaxDevices)
      /\ up' = Usable(bus, MaxDevices)
      /\ UNCHANGED <<bus, tx_buffers, i, isr, seen, status, own, txcur, due, whole, queue, cbr,
                     capr, lost, raced>>
  BY DEF rtl8139_init, handler, sending, ring
<1>2. tx_index' = tx_index /\ rx_offset' = rx_offset
  BY <1>1 DEF NicIndInv, Booted
<1>3. TypeOK'
  BY <1>1, <1>2, UsableIsBoolean DEF NicIndInv, TypeOK
<1>4. RxInStep' /\ Chain'
  BY <1>1, <1>2, RingKept DEF ring
<1>5. Sent'
  <2>1. ~raced => InHand'
    BY <1>1 DEF InHand
  <2> QED
    BY <1>1, <1>2, <2>1, SendingKept
<1>6. Booted'
  BY <1>1 DEF Booted
<1> QED
  BY <1>3, <1>4, <1>5, <1>6 DEF NicIndInv

LEMMA SendBeginStep ==
  ASSUME NicIndInv, SendBegin \/ SendWait
  PROVE  NicIndInv'
<1>1. /\ \/ pc = "idle" /\ i' = tx_index /\ pc' = "wait"
         \/ pc = "wait" /\ own[i] /\ i' = i /\ pc' = "copy_head"
      /\ UNCHANGED <<bus, present, io, up, tx_index, rx_offset, tx_buffers, isr, seen, status,
                     own, txcur, due, whole, queue, cbr, capr, lost, raced>>
  BY DEF SendBegin, SendWait, driver, handler, sending, ring
<1>2. TypeOK'
  BY <1>1 DEF NicIndInv, TypeOK
<1>3. RxInStep' /\ Chain'
  BY <1>1, RingKept DEF ring
<1>4. Sent'
  <2>1. ~raced => InHand'
    BY <1>1 DEF NicIndInv, Sent, InHand
  <2> QED
    BY <1>1, <2>1, SendingKept
<1>5. Booted'
  BY <1>1 DEF NicIndInv, Booted
<1> QED
  BY <1>2, <1>3, <1>4, <1>5 DEF NicIndInv

LEMMA HalfOfPair ==
  ASSUME NEW A, NEW t \in A \X A, NEW v
  PROVE  [t EXCEPT ![1] = v] = <<v, t[2]>> /\ [t EXCEPT ![2] = v] = <<t[1], v>>
OBVIOUS

LEMMA SendCopyStep ==
  ASSUME NicIndInv, SendCopy
  PROVE  NicIndInv'
<1>1. /\ \/ /\ pc = "copy_head" /\ pc' = "copy_tail"
            /\ tx_buffers' = [tx_buffers EXCEPT ![i] = [@ EXCEPT ![1] = "thread"]]
         \/ /\ pc = "copy_tail" /\ pc' = "start"
            /\ tx_buffers' = [tx_buffers EXCEPT ![i] = [@ EXCEPT ![2] = "thread"]]
      /\ UNCHANGED <<bus, present, io, up, tx_index, rx_offset, i, isr, seen, status,
                     own, txcur, due, whole, queue, cbr, capr, lost, raced>>
  BY DEF SendCopy, CopyHalf, handler, sending, ring
<1> DEFINE A == Sender \cup {"none"}
           t == tx_buffers[i]
<1>2. /\ i \in Slots /\ tx_buffers \in [Slots -> A \X A] /\ t \in A \X A
      /\ t[1] \in A /\ t[2] \in A /\ "thread" \in A
  BY DEF NicIndInv, TypeOK, Sender
<1>3. /\ pc = "copy_head" => tx_buffers'[i] = <<"thread", t[2]>>
      /\ pc = "copy_tail" => tx_buffers'[i] = <<t[1], "thread">>
      /\ \A d \in Slots \ {i} : tx_buffers'[d] = tx_buffers[d]
  BY <1>1, <1>2, HalfOfPair
<1>4. tx_buffers' \in [Slots -> A \X A]
  <2>1. tx_buffers'[i] \in A \X A
    BY <1>1, <1>2, <1>3
  <2>2. PICK x : tx_buffers' = [tx_buffers EXCEPT ![i] = x]
    BY <1>1
  <2> QED
    BY <1>2, <2>1, <2>2
<1>5. TypeOK'
  BY <1>1, <1>4 DEF NicIndInv, TypeOK
<1>6. RxInStep' /\ Chain'
  BY <1>1, RingKept DEF ring
<1>7. Sent'
  <2> SUFFICES ASSUME ~raced
               PROVE  whole' /\ InTurn' /\ InHand'
    BY <1>1 DEF Sent
  <2>1. whole /\ InTurn /\ InHand
    BY DEF NicIndInv, Sent
  <2>2. own[i] /\ i = tx_index
    BY <1>1, <2>1 DEF InHand
  <2>3. \A d : Turn(d)' = Turn(d)
    BY <1>1 DEF Turn
  <2>4. After(Len(due))' = After(Len(due))
    BY <1>1 DEF After
  <2>5. \A d \in Slots : Turn(d) < Len(due) => tx_buffers'[d] = tx_buffers[d]
    <3> SUFFICES ASSUME NEW d \in Slots, Turn(d) < Len(due), d = i
                 PROVE  FALSE
      BY <1>3
    <3>1. Turn(d) >= Len(due)
      BY <2>1, <2>2 DEF InTurn, Owned
    <3>2. Turn(d) \in Int /\ Len(due) \in Int
      BY Turns, NicConstants DEF NicIndInv, TypeOK
    <3> QED
      BY <3>1, <3>2
  <2>6. Owned'
    BY <1>1, <2>1, <2>3, <2>5 DEF InTurn, Owned
  <2>7. InTurn'
    BY <1>1, <2>1, <2>4, <2>6 DEF InTurn
  <2>8. InHand'
    BY <1>1, <1>2, <1>3, <2>1, <2>2 DEF InHand
  <2> QED
    BY <1>1, <2>1, <2>7, <2>8
<1>8. Booted'
  BY <1>1 DEF NicIndInv, Booted
<1> QED
  BY <1>5, <1>6, <1>7, <1>8 DEF NicIndInv

LEMMA SendStartStep ==
  ASSUME NicIndInv, SendStart
  PROVE  NicIndInv'
<1>1. /\ pc = "start" /\ pc' = "advance" /\ own' = [own EXCEPT ![i] = FALSE]
      /\ due' = (IF raced THEN <<>> ELSE Append(due, "thread"))
      /\ UNCHANGED <<bus, present, io, up, tx_index, rx_offset, tx_buffers, i, isr, seen,
                     status, txcur, whole, queue, cbr, capr, lost, raced>>
  BY DEF SendStart, driver, handler, ring
<1>2. ASSUME ~raced
      PROVE  /\ Owned' /\ due' \in Seq(Sender)
             /\ (i + 1) % Descriptors = After(Len(due))' /\ i = tx_index
  <2>1. whole /\ InTurn /\ InHand /\ TypeOK
    BY <1>2 DEF NicIndInv, Sent
  <2>2. /\ i \in Slots /\ own[i] /\ i = tx_index /\ tx_buffers[i] = <<"thread", "thread">>
        /\ i = After(Len(due)) /\ Owned
    BY <1>1, <2>1 DEF InHand, InTurn, TypeOK
  <2>3. due' = Append(due, "thread") /\ "thread" \in Sender
    BY <1>1, <1>2 DEF Sender
  <2>4. /\ tx_buffers'[i] = <<"thread", "thread">> /\ txcur' = txcur
        /\ \A d \in Slots \ {i} : tx_buffers'[d] = tx_buffers[d]
    BY <1>1, <2>2
  <2>5. PICK x \in Slots : x = i
    BY <2>2
  <2>6. /\ Owned' /\ due' \in Seq(Sender) /\ (x + 1) % Descriptors = After(Len(due))'
    BY <1>1, <2>1, <2>2, <2>3, <2>4, <2>5, HandOver
  <2> QED
    BY <2>2, <2>5, <2>6
<1>3. TypeOK'
  <2>1. due' \in Seq(Sender)
    BY <1>1, <1>2
  <2>2. own' \in [Slots -> BOOLEAN]
    BY <1>1 DEF NicIndInv, TypeOK
  <2> QED
    BY <1>1, <2>1, <2>2 DEF NicIndInv, TypeOK
<1>4. RxInStep' /\ Chain'
  BY <1>1, RingKept DEF ring
<1>5. Sent'
  <2> SUFFICES ASSUME ~raced
               PROVE  whole' /\ InTurn' /\ InHand'
    BY <1>1 DEF Sent
  <2>1. whole
    BY DEF NicIndInv, Sent
  <2>2. InTurn'
    BY <1>1, <1>2 DEF InTurn
  <2>3. InHand'
    BY <1>1, <1>2 DEF InHand
  <2> QED
    BY <1>1, <2>1, <2>2, <2>3
<1>6. Booted'
  BY <1>1 DEF NicIndInv, Booted
<1> QED
  BY <1>3, <1>4, <1>5, <1>6 DEF NicIndInv

LEMMA SendAdvanceStep ==
  ASSUME NicIndInv, SendAdvance
  PROVE  NicIndInv'
<1>1. /\ pc = "advance" /\ pc' = "idle" /\ tx_index' = (i + 1) % Descriptors
      /\ UNCHANGED <<bus, present, io, up, rx_offset, tx_buffers, i, isr, seen, status, own,
                     txcur, due, whole, queue, cbr, capr, lost, raced>>
  BY DEF SendAdvance, handler, sending, ring
<1>2. TypeOK'
  <2>1. tx_index' \in Slots
    BY <1>1, NicConstants DEF NicIndInv, TypeOK, Slots
  <2> QED
    BY <1>1, <2>1 DEF NicIndInv, TypeOK
<1>3. RxInStep' /\ Chain'
  BY <1>1, RingKept DEF ring
<1>4. Sent'
  <2> SUFFICES ASSUME ~raced
               PROVE  whole' /\ InTurn' /\ InHand'
    BY <1>1 DEF Sent
  <2>1. whole /\ InTurn /\ i = tx_index
    BY <1>1 DEF NicIndInv, Sent, InHand
  <2>2. \A d : Turn(d)' = Turn(d)
    BY <1>1 DEF Turn
  <2>3. After(Len(due))' = After(Len(due))
    BY <1>1 DEF After
  <2>4. Owned'
    BY <1>1, <2>1, <2>2 DEF InTurn, Owned
  <2>5. InTurn'
    BY <1>1, <2>1, <2>3, <2>4 DEF InTurn
  <2>6. InHand'
    BY <1>1 DEF InHand
  <2> QED
    BY <1>1, <2>1, <2>5, <2>6
<1>5. Booted'
  BY <1>1 DEF NicIndInv, Booted
<1> QED
  BY <1>2, <1>3, <1>4, <1>5 DEF NicIndInv

LEMMA ProbeStep ==
  ASSUME NicIndInv, netinfo \/ ProbeBase \/ ProbePresent
  PROVE  NicIndInv'
<1>1. /\ pc \in {"idle", "probe", "probed"} /\ pc' \in {"idle", "probe", "probed"}
      /\ present' \in BOOLEAN /\ io' \in BOOLEAN
      /\ UNCHANGED <<bus, up, tx_index, rx_offset, tx_buffers, i, isr, seen, status, own,
                     txcur, due, whole, queue, cbr, capr, lost, raced>>
  BY UsableIsBoolean DEF netinfo, ProbeBase, ProbePresent, handler, sending, ring, NicIndInv, TypeOK
<1>2. Booted'
  BY <1>1 DEF NicIndInv, Booted, netinfo, ProbeBase, ProbePresent
<1>3. TypeOK'
  BY <1>1 DEF NicIndInv, TypeOK
<1>4. RxInStep' /\ Chain'
  BY <1>1, RingKept DEF ring
<1>5. Sent'
  <2>1. ~raced => InHand'
    BY <1>1 DEF InHand
  <2> QED
    BY <1>1, <2>1, SendingKept
<1> QED
  BY <1>2, <1>3, <1>4, <1>5 DEF NicIndInv

LEMMA IsrQuietStep ==
  ASSUME NicIndInv, IsrRead \/ IsrAck \/ IsrReturn
  PROVE  NicIndInv'
<1>1. /\ isr' \in {"off", "ack", "receive"} /\ seen' \subseteq {"rx", "tx"}
      /\ status' \subseteq {"rx", "tx"}
      /\ pc # "boot"
      /\ UNCHANGED <<bus, driver, thread, sending, ring, lost, raced>>
  BY DEF IsrRead, IsrAck, IsrReturn, NicIndInv, TypeOK, Booted
<1>2. UNCHANGED <<bus, present, io, up, tx_index, rx_offset, tx_buffers, pc, i, own, txcur, due,
                  whole, queue, cbr, capr, lost, raced>>
  BY <1>1 DEF driver, thread, sending, ring
<1>3. TypeOK'
  BY <1>1, <1>2 DEF NicIndInv, TypeOK
<1>4. RxInStep' /\ Chain'
  BY <1>2, RingKept DEF ring
<1>5. Sent'
  BY <1>2, HandKept
<1>6. Booted'
  BY <1>1, <1>2 DEF NicIndInv, Booted
<1> QED
  BY <1>3, <1>4, <1>5, <1>6 DEF NicIndInv

\* A protocol handler answers: if that is in the middle of the thread's sending, the two
\* have raced; otherwise the next descriptor is handed over.
LEMMA AnswerKeeps ==
  ASSUME NicIndInv, Answer \/ NoAnswer, UNCHANGED <<pc, i, txcur, whole>>
  PROVE  /\ Sent' /\ tx_index' \in Slots /\ own' \in [Slots -> BOOLEAN]
         /\ tx_buffers' \in [Slots -> (Sender \cup {"none"}) \X (Sender \cup {"none"})]
         /\ due' \in Seq(Sender) /\ raced' \in BOOLEAN
<1>1. /\ TypeOK /\ tx_index \in Slots /\ own \in [Slots -> BOOLEAN] /\ raced \in BOOLEAN
      /\ tx_buffers \in [Slots -> (Sender \cup {"none"}) \X (Sender \cup {"none"})]
      /\ due \in Seq(Sender)
  BY DEF NicIndInv, TypeOK
<1>2. CASE UNCHANGED <<tx_buffers, own, tx_index, due, raced>>
  BY <1>1, <1>2, HandKept
<1>3. CASE /\ own[tx_index]
           /\ tx_buffers' = [tx_buffers EXCEPT ![tx_index] = <<"handler", "handler">>]
           /\ own' = [own EXCEPT ![tx_index] = FALSE]
           /\ tx_index' = (tx_index + 1) % Descriptors
           /\ raced' = (raced \/ pc \in {"wait", "copy_head", "copy_tail", "start", "advance"})
           /\ due' = IF raced' THEN <<>> ELSE Append(due, "handler")
  <2>1. tx_index' \in Slots
    BY <1>1, <1>3, NicConstants DEF Slots
  <2>2. "handler" \in Sender
    BY DEF Sender
  <2>3. /\ own' \in [Slots -> BOOLEAN] /\ raced' \in BOOLEAN
        /\ tx_buffers' \in [Slots -> (Sender \cup {"none"}) \X (Sender \cup {"none"})]
        /\ tx_buffers'[tx_index] = <<"handler", "handler">>
        /\ \A d \in Slots \ {tx_index} : tx_buffers'[d] = tx_buffers[d]
    BY <1>1, <1>3, <2>2
  <2>4. CASE raced'
    BY <1>3, <2>1, <2>3, <2>4 DEF Sent
  <2>5. CASE ~raced'
    <3>1. ~raced /\ pc \notin {"wait", "copy_head", "copy_tail", "start", "advance"}
      BY <1>3, <2>5
    <3>2. whole /\ Owned /\ tx_index = After(Len(due))
      BY <3>1 DEF NicIndInv, Sent, InTurn
    <3>3. due' = Append(due, "handler") /\ own' = [own EXCEPT ![tx_index] = FALSE]
      BY <1>3, <2>5
    <3>4. PICK x \in Slots : x = tx_index
      BY <1>1
    <3>5. /\ Owned' /\ due' \in Seq(Sender) /\ (x + 1) % Descriptors = After(Len(due))'
      BY <1>1, <1>3, <2>2, <2>3, <3>2, <3>3, <3>4, HandOver
    <3>6. InTurn'
      BY <1>3, <3>1, <3>4, <3>5 DEF InTurn
    <3>7. InHand'
      BY <3>1 DEF InHand
    <3> QED
      BY <2>1, <2>3, <3>2, <3>5, <3>6, <3>7 DEF Sent
  <2> QED
    BY <2>4, <2>5
<1> QED
  BY <1>2, <1>3 DEF Answer, NoAnswer

LEMMA IsrFrameStep ==
  ASSUME NicIndInv, IsrFrame
  PROVE  NicIndInv'
<1>1. /\ isr = "receive" /\ queue # <<>>
      /\ Answer \/ NoAnswer
      /\ \/ lost' = TRUE /\ UNCHANGED <<rx_offset, queue, capr>>
         \/ /\ rx_offset' = NextRecord(rx_offset, Head(queue).size)
            /\ capr' = NextRecord(rx_offset, Head(queue).size)
            /\ queue' = Tail(queue) /\ lost' = lost
      /\ UNCHANGED <<bus, present, io, up, pc, i, isr, seen, status, txcur, whole, cbr>>
  BY DEF IsrFrame, thread, handler
<1>2. /\ Sent' /\ tx_index' \in Slots /\ own' \in [Slots -> BOOLEAN]
      /\ tx_buffers' \in [Slots -> (Sender \cup {"none"}) \X (Sender \cup {"none"})]
      /\ due' \in Seq(Sender) /\ raced' \in BOOLEAN
  BY <1>1, AnswerKeeps
<1>3. /\ RxInStep' /\ Chain' /\ lost' \in BOOLEAN
      /\ queue' \in Seq(Frame) /\ rx_offset' \in Offsets /\ capr' \in Offsets
  <2>1. CASE lost' = TRUE /\ UNCHANGED <<rx_offset, queue, capr>>
    BY <1>1, <2>1, RingKept DEF ring, NicIndInv, TypeOK
  <2>2. CASE /\ rx_offset' = NextRecord(rx_offset, Head(queue).size)
             /\ capr' = NextRecord(rx_offset, Head(queue).size)
             /\ queue' = Tail(queue) /\ lost' = lost
    BY <1>1, <2>2, RingTake DEF NicIndInv, TypeOK
  <2> QED
    BY <1>1, <2>1, <2>2
<1>4. TypeOK'
  BY <1>1, <1>2, <1>3 DEF NicIndInv, TypeOK
<1>5. Booted'
  BY <1>1 DEF NicIndInv, Booted
<1> QED
  BY <1>2, <1>3, <1>4, <1>5 DEF NicIndInv

LEMMA ArriveStep ==
  ASSUME NicIndInv, Arrive
  PROVE  NicIndInv'
<1>1. /\ RxInStep' /\ Chain'
      /\ queue' \in Seq(Frame) /\ cbr' \in Offsets /\ status' = status \cup {"rx"}
      /\ UNCHANGED <<bus, driver, thread, handler, sending, capr, lost, raced>>
  BY RingArrive
<1>2. UNCHANGED <<bus, present, io, up, tx_index, rx_offset, tx_buffers, pc, i, isr, seen, own,
                  txcur, due, whole, capr, lost, raced>>
  BY <1>1 DEF driver, thread, handler, sending
<1>3. TypeOK'
  BY <1>1, <1>2 DEF NicIndInv, TypeOK
<1>4. Sent'
  BY <1>2, HandKept
<1>5. Booted'
  BY <1>2 DEF NicIndInv, Booted
<1> QED
  BY <1>1, <1>3, <1>4, <1>5 DEF NicIndInv

LEMMA TransmitStep ==
  ASSUME NicIndInv, Transmit
  PROVE  NicIndInv'
<1>1. /\ ~own[txcur] /\ own' = [own EXCEPT ![txcur] = TRUE]
      /\ txcur' = (txcur + 1) % Descriptors
      /\ whole' = (whole /\ (raced \/ tx_buffers[txcur] = <<Head(due), Head(due)>>))
      /\ due' = (IF raced THEN <<>> ELSE Tail(due))
      /\ status' = status \cup {"tx"}
      /\ UNCHANGED <<bus, present, io, up, tx_index, rx_offset, tx_buffers, pc, i, isr, seen,
                     queue, cbr, capr, lost, raced>>
  BY DEF Transmit, driver, thread, handler, ring
<1>2. ASSUME ~raced
      PROVE  /\ Owned' /\ due' \in Seq(Sender)
             /\ tx_buffers[txcur] = <<Head(due), Head(due)>>
             /\ After(Len(due))' = After(Len(due))
  <2>1. TypeOK /\ Owned /\ due' = Tail(due)
    BY <1>1, <1>2 DEF NicIndInv, Sent, InTurn
  <2> QED
    BY <1>1, <2>1, SendOldest
<1>3. TypeOK'
  <2>1. txcur' \in Slots
    BY <1>1, NicConstants DEF NicIndInv, TypeOK, Slots
  <2>2. own' \in [Slots -> BOOLEAN] /\ whole' \in BOOLEAN
    BY <1>1 DEF NicIndInv, TypeOK
  <2>3. due' \in Seq(Sender)
    BY <1>1, <1>2
  <2> QED
    BY <1>1, <2>1, <2>2, <2>3 DEF NicIndInv, TypeOK
<1>4. RxInStep' /\ Chain'
  BY <1>1, RingKept DEF ring
<1>5. Sent'
  <2> SUFFICES ASSUME ~raced
               PROVE  whole' /\ InTurn' /\ InHand'
    BY <1>1 DEF Sent
  <2>1. whole /\ InTurn /\ InHand /\ TypeOK
    BY DEF NicIndInv, Sent
  <2>2. InTurn'
    BY <1>1, <1>2, <2>1 DEF InTurn
  <2>3. InHand'
    <3>1. \A d \in Slots : own[d] => own'[d]
      BY <1>1, <2>1 DEF TypeOK
    <3>2. i \in Slots
      BY <2>1 DEF TypeOK
    <3> QED
      BY <1>1, <2>1, <3>1, <3>2 DEF InHand
  <2> QED
    BY <1>1, <1>2, <2>1, <2>2, <2>3
<1>6. Booted'
  BY <1>1 DEF NicIndInv, Booted
<1> QED
  BY <1>3, <1>4, <1>5, <1>6 DEF NicIndInv

\* The conjunction that the properties follow from holds in every state.
THEOREM NicIndInvInvariant == Spec => []NicIndInv
<1>1. Init => NicIndInv
  BY NicInitInv
<1>2. NicIndInv /\ [Next]_vars => NicIndInv'
  <2> SUFFICES ASSUME NicIndInv, [Next]_vars
               PROVE  NicIndInv'
    OBVIOUS
  <2>1. CASE UNCHANGED vars
    <3>1. UNCHANGED <<bus, present, io, up, tx_index, rx_offset, tx_buffers, pc, i, isr, seen,
                      status, own, txcur, due, whole, queue, cbr, capr, lost, raced>>
      BY <2>1 DEF vars, driver, thread, handler, sending, ring
    <3>2. TypeOK' /\ Booted'
      BY <3>1 DEF NicIndInv, TypeOK, Booted
    <3>3. RxInStep' /\ Chain'
      BY <3>1, RingKept DEF ring
    <3>4. Sent'
      BY <3>1, HandKept
    <3> QED
      BY <3>2, <3>3, <3>4 DEF NicIndInv
  <2> QED
    BY <2>1, InitStep, SendBeginStep, SendCopyStep, SendStartStep, SendAdvanceStep, ProbeStep,
       IsrQuietStep, IsrFrameStep, ArriveStep, TransmitStep
       DEF Next, Command, ThreadStep, IsrStep
<1> QED
  BY <1>1, <1>2, PTL DEF Spec

(* For every bus, ring and frame size, and whatever comes in which order: the driver knows *)
(* whether it has a card, and rx_offset, which rtl8139_handle_receive counts on for itself, *)
(* is where the card has put the oldest unread record.                                      *)
THEOREM NicInvariant == Spec => []NicInv
<1>1. NicIndInv => NicInv
  <2> SUFFICES ASSUME NicIndInv
               PROVE  NicInv
    OBVIOUS
  <2>1. CardIsFound
    <3> DEFINE cards == {p \in DOMAIN bus : bus[p].card}
    <3> SUFFICES ASSUME pc \notin {"boot", "probe", "probed"}
                 PROVE  /\ (\E p \in cards : /\ p[2] = 0 /\ bus[p].io
                                             /\ \A q \in cards \ {p} : Precedes(p, q)
                                             /\ Cardinality(DOMAIN bus) <= MaxDevices) => present
                        /\ present => \E p \in cards : bus[p].io
      BY DEF CardIsFound
    <3>1. present = Usable(bus, MaxDevices) /\ IsBus(bus) /\ MaxDevices \in Nat
      BY NicConstants DEF NicIndInv, Booted, TypeOK
    <3>2. ASSUME NEW p \in cards, p[2] = 0, bus[p].io,
                 \A q \in cards \ {p} : Precedes(p, q), Cardinality(DOMAIN bus) <= MaxDevices
          PROVE  Usable(bus, MaxDevices)
      BY <3>1, <3>2, CardIsUsable
    <3>3. Usable(bus, MaxDevices) => \E p \in cards : bus[p].io
      BY <3>1, UsableIsCard
    <3> QED
      BY <3>1, <3>2, <3>3
  <2> QED
    BY <2>1 DEF NicIndInv, NicInv
<1> QED
  BY <1>1, NicIndInvInvariant, PTL

(* For every ring and frame size: a frame whose data the card did not write across the end  *)
(* of the ring is copied byte for byte, or the second memory copy of rtl8139_handle_receive  *)
(* gets a negative length, which takes a checksum across the end.                            *)
THEOREM WholeFramesAreReadInvariant == Spec => []WholeFramesAreRead
<1>1. NicIndInv => WholeFramesAreRead
  BY CopyIsFaithful
<1> QED
  BY <1>1, NicIndInvInvariant, PTL

(* For any number of descriptors: unless the interrupt has sent in the middle of the         *)
(* thread's rtl8139_send_packet, what leaves is what was handed over, once and in order.      *)
THEOREM SentAsHandedInvariant == Spec => []SentAsHanded
<1>1. NicIndInv => SentAsHanded
  BY DEF NicIndInv, Sent, InTurn, Owned, InHand, SentAsHanded
<1> QED
  BY <1>1, NicIndInvInvariant, PTL
=============================================================================
