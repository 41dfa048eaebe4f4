----------------------------- MODULE BoardProofs -----------------------------
(***************************************************************************)
(* Proofs about the small parts of the kernel: the text screen, the event  *)
(* rings, the page frames, the desktop and the clock.                      *)
(***************************************************************************)
EXTENDS Pmm, Clock, Trace, Desktop, Console, SetInduction, FiniteSetTheorems, SequenceTheorems

-----------------------------------------------------------------------------
(* The text screen. *)

\* The rows fit on the screen: the start of the last, and the line end behind any cell.
LEMMA ScreenRows ==
  /\ Rows \in Nat /\ Cols \in Nat /\ Cells \in Nat /\ Cells >= 1
  /\ LastRow \in 0 .. (Cells - 1)
<1>1. Rows \in Nat /\ Rows >= 1 /\ Cols \in Nat /\ Cols >= 1
  BY ConsoleAssumption
<1>2. Cells = (Rows - 1) * Cols + Cols
  BY <1>1 DEF Cells
<1>3. (Rows - 1) * Cols \in Nat
  BY <1>1
<1> QED
  BY <1>1, <1>2, <1>3 DEF LastRow

LEMMA LineEnd ==
  ASSUME NEW c \in Nat
  PROVE  /\ NewLine(c) \in Nat
         /\ c < Cells => NewLine(c) <= Cells
<1>1. Rows \in Nat /\ Rows >= 1 /\ Cols \in Nat /\ Cols >= 1
  BY ConsoleAssumption
<1> DEFINE q == c \div Cols
<1>2. q \in Nat /\ q * Cols <= c
  BY <1>1
<1> HIDE DEF q
<1>3. NewLine(c) = (q + 1) * Cols
  BY DEF NewLine, q
<1>4. (q + 1) * Cols \in Nat
  BY <1>1, <1>2
<1>5. ASSUME c < Rows * Cols
      PROVE  (q + 1) * Cols <= Rows * Cols
  <2>1. q * Cols < Rows * Cols
    BY <1>1, <1>2, <1>5
  <2>2. q < Rows
    BY <1>1, <1>2, <2>1
  <2>3. q + 1 <= Rows
    BY <1>1, <1>2, <2>2
  <2> QED
    BY <1>1, <1>2, <2>3
<1> QED
  BY <1>3, <1>4, <1>5 DEF Cells

\* The cursor that the thread has read is on the screen, also at a line end.
ConsoleIndInv == ConsoleInv /\ at \in 0 .. (Cells - 1)

LEMMA ConsoleInitInv ==
  ASSUME ConsoleInit
  PROVE  ConsoleIndInv
BY ScreenRows DEF ConsoleInit, ConsoleIndInv, ConsoleInv, ConsoleTypeOK, WritesOnScreen

\* What check_scroll makes of the place of the prompt is on the screen.
LEMMA ScrolledPromptOnScreen ==
  ASSUME ConsoleIndInv
  PROVE  ScrolledPrompt \in 0 .. (Cells - 1)
BY ScreenRows DEF ConsoleIndInv, ConsoleInv, ConsoleTypeOK, ScrolledPrompt

\* An interrupt leaves the cursor on a cell, wherever the character took it.
LEMMA IrqStoresOnScreen ==
  ASSUME ConsoleIndInv, NEW c \in Nat, IrqStores(c)
  PROVE  ConsoleIndInv'
<1>1. cursor_offset' \in 0 .. (Cells - 1) /\ prompt_min_offset' \in 0 .. (Cells - 1)
  BY ScreenRows, ScrolledPromptOnScreen
     DEF IrqStores, NeedsScroll, ConsoleIndInv, ConsoleInv, ConsoleTypeOK
<1> QED
  BY <1>1, ScreenRows DEF IrqStores, ConsoleIndInv, ConsoleInv, ConsoleTypeOK, WritesOnScreen

LEMMA ConsoleStep ==
  ASSUME ConsoleIndInv, [ConsoleNext]_consoleVars
  PROVE  ConsoleIndInv'
<1> USE ScreenRows DEF ConsoleIndInv, ConsoleInv, ConsoleTypeOK, WritesOnScreen
<1>1. CASE PrintBegin
  BY <1>1 DEF PrintBegin
<1>2. CASE PrintStore
  <2>1. cursor_offset' \in 0 .. Cells
    BY <1>2, LineEnd DEF PrintStore, NextCell
  <2> QED
    BY <1>2, <2>1 DEF PrintStore, NeedsScroll
<1>3. CASE check_scroll
  BY <1>3, ScrolledPromptOnScreen DEF check_scroll
<1>4. CASE clear_screen \/ PromptPrinted \/ DrawHere \/ DrawAgain
  BY <1>4 DEF clear_screen, PromptPrinted, DrawHere, DrawAgain
<1>5. CASE IrqChar
  <2>1. NextCell(cursor_offset) \in Nat
    BY DEF NextCell
  <2> QED
    BY <1>5, <2>1, IrqStoresOnScreen DEF IrqChar
<1>6. CASE IrqLine
  <2>1. NewLine(cursor_offset) \in Nat
    BY LineEnd
  <2> QED
    BY <1>6, <2>1, IrqStoresOnScreen DEF IrqLine
<1>7. CASE IrqBackspace
  BY <1>7 DEF IrqBackspace
<1>8. CASE UNCHANGED consoleVars
  BY <1>8 DEF consoleVars
<1> QED
  BY <1>1, <1>2, <1>3, <1>4, <1>5, <1>6, <1>7, <1>8 DEF ConsoleNext

\* The kernel thread and the interrupts print through one cursor, and the thread may have
\* read it long before it writes: for a screen of any size, and any interleaving, no cell
\* outside of it is written or erased.
THEOREM ConsoleInvariant == ConsoleSpec => []ConsoleInv
<1>1. ConsoleInit => ConsoleIndInv
  BY ConsoleInitInv
<1>2. ConsoleIndInv /\ [ConsoleNext]_consoleVars => ConsoleIndInv'
  BY ConsoleStep
<1>3. ConsoleIndInv => ConsoleInv
  BY DEF ConsoleIndInv
<1> QED
  BY <1>1, <1>2, <1>3, PTL DEF ConsoleSpec

-----------------------------------------------------------------------------
(* The event rings. *)

\* Where the oldest event is
OldestEntry == IF trace_count = TraceMax THEN trace_idx ELSE 0

\* Until the ring is full it is filled from its start; recent says where each event is.
TraceIndInv ==
  /\ TraceTypeOK
  /\ recent \in Seq(Events) /\ Len(recent) = trace_count
  /\ trace_count < TraceMax => trace_idx = trace_count
  /\ \A k \in 1 .. trace_count : recent[k] = trace_ring[(OldestEntry + k - 1) % TraceMax]

LEMMA TraceInitInv ==
  ASSUME TraceInit
  PROVE  TraceIndInv
<1>1. trace_ring \in [Entries -> Events \cup {Empty}]
  BY DEF TraceInit
<1>2. trace_idx \in Entries /\ trace_count \in 0 .. TraceMax
  BY TraceAssumption DEF TraceInit, Entries
<1>3. recent \in Seq(Events) /\ Len(recent) = trace_count
  BY DEF TraceInit
<1> QED
  BY <1>1, <1>2, <1>3, TraceAssumption DEF TraceIndInv, TraceTypeOK, TraceInit

LEMMA TraceTypes ==
  ASSUME TraceIndInv
  PROVE  /\ TraceMax \in Nat \ {0} /\ trace_idx \in 0 .. (TraceMax - 1)
         /\ trace_count \in 0 .. TraceMax /\ Entries = 0 .. (TraceMax - 1)
         /\ trace_ring \in [Entries -> Events \cup {Empty}]
BY TraceAssumption DEF TraceIndInv, TraceTypeOK, Entries

LEMMA SysTraceStep ==
  ASSUME TraceIndInv, NEW event \in Events, sys_trace(event)
  PROVE  TraceIndInv'
<1>0. /\ TraceMax \in Nat \ {0} /\ trace_idx \in 0 .. (TraceMax - 1)
      /\ trace_count \in 0 .. TraceMax /\ Entries = 0 .. (TraceMax - 1)
      /\ trace_ring \in [Entries -> Events \cup {Empty}]
  BY TraceTypes
<1> USE <1>0
<1>1. /\ trace_idx' = IF trace_idx + 1 < TraceMax THEN trace_idx + 1 ELSE 0
      /\ trace_idx' \in Entries
  <2>1. CASE trace_idx + 1 < TraceMax
    BY <2>1 DEF sys_trace
  <2>2. CASE trace_idx + 1 = TraceMax
    BY <2>2 DEF sys_trace
  <2> QED
    BY <2>1, <2>2
<1>2. \A e \in Entries : trace_ring'[e] = IF e = trace_idx THEN event ELSE trace_ring[e]
  BY DEF sys_trace
<1>3. TraceTypeOK'
  BY <1>1 DEF sys_trace, TraceTypeOK
<1>4. recent \in Seq(Events) /\ Len(recent) = trace_count
  BY DEF TraceIndInv
<1>5. CASE trace_count < TraceMax
  <2>1. /\ trace_count' = trace_count + 1 /\ recent' = Append(recent, event)
        /\ trace_idx = trace_count /\ OldestEntry = 0
    BY <1>5, <1>4 DEF sys_trace, Remember, TraceIndInv, OldestEntry
  <2>2. recent' \in Seq(Events) /\ Len(recent') = trace_count'
    BY <2>1, <1>4
  <2>3. OldestEntry' = 0 /\ (trace_count' < TraceMax => trace_idx' = trace_count')
    BY <2>1, <1>1 DEF OldestEntry
  <2>4. ASSUME NEW k \in 1 .. trace_count'
        PROVE  recent'[k] = trace_ring'[(0 + k - 1) % TraceMax]
    <3>1. k - 1 \in Entries /\ (0 + k - 1) % TraceMax = k - 1
      BY <1>5, <2>1, <2>4
    <3>2. CASE k = trace_count + 1
      BY <3>1, <3>2, <2>1, <1>2, <1>4
    <3>3. CASE k \in 1 .. trace_count
      <4>1. recent'[k] = recent[k]
        BY <3>3, <2>1, <1>4
      <4>2. recent[k] = trace_ring[k - 1]
        BY <3>1, <3>3, <2>1 DEF TraceIndInv
      <4> QED
        BY <4>1, <4>2, <3>1, <3>3, <2>1, <1>2
    <3>4. k = trace_count + 1 \/ k \in 1 .. trace_count
      BY <2>1, <2>4
    <3> QED
      BY <3>2, <3>3, <3>4
  <2> QED
    BY <1>3, <2>2, <2>3, <2>4 DEF TraceIndInv
<1>6. CASE trace_count = TraceMax
  <2>1. /\ trace_count' = trace_count /\ recent' = Append(Tail(recent), event)
        /\ OldestEntry = trace_idx /\ OldestEntry' = trace_idx'
    BY <1>6, <1>4 DEF sys_trace, Remember, OldestEntry
  <2>2. Tail(recent) \in Seq(Events) /\ Len(Tail(recent)) = TraceMax - 1
    BY <1>4, <1>6
  <2>3. recent' \in Seq(Events) /\ Len(recent') = trace_count'
    BY <2>1, <2>2, <1>6
  <2>4. ASSUME NEW k \in 1 .. trace_count'
        PROVE  recent'[k] = trace_ring'[(trace_idx' + k - 1) % TraceMax]
    <3>1. CASE k = TraceMax
      <4>1. (trace_idx' + k - 1) % TraceMax = trace_idx
        <5>1. CASE trace_idx + 1 < TraceMax
          BY <5>1, <3>1, <1>1
        <5>2. CASE trace_idx + 1 = TraceMax
          BY <5>2, <3>1, <1>1
        <5> QED
          BY <5>1, <5>2
      <4>2. recent'[k] = event
        BY <3>1, <2>1, <2>2
      <4> QED
        BY <4>1, <4>2, <1>2
    <3>2. CASE k \in 1 .. (TraceMax - 1)
      <4> DEFINE e == (trace_idx + k) % TraceMax
      <4>1. e = IF trace_idx + k < TraceMax THEN trace_idx + k ELSE trace_idx + k - TraceMax
        <5>1. CASE trace_idx + k < TraceMax
          BY <5>1, <3>2
        <5>2. CASE trace_idx + k >= TraceMax
          BY <5>2, <3>2
        <5> QED
          BY <5>1, <5>2, <3>2
      <4>2. (trace_idx' + k - 1) % TraceMax = e
        <5>1. CASE trace_idx + 1 < TraceMax
          BY <5>1, <1>1
        <5>2. CASE trace_idx + 1 = TraceMax
          BY <5>2, <4>1, <3>2, <1>1
        <5> QED
          BY <5>1, <5>2
      <4>3. e \in Entries /\ e # trace_idx
        BY <4>1, <3>2
      <4>4. recent'[k] = recent[k + 1]
        BY <3>2, <2>1, <2>2, <1>4
      <4>5. recent[k + 1] = trace_ring[(trace_idx + (k + 1) - 1) % TraceMax]
        BY <3>2, <1>6, <2>1 DEF TraceIndInv
      <4>6. trace_idx + (k + 1) - 1 = trace_idx + k
        BY <3>2
      <4>7. recent'[k] = trace_ring[e]
        BY <4>4, <4>5, <4>6, Zenon
      <4> HIDE DEF e
      <4>8. trace_ring'[e] = trace_ring[e]
        BY <4>3, <1>2
      <4> QED
        BY <4>2, <4>7, <4>8, Zenon
    <3>3. k = TraceMax \/ k \in 1 .. (TraceMax - 1)
      BY <2>1, <2>4, <1>6
    <3> QED
      BY <3>1, <3>2, <3>3, Zenon
  <2> QED
    BY <1>3, <1>6, <2>1, <2>3, <2>4 DEF TraceIndInv
<1> QED
  BY <1>5, <1>6

LEMMA EntriesBehind ==
  ASSUME TraceIndInv
  PROVE  RingKeepsRecent
<1>1. /\ TraceMax \in Nat \ {0} /\ trace_idx \in 0 .. (TraceMax - 1)
      /\ trace_count \in 0 .. TraceMax /\ Len(recent) = trace_count
  BY TraceTypes DEF TraceIndInv
<1>2. ASSUME NEW j \in 1 .. trace_count
      PROVE  trace_ring[(trace_idx + TraceMax - j) % TraceMax] = recent[trace_count + 1 - j]
  <2>1. PICK k \in 1 .. trace_count : k = trace_count + 1 - j
    BY <1>1, <1>2
  <2>2. recent[k] = trace_ring[(OldestEntry + k - 1) % TraceMax]
    BY <2>1 DEF TraceIndInv
  <2>3. (OldestEntry + k - 1) % TraceMax = (trace_idx + TraceMax - j) % TraceMax
    <3>1. CASE trace_count = TraceMax
      BY <1>1, <2>1, <3>1 DEF OldestEntry
    <3>2. CASE trace_count < TraceMax
      <4>1. trace_idx = trace_count /\ OldestEntry = 0 /\ OldestEntry + k - 1 = trace_count - j
        BY <1>1, <2>1, <3>2 DEF OldestEntry, TraceIndInv
      <4>2. trace_count - j \in 0 .. (TraceMax - 1) /\ trace_count \in Nat /\ j \in Nat
        BY <1>1, <1>2
      <4>3. (trace_count - j) % TraceMax = trace_count - j
        BY <1>1, <4>2
      <4>4. (trace_count + TraceMax - j) % TraceMax = trace_count - j
        BY <1>1, <4>2
      <4> QED BY <4>1, <4>3, <4>4
    <3> QED BY <1>1, <3>1, <3>2
  <2> QED BY <2>1, <2>2, <2>3
<1> QED BY <1>1, <1>2 DEF RingKeepsRecent

\* Both rings keep the most recent events, as many as fit, in order behind trace_idx, for a
\* ring of any size and any series of events.
THEOREM TraceInvariant == TraceSpec => []TraceInv
<1>1. TraceInit => TraceIndInv
  BY TraceInitInv
<1>2. TraceIndInv /\ [TraceNext]_traceVars => TraceIndInv'
  <2> SUFFICES ASSUME TraceIndInv, [TraceNext]_traceVars
               PROVE  TraceIndInv'
    OBVIOUS
  <2>1. CASE TraceNext
    BY <2>1, SysTraceStep DEF TraceNext
  <2>2. CASE UNCHANGED traceVars
    BY <2>2 DEF traceVars, TraceIndInv, TraceTypeOK, OldestEntry
  <2> QED
    BY <2>1, <2>2
<1>3. TraceIndInv => TraceInv
  BY EntriesBehind DEF TraceIndInv, TraceInv
<1> QED
  BY <1>1, <1>2, <1>3, PTL DEF TraceSpec

-----------------------------------------------------------------------------
(* The page frames. *)

\* What is free lies above the reserve and below the bound.
FreeInBounds ==
  \A f \in Frames \ memory_bitmap : Reserve <= f /\ f < max_blocks

\* What is to be shown of every state, apart from the count's range and RefusedMeansFull,
\* which follow.
PmmIndInv ==
  /\ info \in Infos /\ memory_bitmap \subseteq Frames
  /\ max_blocks \in Reserve .. Capacity
  /\ FreeInBounds /\ HeldIsMarked /\ Counted /\ OnlyRamIsFree /\ OnlyCountedIsFree

LEMMA PmmConstants ==
  /\ PageSize \in Nat /\ PageSize >= 1 /\ ByteBits \in Nat /\ ByteBits >= 1
  /\ Word \in Nat /\ Word >= 1 /\ Word % PageSize = 0
  /\ Reserve \in Nat /\ Capacity \in Nat /\ Reserve <= Capacity
  /\ Frames = 0 .. (Capacity - 1)
BY PmmAssumption DEF Frames

\* A region's end, in its word
LEMMA RegionEndInWord ==
  ASSUME NEW r \in Region
  PROVE  RegionEnd(r) \in 0 .. (Word - 1)
<1>1. r.base \in Nat /\ r.length \in Nat /\ Word \in Nat /\ Word >= 1
  BY PmmConstants DEF Region
<1>2. r.base + r.length \in Nat
  BY <1>1
<1> DEFINE e == r.base + r.length
<1> HIDE DEF e
<1>3. e % Word \in 0 .. (Word - 1)
  BY <1>1, <1>2 DEF e
<1> QED
  BY <1>3 DEF e, RegionEnd

LEMMA TotalIsNumber ==
  ASSUME NEW i \in Infos
  PROVE  TotalBytes(i) \in Nat
<1> DEFINE s == i.lower + i.upper + Upper
           b == s * Kilo
<1>1. /\ Kilo \in Nat /\ Upper \in Nat /\ i.lower \in 0 .. Upper
      /\ i.upper \in 0 .. (Word - 1) /\ Word \in Nat /\ Word >= 1
  BY PmmAssumption
<1>2. s \in Nat
  BY <1>1
<1> HIDE DEF s
<1>3. b \in Nat
  BY <1>1, <1>2
<1> HIDE DEF b
<1>4. b % Word \in Nat
  BY <1>1, <1>3
<1> QED
  BY <1>4 DEF TotalBytes, b, s

\* The end of memory that compute_max_blocks_from_mmap finds is a number.
LEMMA HighestIsNumber ==
  ASSUME NEW i \in Infos
  PROVE  Highest(i) \in Nat
<1>1. /\ i.kind \in {"map", "size", "none"} /\ TotalBytes(i) \in Nat
      /\ i.map \in Seq(Region) /\ Word \in Nat /\ Word >= 1
  BY PmmAssumption, TotalIsNumber
<1>2. CASE i.kind = "map"
  <2> DEFINE T == {0} \cup {RegionEnd(i.map[n]) : n \in {m \in DOMAIN i.map : i.map[m].high = 0}}
  <2>1. \A n \in DOMAIN i.map : i.map[n] \in Region
    BY <1>1
  <2>2. T \in SUBSET (0 .. (Word - 1)) /\ T # {}
    BY <1>1, <2>1, RegionEndInWord
  <2>3. Word - 1 \in Nat
    BY <1>1
  <2>4. Max(T) \in T
    <3> HIDE DEF T
    <3>1. \E x \in T : \A y \in T : x >= y
      BY <2>2, <2>3, GreatestElement
    <3> QED
      BY <3>1 DEF Max
  <2>5. Highest(i) = Max(T)
    BY <1>2 DEF Highest
  <2>6. \A x \in T : x \in Nat
    BY <2>2, <2>3
  <2> HIDE DEF T
  <2> QED
    BY <2>4, <2>5, <2>6
<1>3. CASE i.kind = "size"
  BY <1>1, <1>3 DEF Highest
<1>4. CASE i.kind = "none"
  BY <1>4 DEF Highest
<1> QED
  BY <1>1, <1>2, <1>3, <1>4

\* The frames below the bound whose bit is set; they are finitely many.
LEMMA BelowIsFinite ==
  ASSUME NEW bits \in SUBSET Frames, NEW max \in 0 .. Capacity
  PROVE  /\ IsFiniteSet({f \in bits : f < max})
         /\ Recount(bits, max) \in 0 .. max
         /\ Recount(bits, max) = max => \A f \in Frames : f < max => f \in bits
<1> DEFINE S == {f \in bits : f < max}
           I == 0 .. (max - 1)
<1>1. Capacity \in Nat /\ max \in Nat /\ Frames = 0 .. (Capacity - 1)
  BY PmmConstants
<1>2. IsFiniteSet(I) /\ Cardinality(I) = max
  BY <1>1, FS_Interval
<1>3. S \subseteq I
  <2> SUFFICES ASSUME NEW f \in S
               PROVE  f \in I
    OBVIOUS
  <2>1. f \in 0 .. (Capacity - 1) /\ f < max
    BY <1>1
  <2> QED
    BY <2>1, <1>1
<1> HIDE DEF S
<1>4. /\ IsFiniteSet(S) /\ Cardinality(S) <= Cardinality(I)
      /\ (Cardinality(S) = Cardinality(I) => S = I)
  BY <1>2, <1>3, FS_Subset
<1>5. Cardinality(S) \in Nat
  BY <1>4, FS_CardinalityType
<1>6. Recount(bits, max) = Cardinality(S)
  BY DEF Recount, S
<1>7. ASSUME S = I, NEW f \in Frames, f < max
      PROVE  f \in bits
  BY <1>1, <1>7 DEF S
<1>8. IsFiniteSet({f \in bits : f < max})
  BY <1>4 DEF S
<1> QED
  BY <1>1, <1>2, <1>4, <1>5, <1>6, <1>7, <1>8

\* A multiple of the page size, and the rounding of mark_frames, which changes it not
LEMMA WholePages ==
  ASSUME NEW x \in Nat, x % PageSize = 0
  PROVE  /\ x \div PageSize \in Nat /\ x = PageSize * (x \div PageSize)
         /\ (x + PageSize - 1) \div PageSize = x \div PageSize
<1>1. PageSize \in Nat /\ PageSize >= 1
  BY PmmConstants
<1>2. x \div PageSize \in Nat /\ x = PageSize * (x \div PageSize)
  BY <1>1
<1> DEFINE q == x \div PageSize
<1>3. x + PageSize - 1 = PageSize * q + (PageSize - 1) /\ q \in Nat
  BY <1>1, <1>2
<1> HIDE DEF q
<1>4. (PageSize * q + (PageSize - 1)) \div PageSize = q
  BY <1>1, <1>3
<1> QED
  BY <1>2, <1>3, <1>4 DEF q

\* A region of whole pages touches a frame exactly if the frame lies in it as a whole.
LEMMA TouchesIsCovers ==
  ASSUME NEW b \in Nat, NEW e \in Nat, NEW f \in Nat, e < Word,
         b % PageSize = 0, e % PageSize = 0
  PROVE  /\ Touches(b, e, f) => b <= f * PageSize /\ (f + 1) * PageSize <= e
         /\ b < (f + 1) * PageSize /\ f * PageSize < e => Touches(b, e, f)
<1> DEFINE p == PageSize
           bq == b \div PageSize
           eq == e \div PageSize
           wq == Word \div PageSize
<1>1. /\ p \in Nat /\ p >= 1 /\ Word \in Nat /\ Word >= 1
      /\ bq \in Nat /\ b = p * bq /\ eq \in Nat /\ e = p * eq
      /\ wq \in Nat /\ Word = p * wq
      /\ (e + p - 1) \div p = eq
  BY PmmConstants, WholePages
<1>2. Touches(b, e, f) <=> bq <= f /\ f < ((e + p - 1) % Word) \div p
  BY DEF Touches
<1> HIDE DEF p, bq, eq, wq
<1>3. e + p - 1 \in Nat /\ e + p - 1 < Word
  <2>1. eq < wq
    BY <1>1
  <2>2. eq + 1 <= wq
    BY <2>1, <1>1
  <2>3. p * (eq + 1) <= p * wq
    BY <2>2, <1>1
  <2>4. p * (eq + 1) = p * eq + p
    BY <1>1
  <2> QED
    BY <2>3, <2>4, <1>1
<1>4. (e + p - 1) % Word = e + p - 1
  BY <1>1, <1>3
<1>5. Touches(b, e, f) <=> bq <= f /\ f < eq
  BY <1>1, <1>2, <1>4
<1>6. ASSUME bq <= f, f < eq
      PROVE  b <= f * p /\ (f + 1) * p <= e
  <2>1. f + 1 <= eq
    BY <1>1, <1>6
  <2>2. p * bq <= p * f /\ p * (f + 1) <= p * eq
    BY <1>1, <1>6, <2>1
  <2>3. p * f = f * p /\ p * (f + 1) = (f + 1) * p
    BY <1>1
  <2> QED
    BY <1>1, <2>2, <2>3
<1>7. ASSUME b < (f + 1) * p, f * p < e
      PROVE  bq <= f /\ f < eq
  <2>1. p * bq < p * (f + 1) /\ p * f < p * eq
    BY <1>1, <1>7
  <2>2. bq < f + 1 /\ f < eq
    BY <1>1, <2>1
  <2> QED
    BY <1>1, <2>2
<1> QED
  BY <1>5, <1>6, <1>7 DEF p

\* What a map of whole pages frees is memory: the last region to cover a frame is
\* available, so no reserved one reaches into it.
LEMMA FreedIsRam ==
  ASSUME NEW map \in Seq(Region), OfWholePages(map), NEW f \in Frames, MapFrees(map, f)
  PROVE  IsRam(map, f)
<1>1. /\ \A n \in DOMAIN map : /\ map[n].base \in Nat /\ map[n].length \in Nat
                               /\ map[n].high \in {0, 1} /\ n \in Nat
                               /\ map[n].type \in {"available", "reserved"}
      /\ f \in Nat /\ PageSize \in Nat /\ PageSize >= 1 /\ Capacity \in Nat /\ Word \in Nat
      /\ f < Capacity
  <2>1. \A n \in DOMAIN map : map[n] \in Region /\ n \in Nat
    OBVIOUS
  <2>2. /\ f \in Nat /\ PageSize \in Nat /\ PageSize >= 1 /\ Capacity \in Nat /\ Word \in Nat
        /\ f < Capacity
    BY PmmConstants
  <2>3. \A r \in Region : /\ r.base \in Nat /\ r.length \in Nat /\ r.high \in {0, 1}
                          /\ r.type \in {"available", "reserved"}
    BY <2>2 DEF Region
  <2> QED
    BY <2>1, <2>2, <2>3
<1>2. ASSUME NEW n \in DOMAIN map, map[n].high = 0
      PROVE  \/ map[n].base >= (f + 1) * PageSize /\ ~Covers(map[n], f)
             \/ /\ RegionEnd(map[n]) = map[n].base + map[n].length
                /\ RegionEnd(map[n]) < Word
                /\ map[n].base % PageSize = 0
                /\ RegionEnd(map[n]) % PageSize = 0
  <2>0. /\ map[n].base % PageSize = 0 /\ map[n].length % PageSize = 0
        /\ \/ map[n].base + map[n].length < Word
           \/ map[n].base >= Capacity * PageSize
    BY <1>2 DEF OfWholePages
  <2>1. CASE map[n].base + map[n].length < Word
    <3>1. RegionEnd(map[n]) = map[n].base + map[n].length
      <4> DEFINE e == map[n].base + map[n].length
      <4>1. e \in Nat /\ e < Word /\ Word \in Nat
        BY <2>1, <1>1
      <4> HIDE DEF e
      <4>2. e % Word = e
        BY <4>1
      <4> QED
        BY <4>2 DEF e, RegionEnd
    <3>2. (map[n].base + map[n].length) % PageSize = 0
      <4> DEFINE b == map[n].base
                 l == map[n].length
                 bq == b \div PageSize
                 lq == l \div PageSize
      <4>1. b = PageSize * bq /\ l = PageSize * lq /\ bq \in Nat /\ lq \in Nat
        BY <2>0, <1>1, WholePages
      <4> HIDE DEF b, l, bq, lq
      <4>2. b + l = PageSize * (bq + lq)
        BY <4>1, <1>1
      <4> DEFINE k == bq + lq
      <4>3. k \in Nat
        BY <4>1
      <4> HIDE DEF k
      <4>4. (PageSize * k) % PageSize = 0
        BY <4>3, <1>1
      <4> QED
        BY <4>2, <4>4 DEF b, l, k
    <3> QED
      BY <2>0, <2>1, <3>1, <3>2
  <2>2. CASE map[n].base >= Capacity * PageSize
    <3>1. f + 1 <= Capacity
      BY <1>1
    <3>2. (f + 1) * PageSize <= Capacity * PageSize
      BY <3>1, <1>1
    <3>3. map[n].base >= (f + 1) * PageSize
      <4>1. (f + 1) * PageSize \in Nat /\ Capacity * PageSize \in Nat
        BY <1>1
      <4> DEFINE b == map[n].base
                 x == (f + 1) * PageSize
                 y == Capacity * PageSize
      <4>2. b \in Nat /\ b >= y /\ x <= y /\ x \in Nat /\ y \in Nat
        BY <4>1, <3>2, <2>2, <1>1
      <4> HIDE DEF b, x, y
      <4>3. b >= x
        BY <4>2
      <4> QED
        BY <4>3 DEF b, x
    <3>4. ~(map[n].base \div PageSize <= f)
      <4> DEFINE bq == map[n].base \div PageSize
      <4>1. bq \in Nat /\ map[n].base = PageSize * bq
        BY <2>0, <1>1, WholePages
      <4> HIDE DEF bq
      <4>2. PageSize * bq >= PageSize * (f + 1)
        BY <4>1, <3>3, <1>1
      <4>3. bq >= f + 1
        BY <4>1, <4>2, <1>1
      <4> QED
        BY <4>1, <4>3, <1>1 DEF bq
    <3> QED
      BY <3>3, <3>4 DEF Covers, Touches
  <2> QED
    BY <2>0, <2>1, <2>2
<1>3. PICK n \in DOMAIN map : /\ Covers(map[n], f) /\ map[n].type = "available"
                              /\ \A m \in DOMAIN map : Covers(map[m], f) => m <= n
  BY DEF MapFrees
<1>4. /\ map[n].high = 0 /\ map[n].base <= f * PageSize
      /\ (f + 1) * PageSize <= map[n].base + map[n].length
  <2>1. map[n].high = 0 /\ Touches(map[n].base, RegionEnd(map[n]), f)
    BY <1>3 DEF Covers
  <2>2. /\ RegionEnd(map[n]) = map[n].base + map[n].length /\ RegionEnd(map[n]) < Word
        /\ map[n].base % PageSize = 0 /\ RegionEnd(map[n]) % PageSize = 0
    BY <2>1, <1>2, <1>3
  <2>3. RegionEnd(map[n]) \in Nat
    BY <2>2, <1>1
  <2> QED
    BY <2>1, <2>2, <2>3, <1>1, TouchesIsCovers
<1>5. ASSUME NEW m \in DOMAIN map, map[m].high = 0, map[m].type = "reserved",
             ~(map[m].base + map[m].length <= f * PageSize),
             ~((f + 1) * PageSize <= map[m].base)
      PROVE  FALSE
  <2>1. f * PageSize \in Nat /\ (f + 1) * PageSize = f * PageSize + PageSize
    BY <1>1
  <2>2. /\ RegionEnd(map[m]) = map[m].base + map[m].length /\ RegionEnd(map[m]) < Word
        /\ map[m].base % PageSize = 0 /\ RegionEnd(map[m]) % PageSize = 0
    BY <1>2, <1>5, <2>1, <1>1
  <2>3. RegionEnd(map[m]) \in Nat
    BY <2>2, <1>1
  <2>4. map[m].base < (f + 1) * PageSize /\ f * PageSize < RegionEnd(map[m])
    BY <1>5, <2>1, <2>2, <2>3, <1>1
  <2>5. Touches(map[m].base, RegionEnd(map[m]), f)
    BY <2>2, <2>3, <2>4, <1>1, TouchesIsCovers
  <2>6. m <= n
    BY <2>5, <1>3, <1>5 DEF Covers
  <2>7. Overlap(map[n], map[m])
    <3> DEFINE p == f * PageSize
               s == (f + 1) * PageSize
               b == map[n].base
               c == map[m].base
               d == map[n].base + map[n].length
               e == map[m].base + map[m].length
    <3>1. b \in Nat /\ c \in Nat /\ d \in Nat /\ e \in Nat
      BY <1>1
    <3>2. p \in Nat /\ s \in Nat
      BY <2>1, <1>1
    <3>3. b <= p /\ s <= d
      BY <1>4
    <3>4. c < s /\ p < e
      BY <2>2, <2>4
    <3> HIDE DEF p, s, b, c, d, e
    <3>5. c < d /\ b < e
      BY <3>1, <3>2, <3>3, <3>4
    <3> QED
      BY <3>5 DEF Overlap, b, c, d, e
  <2>8. n < m
    BY <2>7, <1>3, <1>4, <1>5 DEF OfWholePages
  <2> QED
    BY <2>6, <2>8, <1>1
<1> QED
  BY <1>3, <1>4, <1>5 DEF IsRam

LEMMA PmmInitInv ==
  ASSUME PmmInit
  PROVE  PmmIndInv
<1>1. /\ info \in Infos /\ max_blocks = Clamp(Highest(info) \div PageSize)
      /\ memory_bitmap = UsedAtBoot(info, max_blocks)
      /\ used_blocks = Recount(memory_bitmap, max_blocks) /\ held = {}
  BY DEF PmmInit
<1>2. max_blocks \in Reserve .. Capacity
  <2> DEFINE h == Highest(info)
             q == h \div PageSize
  <2>1. h \in Nat
    BY <1>1, HighestIsNumber
  <2> HIDE DEF h
  <2>2. q \in Nat
    BY <2>1, PmmConstants
  <2>3. max_blocks = Clamp(q)
    BY <1>1 DEF h
  <2> HIDE DEF q
  <2> QED
    BY <2>2, <2>3, PmmConstants DEF Clamp
<1>3. memory_bitmap \subseteq Frames
  BY <1>1 DEF UsedAtBoot
<1>4. \A f \in Frames \ memory_bitmap : ~(f < Reserve) /\ f < max_blocks /\ Frees(info, f)
  BY <1>1 DEF UsedAtBoot
<1>5. FreeInBounds
  BY <1>4, PmmConstants DEF FreeInBounds
<1>6. HeldIsMarked /\ Counted
  BY <1>1 DEF HeldIsMarked, Counted
<1>7. OnlyRamIsFree
  <2> SUFFICES ASSUME info.kind = "map", OfWholePages(info.map),
                      NEW f \in Frames, f \notin memory_bitmap
               PROVE  f >= Reserve /\ f < max_blocks /\ IsRam(info.map, f)
    BY <1>1 DEF OnlyRamIsFree
  <2>1. MapFrees(info.map, f)
    BY <1>4 DEF Frees
  <2>2. info.map \in Seq(Region)
    BY <1>1, PmmAssumption
  <2>3. IsRam(info.map, f)
    BY <2>1, <2>2, FreedIsRam
  <2> QED
    BY <2>3, <1>5, PmmConstants DEF FreeInBounds
<1>8. OnlyCountedIsFree
  <2> SUFFICES ASSUME info.kind # "map", NEW f \in Frames, f \notin memory_bitmap
               PROVE  /\ f >= Reserve /\ info.kind = "size"
                      /\ (f + 1) * PageSize <= TotalBytes(info)
    BY <1>1 DEF OnlyCountedIsFree
  <2>1. info.kind = "size" /\ f >= Reserve /\ f < max_blocks
    BY <1>4, <1>5, PmmConstants DEF Frees, FreeInBounds
  <2> DEFINE b == TotalBytes(info)
             q == b \div PageSize
  <2>2. max_blocks = Clamp(q)
    BY <1>1, <2>1 DEF Highest
  <2>3. b \in Nat
    BY <1>1, TotalIsNumber
  <2> HIDE DEF b
  <2>4. q \in Nat /\ q * PageSize <= b
    BY <2>3, PmmConstants
  <2> HIDE DEF q
  <2>5. f \in Nat /\ f + 1 <= q
    BY <2>1, <2>2, <2>4, PmmConstants DEF Clamp
  <2>6. (f + 1) * PageSize <= q * PageSize
    <3>1. q - (f + 1) \in Nat
      BY <2>4, <2>5
    <3>2. (q - (f + 1)) * PageSize \in Nat
      BY <3>1, PmmConstants
    <3>3. q * PageSize = (q - (f + 1)) * PageSize + (f + 1) * PageSize
      BY <2>4, <2>5, PmmConstants
    <3>4. (f + 1) * PageSize \in Nat
      BY <2>5, PmmConstants
    <3> QED
      BY <3>2, <3>3, <3>4
  <2>7. (f + 1) * PageSize \in Nat /\ q * PageSize \in Nat
    BY <2>4, <2>5, PmmConstants
  <2> QED
    BY <2>1, <2>3, <2>4, <2>6, <2>7 DEF b
<1> QED
  BY <1>1, <1>2, <1>3, <1>5, <1>6, <1>7, <1>8 DEF PmmIndInv

\* The search ends at a free frame that is searched, or at none if there is no such.
LEMMA FoundIsFree ==
  ASSUME PmmIndInv
  PROVE  LET f == find_first_free_block
         IN  IF f = Capacity
               THEN \A g \in Frames \ memory_bitmap : ~Searched(g)
               ELSE f \in Frames /\ f \notin memory_bitmap /\ Searched(f)
<1> DEFINE S == {g \in Frames \ memory_bitmap : Searched(g)}
           T == S \cup {Capacity}
<1>1. T \in SUBSET Nat /\ T # {}
  BY PmmConstants
<1>2. find_first_free_block = Min(T)
  BY DEF find_first_free_block
<1> HIDE DEF S
<1>3. Min(T) \in T /\ \A y \in T : Min(T) =< y
  <2> HIDE DEF T
  <2>1. \E x \in T : \A y \in T : x =< y
    BY <1>1, LeastElement
  <2> QED
    BY <2>1 DEF Min
<1>4. CASE Min(T) = Capacity
  <2>1. ASSUME NEW g \in S
        PROVE  FALSE
    <3>1. g \in Frames /\ g \in T
      BY DEF S
    <3>2. Capacity <= g
      BY <1>3, <1>4, <3>1
    <3> QED
      BY <3>1, <3>2, PmmConstants
  <2> QED
    BY <2>1, <1>2, <1>4 DEF S
<1>5. CASE Min(T) # Capacity
  <2>1. Min(T) \in S
    BY <1>3, <1>5
  <2> QED
    BY <2>1, <1>2, <1>5 DEF S
<1> QED
  BY <1>4, <1>5

\* A frame in a byte below the bound's is below the bound.
LEMMA SearchedInBounds ==
  ASSUME PmmIndInv, NEW f \in Frames
  PROVE  /\ Searched(f) => f < max_blocks
         /\ f >= Reserve /\ ~Searched(f) => f >= max_blocks - (max_blocks % ByteBits)
<1> DEFINE m == max_blocks
           fq == f \div ByteBits
           mq == m \div ByteBits
<1>1. /\ f \in Nat /\ m \in Nat /\ ByteBits \in Nat /\ ByteBits >= 1 /\ Reserve \in Nat
  BY PmmConstants DEF PmmIndInv
<1>2. /\ fq \in Nat /\ mq \in Nat
      /\ f = ByteBits * fq + (f % ByteBits) /\ f % ByteBits \in 0 .. (ByteBits - 1)
      /\ m = ByteBits * mq + (m % ByteBits) /\ m % ByteBits \in 0 .. (ByteBits - 1)
  BY <1>1
<1>3. Searched(f) <=> f >= Reserve /\ fq < mq
  BY DEF Searched
<1> DEFINE fr == f % ByteBits
           mr == m % ByteBits
<1>4. /\ f = ByteBits * fq + fr /\ fr \in 0 .. (ByteBits - 1)
      /\ m = ByteBits * mq + mr /\ mr \in 0 .. (ByteBits - 1)
  BY <1>2
<1> HIDE DEF fq, mq, fr, mr, m
<1>5. ASSUME fq < mq
      PROVE  f < m
  <2>1. ByteBits * (fq + 1) <= ByteBits * mq
    <3>1. fq + 1 <= mq
      BY <1>2, <1>5
    <3> QED
      BY <3>1, <1>1, <1>2
  <2>2. ByteBits * (fq + 1) = ByteBits * fq + ByteBits
    BY <1>1, <1>2
  <2> QED
    BY <2>1, <2>2, <1>1, <1>2, <1>4
<1>6. ASSUME ~(fq < mq)
      PROVE  f >= m - mr
  <2>1. ByteBits * mq <= ByteBits * fq
    BY <1>1, <1>2, <1>6
  <2> QED
    BY <2>1, <1>1, <1>2, <1>4
<1> QED
  BY <1>3, <1>5, <1>6 DEF m, mr

LEMMA AllocStep ==
  ASSUME PmmIndInv, pmm_alloc_block
  PROVE  PmmIndInv'
<1> DEFINE f == find_first_free_block
<1>1. f \in Frames /\ f \notin memory_bitmap /\ Searched(f)
  BY FoundIsFree DEF pmm_alloc_block, Refused
<1>2. /\ memory_bitmap' = memory_bitmap \cup {f} /\ used_blocks' = used_blocks + 1
      /\ held' = held \cup {f} /\ info' = info /\ max_blocks' = max_blocks
  BY DEF pmm_alloc_block
<1> HIDE DEF f
<1>3. f < max_blocks /\ Reserve <= f
  BY <1>1, SearchedInBounds, PmmConstants DEF FreeInBounds, PmmIndInv
<1>4. /\ memory_bitmap \in SUBSET Frames /\ max_blocks \in 0 .. Capacity
      /\ Counted /\ HeldIsMarked /\ OnlyRamIsFree /\ OnlyCountedIsFree /\ FreeInBounds
  BY PmmConstants DEF PmmIndInv
<1>5. Counted'
  <2> DEFINE S == {g \in memory_bitmap : g < max_blocks}
             T == {g \in memory_bitmap \cup {f} : g < max_blocks}
  <2>1. T = S \cup {f} /\ f \notin S
    BY <1>1, <1>3
  <2>2. IsFiniteSet(S)
    BY <1>4, BelowIsFinite
  <2>3. used_blocks = Cardinality(S) /\ Recount(memory_bitmap', max_blocks') = Cardinality(T)
    BY <1>2, <1>4 DEF Counted, Recount
  <2> HIDE DEF S, T
  <2>4. Cardinality(S \cup {f}) = Cardinality(S) + 1
    BY <2>1, <2>2, FS_AddElement
  <2> QED
    BY <2>1, <2>3, <2>4, <1>2 DEF Counted
<1>6. HeldIsMarked'
  BY <1>1, <1>2, <1>3, <1>4 DEF HeldIsMarked
<1>7. FreeInBounds'
  BY <1>2, <1>4 DEF FreeInBounds
<1>8. OnlyRamIsFree' /\ OnlyCountedIsFree'
  BY <1>1, <1>2, <1>4 DEF OnlyRamIsFree, OnlyCountedIsFree
<1>9. info' \in Infos /\ memory_bitmap' \subseteq Frames /\ max_blocks' \in Reserve .. Capacity
  BY <1>1, <1>2 DEF PmmIndInv
<1> QED
  BY <1>5, <1>6, <1>7, <1>8, <1>9 DEF PmmIndInv

LEMMA FreeStep ==
  ASSUME PmmIndInv, NEW f \in Frames, pmm_free_block(f)
  PROVE  PmmIndInv'
<1>1. f \in held /\ f >= Reserve /\ f < max_blocks
  BY DEF pmm_free_block
<1>2. /\ memory_bitmap' = memory_bitmap \ {f} /\ used_blocks' = used_blocks - 1
      /\ held' = held \ {f} /\ info' = info /\ max_blocks' = max_blocks
  BY DEF pmm_free_block
<1>3. /\ memory_bitmap \in SUBSET Frames /\ max_blocks \in 0 .. Capacity
      /\ Counted /\ HeldIsMarked /\ OnlyRamIsFree /\ OnlyCountedIsFree /\ FreeInBounds
  BY PmmConstants DEF PmmIndInv
<1>4. f \in memory_bitmap
  BY <1>1, <1>3 DEF HeldIsMarked
<1>5. Counted'
  <2> DEFINE S == {g \in memory_bitmap : g < max_blocks}
             T == {g \in memory_bitmap \ {f} : g < max_blocks}
  <2>1. T = S \ {f} /\ f \in S
    BY <1>1, <1>4
  <2>2. IsFiniteSet(S)
    BY <1>3, BelowIsFinite
  <2>3. used_blocks = Cardinality(S) /\ Recount(memory_bitmap', max_blocks') = Cardinality(T)
    BY <1>2, <1>3 DEF Counted, Recount
  <2> HIDE DEF S, T
  <2>4. Cardinality(S \ {f}) = Cardinality(S) - 1
    BY <2>1, <2>2, FS_RemoveElement
  <2> QED
    BY <2>1, <2>3, <2>4, <1>2 DEF Counted
<1>6. HeldIsMarked'
  BY <1>2, <1>3 DEF HeldIsMarked
<1>7. FreeInBounds'
  BY <1>1, <1>2, <1>3, PmmConstants DEF FreeInBounds
<1>8. OnlyRamIsFree' /\ OnlyCountedIsFree'
  BY <1>1, <1>2, <1>3 DEF OnlyRamIsFree, OnlyCountedIsFree
<1>9. info' \in Infos /\ memory_bitmap' \subseteq Frames /\ max_blocks' \in Reserve .. Capacity
  BY <1>2 DEF PmmIndInv
<1> QED
  BY <1>5, <1>6, <1>7, <1>8, <1>9 DEF PmmIndInv

\* A request is refused because all frames below the bound are used, or because none of
\* those that are searched is free.
LEMMA RefusalMeansFull ==
  ASSUME PmmIndInv
  PROVE  RefusedMeansFull
<1> SUFFICES ASSUME Refused, NEW f \in Frames \ memory_bitmap
             PROVE  f >= max_blocks - (max_blocks % ByteBits)
  BY DEF RefusedMeansFull
<1>1. /\ memory_bitmap \in SUBSET Frames /\ max_blocks \in 0 .. Capacity
      /\ used_blocks = Recount(memory_bitmap, max_blocks) /\ f >= Reserve /\ f < max_blocks
  BY PmmConstants DEF PmmIndInv, Counted, FreeInBounds
<1>2. CASE used_blocks >= max_blocks
  <2>0. Recount(memory_bitmap, max_blocks) \in 0 .. max_blocks
    BY <1>1, BelowIsFinite
  <2>1. Recount(memory_bitmap, max_blocks) = max_blocks
    BY <2>0, <1>1, <1>2, PmmConstants
  <2> QED
    BY <2>1, <1>1, BelowIsFinite
<1>3. CASE find_first_free_block = Capacity
  <2>1. ~Searched(f)
    BY <1>3, FoundIsFree
  <2> QED
    BY <2>1, <1>1, SearchedInBounds
<1> QED
  BY <1>2, <1>3 DEF Refused

\* Whatever the boot loader says, and after any series of allocations and frees: the count is
\* the number of bits set, what is held is marked, and a request is refused only when the
\* frames that are searched are used up.  With a map of whole pages, what is free or handed
\* out is memory above the reserve; without a map it lies in the bytes that the account is
\* taken for, which is more than there is.
THEOREM PmmInvariant == PmmSpec => []PmmInv
<1>1. PmmInit => PmmIndInv
  BY PmmInitInv
<1>2. PmmIndInv /\ [PmmNext]_pmmVars => PmmIndInv'
  <2> SUFFICES ASSUME PmmIndInv, [PmmNext]_pmmVars
               PROVE  PmmIndInv'
    OBVIOUS
  <2>1. CASE pmm_alloc_block
    BY <2>1, AllocStep
  <2>2. CASE \E f \in Frames : pmm_free_block(f)
    BY <2>2, FreeStep
  <2>3. CASE UNCHANGED pmmVars
    BY <2>3 DEF pmmVars, PmmIndInv, FreeInBounds, HeldIsMarked, Counted, OnlyRamIsFree,
                 OnlyCountedIsFree
  <2> QED
    BY <2>1, <2>2, <2>3 DEF PmmNext
<1>3. ASSUME PmmIndInv
      PROVE  PmmInv
  <2>1. PmmTypeOK
    <3>1. /\ memory_bitmap \in SUBSET Frames /\ max_blocks \in 0 .. Capacity
          /\ used_blocks = Recount(memory_bitmap, max_blocks)
      BY <1>3, PmmConstants DEF PmmIndInv, Counted
    <3>2. used_blocks \in 0 .. Capacity
      <4>1. Recount(memory_bitmap, max_blocks) \in 0 .. max_blocks
        BY <3>1, BelowIsFinite
      <4> QED
        BY <4>1, <3>1, PmmConstants
    <3>3. held \subseteq Frames
      BY <1>3 DEF PmmIndInv, HeldIsMarked
    <3> QED
      BY <1>3, <3>2, <3>3 DEF PmmIndInv, PmmTypeOK
  <2> QED
    BY <1>3, <2>1, RefusalMeansFull DEF PmmIndInv, PmmInv
<1> QED
  BY <1>1, <1>2, <1>3, PTL DEF PmmSpec

-----------------------------------------------------------------------------
(* The desktop. *)

\* The handlers, the bytes that they carry and that mouse_byte holds, and the window
MouseByte == [of : Packet \cup {NoPacket}, number : {0, 1}, place : 0 .. 3]
Places == {"start", "read", "cycle", "store", "packet"} \cup Applying
Handler == [at : Places, d : MouseByte, c : 0 .. (Byte - 1), b : [1 .. 3 -> MouseByte],
            held : BOOLEAN, x : Int, y : Int, wx : Int, wy : Int]

DesktopData ==
  /\ packet \in Packet \cup {NoPacket} /\ count \in 0 .. MaxPackets /\ sent \in 0 .. 3
  /\ mouse_cycle \in 0 .. (Byte - 1) /\ mouse_byte \in [1 .. 3 -> MouseByte]
  /\ nested \in BOOLEAN /\ crossed \in BOOLEAN
  /\ mouse_x \in Int /\ mouse_y \in Int /\ win_x \in Int /\ win_y \in Int
  /\ is_dragging \in BOOLEAN /\ drag_off_x \in 0 .. WinW /\ drag_off_y \in 0 .. TitleH
  /\ machine \in {"runs", "panicked", "wild"} /\ frame_ready \in BOOLEAN
  /\ dpc \in {"text", "check", "clear", "hlt"}

DesktopTypes == DesktopData /\ active \in Seq(Handler) /\ Len(active) <= MaxNest

\* Only the running handler can be about to read a byte, and then there is one; in text
\* mode there are no handlers.
StackSound ==
  /\ \A k \in 2 .. Len(active) : active[k].at # "start"
  /\ active # <<>> /\ active[1].at = "start" => sent < 3
  /\ dpc = "text" => active = <<>> /\ sent = 3 /\ machine = "runs"

\* The bytes of the packet that is being sent are in their places, the first n of them.
Stored(n) == \A j \in 1 .. n : mouse_byte[j] = ByteOf(j)

\* The bytes that a handler has taken for a packet so far are those of mouse_byte.
Taken(h) ==
  /\ h.at \in {"x", "byte0", "byte2", "y", "addx"} => h.b[2] = mouse_byte[2]
  /\ h.at \in {"byte2", "y", "addx"} => h.b[1] = mouse_byte[1]
  /\ h.at \in {"y", "addx"} => h.b[3] = mouse_byte[3]

\* Without nesting, the one handler knows the place of its byte: the bytes before it are in
\* mouse_byte, and mouse_cycle counts them.  The mouse may have begun the next packet as
\* soon as the last byte was read.
HandlerInStep(h) ==
  /\ h.at = "start" => mouse_cycle = sent /\ Stored(sent)
  /\ h.at \in {"read", "cycle", "store"} =>
       /\ h.d.place \in 1 .. 3
       /\ \A j \in 1 .. (h.d.place - 1) : mouse_byte[j] = [h.d EXCEPT !.place = j]
       /\ h.d.place < 3 => sent = h.d.place /\ h.d = ByteOf(sent)
       /\ h.d.place = 3 => sent \in {0, 3}
  /\ h.at \in {"read", "cycle"} => mouse_cycle = h.d.place - 1
  /\ h.at = "store" => mouse_cycle = h.d.place
  /\ h.at \in {"cycle", "store"} => h.c = h.d.place - 1
  /\ h.at = "packet" => mouse_cycle = 3 /\ Whole(mouse_byte) /\ sent \in {0, 3}
  /\ h.at \in Applying => mouse_cycle = 0 /\ Whole(mouse_byte) /\ sent \in {0, 3} /\ Taken(h)

InStep ==
  ~nested => /\ Len(active) <= 1
             /\ active = <<>> => mouse_cycle = sent % 3 /\ (sent < 3 => Stored(sent))
             /\ active # <<>> => HandlerInStep(active[1])

\* The pointer is off the screen only until the handler that took it there clips it.
OffX(h) == h.at \in {"addy", "clipx"} /\ h.x \notin 0 .. (Width - 1)
OffY(h) == h.at \in {"clipx", "clipy"} /\ h.y \notin 0 .. (Height - 1)

ClipsAhead ==
  /\ mouse_x \in 0 .. (Width - 1) \/ \E k \in 1 .. Len(active) : OffX(active[k])
  /\ mouse_y \in 0 .. (Height - 1) \/ \E k \in 1 .. Len(active) : OffY(active[k])

\* A handler that is grabbing the window has found its own pointer on its own title bar.
OnItsTitle(h) ==
  /\ h.at \in {"py", "wy", "grab", "graby", "grabx"} => h.x - h.wx \in 0 .. WinW
  /\ h.at \in {"grab", "graby", "grabx"} => h.y - h.wy \in 0 .. TitleH

GrabsTitle == \A k \in 1 .. Len(active) : OnItsTitle(active[k])

\* What the registers of a handler have to do with the window, if nobody else applies a packet
Knows(h) ==
  /\ h.at \in {"px", "wx"} => h.held = is_dragging
  /\ h.at \in {"py", "wy"} => ~is_dragging
  /\ h.at \in {"wx", "py", "wy", "grab", "graby", "grabx", "buttonwy", "buttony", "again",
               "offx"} => h.x = mouse_x
  /\ h.at = "movex" => h.x = mouse_x - drag_off_x
  /\ h.at \in {"movey", "offy", "put"} => win_x = mouse_x - drag_off_x
  /\ h.at = "offy" => h.y = mouse_y
  /\ h.at = "put" => h.y = mouse_y - drag_off_y

InGrip == is_dragging => mouse_x = win_x + drag_off_x /\ mouse_y = win_y + drag_off_y

Applies(k) == active[k].at \in Applying

GripHeld ==
  ~crossed =>
    /\ \A j, k \in 1 .. Len(active) : Applies(j) /\ Applies(k) => j = k
    /\ (\A k \in 1 .. Len(active) : ~Applies(k)) => InGrip
    /\ \A k \in 1 .. Len(active) : Applies(k) => Knows(active[k])

DesktopIndInv ==
  DesktopTypes /\ StackSound /\ InStep /\ ClipsAhead /\ GrabsTitle /\ GripHeld

\* A handler is put on top of the stack, is exchanged, or is taken off.
LEMMA PushHandler ==
  ASSUME NEW s \in Seq(Handler), NEW h \in Handler
  PROVE  /\ <<h>> \o s \in Seq(Handler) /\ Len(<<h>> \o s) = Len(s) + 1
         /\ (<<h>> \o s)[1] = h
         /\ \A k \in 2 .. (Len(s) + 1) : (<<h>> \o s)[k] = s[k - 1]
<1>1. <<h>> \in Seq(Handler) /\ Len(<<h>>) = 1 /\ <<h>>[1] = h /\ Len(s) \in Nat
  OBVIOUS
<1> DEFINE t == <<h>>
<1> HIDE DEF t
<1>2. /\ t \o s \in Seq(Handler) /\ Len(t \o s) = Len(t) + Len(s)
      /\ \A k \in 1 .. Len(t) + Len(s) : (t \o s)[k] = IF k <= Len(t) THEN t[k]
                                                      ELSE s[k - Len(t)]
  BY <1>1, ConcatProperties DEF t
<1>3. Len(t) = 1 /\ t[1] = h
  BY <1>1 DEF t
<1>4. /\ t \o s \in Seq(Handler) /\ Len(t \o s) = Len(s) + 1 /\ (t \o s)[1] = h
      /\ \A k \in 2 .. (Len(s) + 1) : (t \o s)[k] = s[k - 1]
  BY <1>1, <1>2, <1>3
<1> QED
  BY <1>4 DEF t

LEMMA PopHandler ==
  ASSUME NEW s \in Seq(Handler), s # <<>>
  PROVE  /\ Tail(s) \in Seq(Handler) /\ Len(s) \in Nat /\ Len(s) >= 1
         /\ Len(Tail(s)) = Len(s) - 1
         /\ \A k \in 1 .. (Len(s) - 1) : Tail(s)[k] = s[k + 1]
         /\ Head(s) = s[1] /\ s[1] \in Handler
OBVIOUS

LEMMA SwapHandler ==
  ASSUME NEW s \in Seq(Handler), s # <<>>, NEW h \in Handler
  PROVE  /\ <<h>> \o Tail(s) \in Seq(Handler) /\ Len(<<h>> \o Tail(s)) = Len(s)
         /\ (<<h>> \o Tail(s))[1] = h
         /\ \A k \in 2 .. Len(s) : (<<h>> \o Tail(s))[k] = s[k]
<1> DEFINE t == Tail(s)
<1>1. /\ t \in Seq(Handler) /\ Len(s) \in Nat /\ Len(t) = Len(s) - 1
      /\ \A k \in 1 .. (Len(s) - 1) : t[k] = s[k + 1]
  BY PopHandler
<1> HIDE DEF t
<1>2. /\ <<h>> \o t \in Seq(Handler) /\ Len(<<h>> \o t) = Len(t) + 1
      /\ (<<h>> \o t)[1] = h
      /\ \A k \in 2 .. (Len(t) + 1) : (<<h>> \o t)[k] = t[k - 1]
  BY <1>1, PushHandler
<1>3. \A k \in 2 .. Len(s) : t[k - 1] = s[k]
  BY <1>1
<1>4. \A k \in 2 .. Len(s) : (<<h>> \o t)[k] = s[k]
  BY <1>1, <1>2, <1>3
<1> QED
  BY <1>1, <1>2, <1>4 DEF t

\* The same of the stack as the actions name it
LEMMA BecomeStack ==
  ASSUME active \in Seq(Handler), active # <<>>, NEW h \in Handler, Become(h)
  PROVE  /\ active' \in Seq(Handler) /\ active' # <<>> /\ Len(active') = Len(active)
         /\ active'[1] = h /\ Len(active) \in Nat /\ Len(active) >= 1
         /\ \A k \in 2 .. Len(active) : active'[k] = active[k]
<1>1. active' = <<h>> \o Tail(active)
  BY DEF Become
<1>2. /\ active' \in Seq(Handler) /\ Len(active') = Len(active) /\ active'[1] = h
      /\ \A k \in 2 .. Len(active) : active'[k] = active[k]
  BY <1>1, SwapHandler
<1>3. Len(active) \in Nat /\ Len(active) >= 1
  BY PopHandler
<1>4. active' # <<>>
  BY <1>2, <1>3
<1> QED
  BY <1>2, <1>3, <1>4

LEMMA ReturnStack ==
  ASSUME active \in Seq(Handler), active # <<>>, Return
  PROVE  /\ active' \in Seq(Handler) /\ Len(active') = Len(active) - 1
         /\ Len(active) \in Nat /\ Len(active) >= 1
         /\ \A k \in 1 .. Len(active') : active'[k] = active[k + 1]
<1>1. active' = Tail(active)
  BY DEF Return
<1> QED
  BY <1>1, PopHandler

LEMMA DesktopConstants ==
  /\ Width \in Nat /\ Height \in Nat /\ Byte \in Nat /\ WinX \in Nat /\ WinY \in Nat
  /\ WinW \in Nat /\ TitleH \in Nat /\ Margin \in Nat /\ ButtonTop \in Nat
  /\ ButtonEnd \in Nat /\ MaxPackets \in Nat /\ MaxNest \in Nat
  /\ Width >= 1 /\ Height >= 1 /\ Byte >= 64 /\ 2 * Margin <= WinW
  /\ \A m \in Moves : m[1] \in Int /\ m[2] \in Int
BY DesktopAssumption

LEMMA NoByteIsByte == NoByte \in MouseByte /\ NoPacket \in Packet \cup {NoPacket}
BY DEF NoByte, MouseByte

\* The value of a byte is one, the first byte of a packet has bit 3, and a movement is a number.
LEMMA ByteValues ==
  ASSUME NEW d \in MouseByte
  PROVE  Value(d) \in 0 .. (Byte - 1) /\ (d.place = 1 => Has(d, 8))
<1>1. d.of \in Packet \cup {NoPacket} /\ d.place \in 0 .. 3
  BY DEF MouseByte
<1>2. d.of.move[1] \in Int /\ d.of.move[2] \in Int
  BY <1>1, DesktopConstants DEF Packet, NoPacket
<1> DEFINE l == Flag(d.of.left, 1)
           u == Flag(d.of.move[1] < 0, 16)
           v == Flag(d.of.move[2] < 0, 32)
<1>3. l \in {0, 1} /\ u \in {0, 16} /\ v \in {0, 32}
  BY DEF Flag
<1>4. ASSUME NEW m \in Int
      PROVE  m % Byte \in 0 .. (Byte - 1)
  BY DesktopConstants
<1>5. d.place = 1 => Value(d) = 8 + l + u + v
  BY DEF Value
<1> HIDE DEF l, u, v
<1>6. CASE d.place = 1
  <2>1. (8 + l + u + v) \in 0 .. 63 /\ ((8 + l + u + v) \div 8) % 2 = 1
    BY <1>3
  <2> QED
    BY <1>5, <1>6, <2>1, DesktopConstants DEF Has
<1>7. CASE d.place = 2
  <2>1. Value(d) = d.of.move[1] % Byte
    BY <1>7 DEF Value
  <2> QED
    BY <1>2, <1>4, <1>7, <2>1
<1>8. CASE d.place = 3
  <2>1. Value(d) = d.of.move[2] % Byte
    BY <1>8 DEF Value
  <2> QED
    BY <1>2, <1>4, <1>8, <2>1
<1>9. CASE d.place = 0
  <2>1. Value(d) = 0
    BY <1>9 DEF Value
  <2> QED
    BY <1>9, <2>1, DesktopConstants
<1> QED
  BY <1>1, <1>6, <1>7, <1>8, <1>9

LEMMA TravelIsNumber ==
  ASSUME NEW f \in MouseByte, NEW bit, NEW d \in MouseByte
  PROVE  Travel(f, bit, d) \in Int
<1>1. Value(d) \in Int /\ Byte \in Int
  BY ByteValues, DesktopConstants
<1>2. Signed(Value(d)) \in Int
  BY <1>1 DEF Signed
<1>3. Flag(Has(f, bit), Byte) \in Int
  BY <1>1 DEF Flag
<1> QED
  BY <1>2, <1>3 DEF Travel

\* The places of a handler, told apart
LEMMA PlacesApart ==
  /\ Applying \subseteq Places
  /\ {"start", "read", "cycle", "store", "packet"} \cap Applying = {}
  /\ {"start", "read", "cycle", "store", "packet"} \subseteq Places
  /\ Applying = {"byte1", "x", "byte0", "byte2", "y", "addx", "addy", "clipx", "clipy", "frame",
                 "click", "px", "wx", "py", "wy", "buttonwy", "buttony", "again",
                 "grab", "graby", "grabx", "offx", "movex", "movey", "offy", "put"}
BY DEF Places, Applying, Loading, Adding, Looking, Dragging

\* Where the running handler is
LEMMA TopHandler ==
  ASSUME DesktopIndInv, NEW w, At(w)
  PROVE  /\ active \in Seq(Handler) /\ active # <<>> /\ me = active[1] /\ me \in Handler
         /\ me.at = w /\ Len(active) \in Nat /\ Len(active) >= 1
         /\ machine = "runs" /\ dpc # "text"
         /\ ~nested => Len(active) = 1 /\ HandlerInStep(me)
<1>1. active \in Seq(Handler) /\ active # <<>> /\ me.at = w /\ machine = "runs"
  BY DEF DesktopIndInv, DesktopTypes, At
<1>2. me = active[1] /\ me \in Handler /\ Len(active) \in Nat /\ Len(active) >= 1
  BY <1>1, PopHandler DEF me
<1>3. dpc # "text"
  BY <1>1 DEF DesktopIndInv, StackSound
<1>4. ASSUME ~nested
      PROVE  Len(active) = 1 /\ HandlerInStep(me)
  <2>1. HandlerInStep(active[1])
    BY <1>1, <1>4 DEF DesktopIndInv, InStep
  <2>2. Len(active) = 1
    <3>1. Len(active) <= 1
      BY <1>1, <1>4 DEF DesktopIndInv, InStep
    <3>2. Len(active) \in Nat /\ Len(active) >= 1
      BY <1>2
    <3>3. \A n \in Nat : n <= 1 /\ n >= 1 => n = 1
      OBVIOUS
    <3> QED
      BY <3>1, <3>2, <3>3, Zenon
  <2>3. HandlerInStep(me)
    BY <2>1, <1>2, Zenon
  <2> QED
    BY <2>2, <2>3
<1> QED
  BY <1>1, <1>2, <1>3, <1>4

LEMMA DesktopInitInv ==
  ASSUME DesktopInit
  PROVE  DesktopIndInv
<1>1. active = <<>> /\ Len(active) = 0
  BY DEF DesktopInit
<1>2. mouse_x \in 0 .. (Width - 1) /\ mouse_y \in 0 .. (Height - 1)
  <2>1. Width \div 2 \in 0 .. (Width - 1) /\ Height \div 2 \in 0 .. (Height - 1)
    BY DesktopConstants
  <2> QED
    BY <2>1 DEF DesktopInit
<1>3. mouse_byte \in [1 .. 3 -> MouseByte]
  BY NoByteIsByte DEF DesktopInit
<1>4. DesktopTypes
  <2>1. packet \in Packet \cup {NoPacket}
    BY NoByteIsByte DEF DesktopInit
  <2>2. /\ count \in 0 .. MaxPackets /\ sent \in 0 .. 3 /\ mouse_cycle \in 0 .. (Byte - 1)
        /\ win_x \in Int /\ win_y \in Int
        /\ drag_off_x \in 0 .. WinW /\ drag_off_y \in 0 .. TitleH
    BY DesktopConstants DEF DesktopInit
  <2>3. /\ nested \in BOOLEAN /\ crossed \in BOOLEAN /\ is_dragging \in BOOLEAN
        /\ frame_ready \in BOOLEAN
        /\ machine \in {"runs", "panicked", "wild"} /\ dpc \in {"text", "check", "clear", "hlt"}
    BY DEF DesktopInit
  <2>4. mouse_x \in Int /\ mouse_y \in Int
    BY <1>2, DesktopConstants
  <2>5. active \in Seq(Handler) /\ Len(active) <= MaxNest
    BY <1>1, DesktopConstants
  <2> QED
    BY <1>3, <2>1, <2>2, <2>3, <2>4, <2>5 DEF DesktopTypes, DesktopData
<1>5. StackSound /\ GrabsTitle /\ ClipsAhead
  BY <1>1, <1>2 DEF DesktopInit, StackSound, GrabsTitle, ClipsAhead
<1>6. InStep
  BY <1>1 DEF DesktopInit, InStep
<1>7. GripHeld
  BY <1>1 DEF DesktopInit, GripHeld, InGrip
<1> QED
  BY <1>4, <1>5, <1>6, <1>7 DEF DesktopIndInv

\* What a step of the running handler does to the stack: it goes on, or returns.
StackGoesOn(h) == Become(h) /\ h \in Handler /\ h.at # "start"

\* The part of such a step that is about the stack alone
LEMMA StackStep ==
  ASSUME DesktopIndInv, NEW w, At(w), DesktopData', dpc' = dpc,
         Return \/ \E h : StackGoesOn(h)
  PROVE  DesktopTypes' /\ StackSound'
<1>1. /\ active \in Seq(Handler) /\ active # <<>> /\ dpc # "text" /\ Len(active) \in Nat
      /\ Len(active) <= MaxNest /\ \A k \in 2 .. Len(active) : active[k].at # "start"
  BY TopHandler DEF DesktopIndInv, DesktopTypes, StackSound
<1>2. /\ active' \in Seq(Handler) /\ Len(active') <= MaxNest
      /\ \A k \in 1 .. Len(active') : active'[k].at # "start"
  <2>1. CASE Return
    <3>1. /\ active' \in Seq(Handler) /\ Len(active') = Len(active) - 1
          /\ \A k \in 1 .. Len(active') : active'[k] = active[k + 1]
      BY <2>1, <1>1, ReturnStack
    <3> QED
      BY <3>1, <1>1, DesktopConstants
  <2>2. ASSUME NEW h, StackGoesOn(h)
        PROVE  /\ active' \in Seq(Handler) /\ Len(active') <= MaxNest
               /\ \A k \in 1 .. Len(active') : active'[k].at # "start"
    <3>1. /\ active' \in Seq(Handler) /\ Len(active') = Len(active)
          /\ active'[1] = h /\ \A k \in 2 .. Len(active) : active'[k] = active[k]
      BY <2>2, <1>1, BecomeStack DEF StackGoesOn
    <3> QED
      BY <3>1, <2>2, <1>1 DEF StackGoesOn
  <2> QED
    BY <2>1, <2>2
<1>3. active' # <<>> => active'[1].at # "start"
  BY <1>2
<1>4. \A k \in 2 .. Len(active') : active'[k].at # "start"
  BY <1>2
<1> QED
  BY <1>1, <1>2, <1>3, <1>4 DEF DesktopTypes, StackSound

\* A step that leaves the pointer alone, of a handler that has no clip ahead of it
LEMMA ClipsStay ==
  ASSUME DesktopIndInv, NEW w, At(w), w \notin {"addy", "clipx", "clipy"}, UNCHANGED pointer,
         Return \/ \E h : StackGoesOn(h)
  PROVE  ClipsAhead'
<1>1. /\ active \in Seq(Handler) /\ active # <<>> /\ active[1].at = w
  BY TopHandler
<1>2. ASSUME NEW k \in 1 .. Len(active), OffX(active[k]) \/ OffY(active[k])
      PROVE  \E j \in 1 .. Len(active') : active'[j] = active[k]
  <2>1. k # 1
    BY <1>1, <1>2 DEF OffX, OffY
  <2>2. CASE Return
    <3>1. /\ Len(active') = Len(active) - 1 /\ Len(active) \in Nat
          /\ \A j \in 1 .. Len(active') : active'[j] = active[j + 1]
      BY <2>2, <1>1, ReturnStack
    <3>2. k - 1 \in 1 .. Len(active') /\ active'[k - 1] = active[k]
      BY <2>1, <3>1
    <3> QED
      BY <3>2
  <2>3. ASSUME NEW h, StackGoesOn(h)
        PROVE  \E j \in 1 .. Len(active') : active'[j] = active[k]
    <3>1. /\ Len(active') = Len(active) /\ Len(active) \in Nat
          /\ \A j \in 2 .. Len(active) : active'[j] = active[j]
      BY <2>3, <1>1, BecomeStack DEF StackGoesOn
    <3> QED
      BY <2>1, <3>1
  <2> QED
    BY <2>2, <2>3
<1>3. /\ mouse_x \in 0 .. (Width - 1) \/ \E k \in 1 .. Len(active) : OffX(active[k])
      /\ mouse_y \in 0 .. (Height - 1) \/ \E k \in 1 .. Len(active) : OffY(active[k])
  BY DEF DesktopIndInv, ClipsAhead
<1>4. mouse_x' = mouse_x /\ mouse_y' = mouse_y
  BY DEF pointer
<1>5. mouse_x' \in 0 .. (Width - 1) \/ \E k \in 1 .. Len(active') : OffX(active'[k])
  BY <1>2, <1>3, <1>4
<1>6. mouse_y' \in 0 .. (Height - 1) \/ \E k \in 1 .. Len(active') : OffY(active'[k])
  BY <1>2, <1>3, <1>4
<1> QED
  BY <1>5, <1>6 DEF ClipsAhead, OffX, OffY

\* A step that grabs nothing, or grabs on the title bar
LEMMA GrabsStay ==
  ASSUME DesktopIndInv, active # <<>>,
         Return \/ \E h : StackGoesOn(h) /\ OnItsTitle(h)
  PROVE  GrabsTitle'
<1>1. active \in Seq(Handler) /\ \A k \in 1 .. Len(active) : OnItsTitle(active[k])
  BY DEF DesktopIndInv, DesktopTypes, GrabsTitle
<1>2. \A k \in 1 .. Len(active') : OnItsTitle(active'[k])
  <2>1. CASE Return
    <3>1. /\ Len(active') = Len(active) - 1 /\ Len(active) \in Nat
          /\ \A j \in 1 .. Len(active') : active'[j] = active[j + 1]
      BY <2>1, <1>1, ReturnStack
    <3>2. ASSUME NEW k \in 1 .. Len(active')
          PROVE  OnItsTitle(active'[k])
      <4>1. k + 1 \in 1 .. Len(active) /\ active'[k] = active[k + 1]
        BY <3>1
      <4> QED
        BY <4>1, <1>1
    <3> QED
      BY <3>2
  <2>2. ASSUME NEW h, StackGoesOn(h), OnItsTitle(h)
        PROVE  \A k \in 1 .. Len(active') : OnItsTitle(active'[k])
    <3>1. /\ Len(active') = Len(active) /\ Len(active) \in Nat /\ active'[1] = h
          /\ \A j \in 2 .. Len(active) : active'[j] = active[j]
      BY <2>2, <1>1, BecomeStack DEF StackGoesOn
    <3> QED
      BY <2>2, <3>1, <1>1
  <2> QED
    BY <2>1, <2>2
<1> QED
  BY <1>2 DEF GrabsTitle, OnItsTitle

LEMMA TopOnTitle ==
  ASSUME DesktopIndInv, NEW w, At(w)
  PROVE  OnItsTitle(me)
<1>1. me = active[1] /\ Len(active) >= 1 /\ Len(active) \in Nat
  BY TopHandler
<1>2. 1 \in 1 .. Len(active)
  BY <1>1
<1> QED
  BY <1>1, <1>2 DEF DesktopIndInv, GrabsTitle

\* A step inside the application of a packet, without nesting: the bytes are left alone.
LEMMA InStepStays ==
  ASSUME DesktopIndInv, NEW w \in Applying, At(w),
         UNCHANGED <<mouse, receiver, nested>>,
         \/ Return
         \/ \E h : StackGoesOn(h) /\ h.at \in Applying /\ (Taken(me) => Taken(h))
  PROVE  InStep'
<1> SUFFICES ASSUME ~nested
             PROVE  /\ Len(active') <= 1
                    /\ active' = <<>> => mouse_cycle' = sent' % 3 /\ (sent' < 3 => Stored(sent)')
                    /\ active' # <<>> => HandlerInStep(active[1])'
  BY DEF InStep
<1>1. active \in Seq(Handler) /\ active # <<>> /\ me.at = w /\ me = active[1]
  BY TopHandler
<1>2. HandlerInStep(me)
  BY TopHandler
<1>3. Len(active) = 1
  BY TopHandler
<1>4. mouse_cycle = 0 /\ Whole(mouse_byte) /\ sent \in {0, 3} /\ Taken(me)
  BY <1>1, <1>2 DEF HandlerInStep
<1>5. /\ mouse_cycle' = mouse_cycle /\ mouse_byte' = mouse_byte /\ sent' = sent
  BY DEF mouse, receiver
<1>6. CASE Return
  <2>1. Len(active') = 0 /\ active' \in Seq(Handler)
    BY <1>1, <1>3, <1>6, ReturnStack
  <2>2. active' = <<>>
    BY <2>1
  <2>3. sent' < 3 => Stored(sent)'
    BY <1>4, <1>5 DEF Stored
  <2>4. mouse_cycle' = sent' % 3
    BY <1>4, <1>5
  <2> QED
    BY <2>1, <2>2, <2>3, <2>4
<1>7. ASSUME NEW h, StackGoesOn(h), h.at \in Applying, Taken(me) => Taken(h)
      PROVE  Len(active') <= 1 /\ active' # <<>> /\ HandlerInStep(active[1])'
  <2>1. active' # <<>> /\ Len(active') = Len(active) /\ active'[1] = h
    BY <1>1, <1>7, BecomeStack DEF StackGoesOn
  <2>2. Taken(h)'
    BY <1>4, <1>5, <1>7 DEF Taken
  <2>3. Whole(mouse_byte)'
    BY <1>4, <1>5
  <2>4. h.at \notin {"start", "read", "cycle", "store", "packet"}
    BY <1>7, PlacesApart
  <2>5. HandlerInStep(h)'
    BY <1>4, <1>5, <2>2, <2>3, <2>4 DEF HandlerInStep
  <2>6. HandlerInStep(active[1])'
    BY <2>1, <2>5
  <2> QED
    BY <1>3, <2>1, <2>6
<1> QED
  BY <1>6, <1>7

\* The running handler is the only one that applies a packet, unless packets cross.
LEMMA AloneUnlessCrossed ==
  ASSUME DesktopIndInv, NEW w \in Applying, At(w), ~crossed
  PROVE  Knows(me) /\ \A k \in 2 .. Len(active) : active[k].at \notin Applying
<1>1. active \in Seq(Handler) /\ me = active[1] /\ me.at = w /\ Len(active) >= 1 /\ Len(active) \in Nat
  BY TopHandler
<1>2. 1 \in 1 .. Len(active) /\ Applies(1)
  BY <1>1 DEF Applies
<1>3. /\ \A j, k \in 1 .. Len(active) : Applies(j) /\ Applies(k) => j = k
      /\ \A k \in 1 .. Len(active) : Applies(k) => Knows(active[k])
  BY DEF DesktopIndInv, GripHeld
<1>4. Knows(me)
  BY <1>1, <1>2, <1>3
<1>5. ASSUME NEW k \in 2 .. Len(active)
      PROVE  active[k].at \notin Applying
  BY <1>1, <1>2, <1>3 DEF Applies
<1> QED
  BY <1>4, <1>5

\* A step inside the application of a packet, as to the window
LEMMA GripStays ==
  ASSUME DesktopIndInv, NEW w \in Applying, At(w), crossed' = crossed,
         \/ Return /\ (Knows(me) => InGrip')
         \/ \E h : StackGoesOn(h) /\ h.at \in Applying /\ (Knows(me) => Knows(h)')
  PROVE  GripHeld'
<1> SUFFICES ASSUME ~crossed
             PROVE  /\ \A j, k \in 1 .. Len(active') : Applies(j)' /\ Applies(k)' => j = k
                    /\ (\A k \in 1 .. Len(active') : ~Applies(k)') => InGrip'
                    /\ \A k \in 1 .. Len(active') : Applies(k)' => Knows(active[k])'
  BY DEF GripHeld
<1>1. active \in Seq(Handler) /\ active # <<>> /\ Len(active) \in Nat /\ Len(active) >= 1
  BY TopHandler
<1>2. Knows(me) /\ \A k \in 2 .. Len(active) : active[k].at \notin Applying
  BY AloneUnlessCrossed
<1>3. CASE Return /\ (Knows(me) => InGrip')
  <2>1. /\ Len(active') = Len(active) - 1
        /\ \A k \in 1 .. Len(active') : active'[k] = active[k + 1]
    BY <1>1, <1>3, ReturnStack
  <2>2. \A k \in 1 .. Len(active') : ~Applies(k)'
    BY <1>1, <1>2, <2>1 DEF Applies
  <2> QED
    BY <1>2, <1>3, <2>2
<1>4. ASSUME NEW h, StackGoesOn(h), h.at \in Applying, Knows(me) => Knows(h)'
      PROVE  /\ \A j, k \in 1 .. Len(active') : Applies(j)' /\ Applies(k)' => j = k
             /\ (\A k \in 1 .. Len(active') : ~Applies(k)') => InGrip'
             /\ \A k \in 1 .. Len(active') : Applies(k)' => Knows(active[k])'
  <2>1. /\ Len(active') = Len(active) /\ active'[1] = h
        /\ \A k \in 2 .. Len(active) : active'[k] = active[k]
    BY <1>1, <1>4, BecomeStack DEF StackGoesOn
  <2>2. \A k \in 2 .. Len(active') : ~Applies(k)'
    BY <1>2, <2>1 DEF Applies
  <2>3. 1 \in 1 .. Len(active') /\ Applies(1)'
    BY <1>1, <1>4, <2>1 DEF Applies
  <2>4. Knows(active[1])'
    BY <1>2, <1>4, <2>1 DEF Knows
  <2>5. \A k \in 1 .. Len(active') : k = 1 \/ k \in 2 .. Len(active')
    BY <1>1, <2>1
  <2> QED
    BY <2>2, <2>3, <2>4, <2>5
<1> QED
  BY <1>3, <1>4

\* A step inside the application of a packet keeps the invariant, if it hands on what the
\* handler knows, clips what it has added, and grabs the title bar.
LEMMA ApplyingStep ==
  ASSUME DesktopIndInv, NEW w \in Applying, At(w), DesktopData', ClipsAhead',
         UNCHANGED <<mouse, receiver, history, loop>>,
         \/ Return /\ (Knows(me) => InGrip')
         \/ \E h \in Handler :
              /\ Become(h) /\ h.at \in Applying /\ OnItsTitle(h)
              /\ Knows(me) => Knows(h)'
              /\ Taken(me) => Taken(h)
  PROVE  DesktopIndInv'
<1>1. Return \/ \E h : StackGoesOn(h) /\ OnItsTitle(h)
  BY PlacesApart DEF StackGoesOn
<1>2. \/ Return
      \/ \E h : StackGoesOn(h) /\ h.at \in Applying /\ (Taken(me) => Taken(h))
  BY PlacesApart DEF StackGoesOn
<1>3. \/ Return /\ (Knows(me) => InGrip')
      \/ \E h : StackGoesOn(h) /\ h.at \in Applying /\ (Knows(me) => Knows(h)')
  BY PlacesApart DEF StackGoesOn
<1>4. dpc' = dpc /\ crossed' = crossed /\ nested' = nested
  BY DEF loop, history
<1>5. active # <<>>
  BY TopHandler
<1>6. DesktopTypes' /\ StackSound'
  BY <1>1, <1>4, StackStep
<1>7. InStep'
  BY <1>2, <1>4, InStepStays
<1>8. GrabsTitle'
  BY <1>1, <1>5, GrabsStay
<1>9. GripHeld'
  BY <1>3, <1>4, GripStays
<1> QED
  BY <1>6, <1>7, <1>8, <1>9 DEF DesktopIndInv

\* A handler fills a register and goes on.
LEMMA LoadStep ==
  ASSUME DesktopIndInv, NEW w \in Applying, w \notin {"addy", "clipx", "clipy"}, At(w),
         NEW h \in Handler, Become(h), h.at \in Applying, OnItsTitle(h),
         Knows(me) => Knows(h), Taken(me) => Taken(h),
         UNCHANGED <<mouse, receiver, history, window, frame_ready, loop>>
  PROVE  DesktopIndInv'
<1>1. /\ UNCHANGED <<packet, count, sent, mouse_cycle, mouse_byte, nested, crossed, mouse_x,
                     mouse_y, win_x, win_y, is_dragging, drag_off_x, drag_off_y, machine,
                     frame_ready, dpc, drawn>>
  BY DEF mouse, receiver, history, window, pointer, grip, loop
<1>2. DesktopData'
  BY <1>1 DEF DesktopIndInv, DesktopTypes, DesktopData
<1>3. Knows(me) => Knows(h)'
  BY <1>1 DEF Knows
<1>4. StackGoesOn(h)
  BY PlacesApart DEF StackGoesOn
<1>5. ClipsAhead'
  BY <1>4, ClipsStay DEF window
<1> QED
  BY <1>2, <1>3, <1>5, ApplyingStep

\* A handler has looked, and returns.
LEMMA DoneStep ==
  ASSUME DesktopIndInv, NEW w \in Applying, w \notin {"addy", "clipx", "clipy"}, At(w), Return,
         Knows(me) => ~is_dragging,
         UNCHANGED <<mouse, receiver, history, window, frame_ready, loop>>
  PROVE  DesktopIndInv'
<1>1. /\ UNCHANGED <<packet, count, sent, mouse_cycle, mouse_byte, nested, crossed, mouse_x,
                     mouse_y, win_x, win_y, is_dragging, drag_off_x, drag_off_y, machine,
                     frame_ready, dpc, drawn>>
  BY DEF mouse, receiver, history, window, pointer, grip, loop
<1>2. DesktopData'
  BY <1>1 DEF DesktopIndInv, DesktopTypes, DesktopData
<1>3. Knows(me) => InGrip'
  BY <1>1 DEF InGrip
<1>4. ClipsAhead'
  BY ClipsStay DEF window
<1> QED
  BY <1>2, <1>3, <1>4, ApplyingStep

LEMMA LoadPacketStep ==
  ASSUME DesktopIndInv, LoadPacket
  PROVE  DesktopIndInv'
<1>1. mouse_byte \in [1 .. 3 -> MouseByte] /\ mouse_x \in Int /\ mouse_y \in Int
  BY DEF DesktopIndInv, DesktopTypes, DesktopData
<1>2. {"byte1", "x", "byte0", "byte2", "y", "addx"} \subseteq Applying /\ Applying \subseteq Places
  BY PlacesApart
<1>3. CASE Load("byte1", [me EXCEPT !.at = "x", !.b[2] = mouse_byte[2]])
  <2>1. me \in Handler /\ me.at = "byte1"
    BY <1>3, TopHandler DEF Load
  <2>2. PICK h \in Handler : h = [me EXCEPT !.at = "x", !.b[2] = mouse_byte[2]]
    BY <1>1, <1>2, <2>1 DEF Handler
  <2>3. h.at = "x" /\ h.b[2] = mouse_byte[2]
    BY <2>1, <2>2 DEF Handler
  <2>4. OnItsTitle(h) /\ Knows(h) /\ Taken(h)
    BY <2>3 DEF OnItsTitle, Knows, Taken
  <2> QED
    BY <1>2, <1>3, <2>2, <2>3, <2>4, LoadStep DEF Load
<1>4. CASE Load("x", [me EXCEPT !.at = "byte0", !.x = mouse_x])
  <2>1. me \in Handler /\ me.at = "x"
    BY <1>4, TopHandler DEF Load
  <2>2. PICK h \in Handler : h = [me EXCEPT !.at = "byte0", !.x = mouse_x]
    BY <1>1, <1>2, <2>1 DEF Handler
  <2>3. h.at = "byte0" /\ h.b = me.b
    BY <2>1, <2>2 DEF Handler
  <2>4. OnItsTitle(h) /\ Knows(h) /\ (Taken(me) => Taken(h))
    BY <2>1, <2>3 DEF OnItsTitle, Knows, Taken
  <2> QED
    BY <1>2, <1>4, <2>2, <2>3, <2>4, LoadStep DEF Load
<1>5. CASE Load("byte0", [me EXCEPT !.at = "byte2", !.b[1] = mouse_byte[1]])
  <2>1. me \in Handler /\ me.at = "byte0"
    BY <1>5, TopHandler DEF Load
  <2>2. PICK h \in Handler : h = [me EXCEPT !.at = "byte2", !.b[1] = mouse_byte[1]]
    BY <1>1, <1>2, <2>1 DEF Handler
  <2>3. h.at = "byte2" /\ h.b[1] = mouse_byte[1] /\ h.b[2] = me.b[2]
    BY <2>1, <2>2 DEF Handler
  <2>4. OnItsTitle(h) /\ Knows(h) /\ (Taken(me) => Taken(h))
    BY <2>1, <2>3 DEF OnItsTitle, Knows, Taken
  <2> QED
    BY <1>2, <1>5, <2>2, <2>3, <2>4, LoadStep DEF Load
<1>6. CASE Load("byte2", [me EXCEPT !.at = "y", !.b[3] = mouse_byte[3]])
  <2>1. me \in Handler /\ me.at = "byte2"
    BY <1>6, TopHandler DEF Load
  <2>2. PICK h \in Handler : h = [me EXCEPT !.at = "y", !.b[3] = mouse_byte[3]]
    BY <1>1, <1>2, <2>1 DEF Handler
  <2>3. h.at = "y" /\ h.b[3] = mouse_byte[3] /\ h.b[1] = me.b[1] /\ h.b[2] = me.b[2]
    BY <2>1, <2>2 DEF Handler
  <2>4. OnItsTitle(h) /\ Knows(h) /\ (Taken(me) => Taken(h))
    BY <2>1, <2>3 DEF OnItsTitle, Knows, Taken
  <2> QED
    BY <1>2, <1>6, <2>2, <2>3, <2>4, LoadStep DEF Load
<1>7. CASE Load("y", [me EXCEPT !.at = "addx", !.y = mouse_y])
  <2>1. me \in Handler /\ me.at = "y"
    BY <1>7, TopHandler DEF Load
  <2>2. PICK h \in Handler : h = [me EXCEPT !.at = "addx", !.y = mouse_y]
    BY <1>1, <1>2, <2>1 DEF Handler
  <2>3. h.at = "addx" /\ h.b = me.b
    BY <2>1, <2>2 DEF Handler
  <2>4. OnItsTitle(h) /\ Knows(h) /\ (Taken(me) => Taken(h))
    BY <2>1, <2>3 DEF OnItsTitle, Knows, Taken
  <2> QED
    BY <1>2, <1>7, <2>2, <2>3, <2>4, LoadStep DEF Load
<1> QED
  BY <1>3, <1>4, <1>5, <1>6, <1>7 DEF LoadPacket

\* A step that moves the pointer
LEMMA ClipsMove ==
  ASSUME DesktopIndInv, NEW w, At(w), NEW h \in Handler, Become(h),
         \/ mouse_x' \in 0 .. (Width - 1) \/ OffX(h) \/ (mouse_x' = mouse_x /\ ~OffX(me)),
         \/ mouse_y' \in 0 .. (Height - 1) \/ OffY(h) \/ (mouse_y' = mouse_y /\ ~OffY(me))
  PROVE  ClipsAhead'
<1>1. active \in Seq(Handler) /\ active # <<>> /\ me = active[1]
  BY TopHandler
<1>2. /\ Len(active') = Len(active) /\ active'[1] = h /\ Len(active) \in Nat /\ Len(active) >= 1
      /\ \A k \in 2 .. Len(active) : active'[k] = active[k]
  BY <1>1, BecomeStack
<1>3. /\ mouse_x \in 0 .. (Width - 1) \/ \E k \in 1 .. Len(active) : OffX(active[k])
      /\ mouse_y \in 0 .. (Height - 1) \/ \E k \in 1 .. Len(active) : OffY(active[k])
  BY DEF DesktopIndInv, ClipsAhead
<1>4. mouse_x' \in 0 .. (Width - 1) \/ \E k \in 1 .. Len(active') : OffX(active'[k])
  <2>1. CASE OffX(h)
    <3>1. 1 \in 1 .. Len(active') /\ OffX(active'[1])
      BY <2>1, <1>2
    <3> QED
      BY <3>1
  <2>2. ASSUME ~OffX(me), NEW k \in 1 .. Len(active), OffX(active[k])
        PROVE  \E j \in 1 .. Len(active') : OffX(active'[j])
    <3>1. k # 1
      BY <2>2, <1>1
    <3>2. k \in 1 .. Len(active') /\ active'[k] = active[k]
      BY <3>1, <1>2
    <3> QED
      BY <3>2, <2>2
  <2> QED
    BY <1>3, <2>1, <2>2
<1>5. mouse_y' \in 0 .. (Height - 1) \/ \E k \in 1 .. Len(active') : OffY(active'[k])
  <2>1. CASE OffY(h)
    <3>1. 1 \in 1 .. Len(active') /\ OffY(active'[1])
      BY <2>1, <1>2
    <3> QED
      BY <3>1
  <2>2. ASSUME ~OffY(me), NEW k \in 1 .. Len(active), OffY(active[k])
        PROVE  \E j \in 1 .. Len(active') : OffY(active'[j])
    <3>1. k # 1
      BY <2>2, <1>1
    <3>2. k \in 1 .. Len(active') /\ active'[k] = active[k]
      BY <3>1, <1>2
    <3> QED
      BY <3>2, <2>2
  <2> QED
    BY <1>3, <2>1, <2>2
<1> QED
  BY <1>4, <1>5 DEF ClipsAhead, OffX, OffY

\* A step that moves the pointer and nothing else, with registers that claim nothing of it
LEMMA PointerStep ==
  ASSUME DesktopIndInv, NEW w \in Applying, At(w), NEW h \in Handler, Become(h),
         h.at \in {"addy", "clipx", "clipy", "frame"}, mouse_x' \in Int, mouse_y' \in Int,
         UNCHANGED <<mouse, receiver, history, win_x, win_y, grip, machine, frame_ready, loop>>,
         \/ mouse_x' \in 0 .. (Width - 1) \/ OffX(h) \/ (mouse_x' = mouse_x /\ ~OffX(me)),
         \/ mouse_y' \in 0 .. (Height - 1) \/ OffY(h) \/ (mouse_y' = mouse_y /\ ~OffY(me))
  PROVE  DesktopIndInv'
<1>1. /\ UNCHANGED <<packet, count, sent, mouse_cycle, mouse_byte, nested, crossed, win_x, win_y,
                     is_dragging, drag_off_x, drag_off_y, machine, frame_ready, dpc, drawn>>
  BY DEF mouse, receiver, history, grip, loop
<1>2. DesktopData'
  BY <1>1 DEF DesktopIndInv, DesktopTypes, DesktopData
<1>3. OnItsTitle(h) /\ Knows(h)' /\ Taken(h) /\ h.at \in Applying
  BY PlacesApart DEF OnItsTitle, Knows, Taken
<1>4. ClipsAhead'
  BY ClipsMove
<1> QED
  BY <1>2, <1>3, <1>4, ApplyingStep

LEMMA MovePointerStep ==
  ASSUME DesktopIndInv, MovePointer
  PROVE  DesktopIndInv'
<1>1. /\ mouse_x \in Int /\ mouse_y \in Int /\ Width \in Nat /\ Height \in Nat
      /\ Width >= 1 /\ Height >= 1
  BY DesktopConstants DEF DesktopIndInv, DesktopTypes, DesktopData
<1>2. /\ {"addx", "addy", "clipx", "clipy", "frame", "click"} \subseteq Applying
      /\ Applying \subseteq Places
  BY PlacesApart
<1>3. CASE AddX
  <2>1. me \in Handler /\ me.at = "addx"
    BY <1>3, TopHandler DEF AddX
  <2>2. PICK v \in Int : v = me.x + Travel(me.b[1], 16, me.b[2])
    <3>1. me.x \in Int /\ me.b[1] \in MouseByte /\ me.b[2] \in MouseByte
      BY <2>1 DEF Handler
    <3>2. Travel(me.b[1], 16, me.b[2]) \in Int
      BY <3>1, TravelIsNumber
    <3> QED
      BY <3>1, <3>2
  <2>3. PICK h \in Handler : h = [me EXCEPT !.at = "addy", !.x = v]
    BY <1>2, <2>1, <2>2 DEF Handler
  <2>4. h.at = "addy" /\ h.x = v
    BY <2>1, <2>3 DEF Handler
  <2>5. mouse_x' = v /\ mouse_y' = mouse_y /\ Become(h)
    BY <1>3, <2>2, <2>3 DEF AddX
  <2>6. mouse_x' \in 0 .. (Width - 1) \/ OffX(h)
    BY <2>4, <2>5 DEF OffX
  <2>7. ~OffY(me)
    BY <2>1 DEF OffY
  <2>8. UNCHANGED <<mouse, receiver, history, win_x, win_y, grip, machine, frame_ready, loop>>
    BY <1>3 DEF AddX
  <2> QED
    BY <1>1, <1>2, <1>3, <2>3, <2>4, <2>5, <2>6, <2>7, <2>8, PointerStep DEF AddX
<1>4. CASE AddY
  <2>1. me \in Handler /\ me.at = "addy"
    BY <1>4, TopHandler DEF AddY
  <2>2. PICK v \in Int : v = me.y - Travel(me.b[1], 32, me.b[3])
    <3>1. me.y \in Int /\ me.b[1] \in MouseByte /\ me.b[3] \in MouseByte
      BY <2>1 DEF Handler
    <3>2. Travel(me.b[1], 32, me.b[3]) \in Int
      BY <3>1, TravelIsNumber
    <3> QED
      BY <3>1, <3>2
  <2>3. PICK h \in Handler : h = [me EXCEPT !.at = "clipx", !.y = v]
    BY <1>2, <2>1, <2>2 DEF Handler
  <2>4. h.at = "clipx" /\ h.y = v /\ h.x = me.x
    BY <2>1, <2>3 DEF Handler
  <2>5. mouse_y' = v /\ mouse_x' = mouse_x /\ Become(h)
    BY <1>4, <2>2, <2>3 DEF AddY
  <2>6. mouse_y' \in 0 .. (Height - 1) \/ OffY(h)
    BY <2>4, <2>5 DEF OffY
  <2>7. OffX(h) \/ ~OffX(me)
    BY <2>1, <2>4 DEF OffX
  <2>8. UNCHANGED <<mouse, receiver, history, win_x, win_y, grip, machine, frame_ready, loop>>
    BY <1>4 DEF AddY
  <2> QED
    BY <1>1, <1>2, <1>4, <2>3, <2>4, <2>5, <2>6, <2>7, <2>8, PointerStep DEF AddY
<1>5. CASE ClipX
  <2>1. me \in Handler /\ me.at = "clipx"
    BY <1>5, TopHandler DEF ClipX
  <2>2. PICK h \in Handler : h = [me EXCEPT !.at = "clipy"]
    BY <1>2, <2>1 DEF Handler
  <2>3. h.at = "clipy" /\ h.y = me.y /\ me.x \in Int
    BY <2>1, <2>2 DEF Handler
  <2>4. mouse_y' = mouse_y /\ Become(h)
    BY <1>5, <2>2 DEF ClipX, Goto
  <2>5. mouse_x' \in 0 .. (Width - 1) \/ (mouse_x' = mouse_x /\ ~OffX(me))
    BY <1>1, <1>5, <2>3 DEF ClipX, Clipped, OffX
  <2>6. OffY(h) \/ ~OffY(me)
    BY <2>1, <2>3 DEF OffY
  <2>7. UNCHANGED <<mouse, receiver, history, win_x, win_y, grip, machine, frame_ready, loop>>
    BY <1>5 DEF ClipX
  <2>8. mouse_x' \in Int /\ mouse_y' \in Int
    BY <1>1, <2>4, <2>5
  <2>9. At("clipx") /\ "clipx" \in Applying
    BY <1>2, <1>5 DEF ClipX
  <2> QED
    BY <2>2, <2>3, <2>4, <2>5, <2>6, <2>7, <2>8, <2>9, PointerStep
<1>6. CASE ClipY
  <2>1. me \in Handler /\ me.at = "clipy"
    BY <1>6, TopHandler DEF ClipY
  <2>2. PICK h \in Handler : h = [me EXCEPT !.at = "frame"]
    BY <1>2, <2>1 DEF Handler
  <2>3. h.at = "frame" /\ me.y \in Int
    BY <2>1, <2>2 DEF Handler
  <2>4. mouse_x' = mouse_x /\ Become(h)
    BY <1>6, <2>2 DEF ClipY, Goto
  <2>5. mouse_y' \in 0 .. (Height - 1) \/ (mouse_y' = mouse_y /\ ~OffY(me))
    BY <1>1, <1>6, <2>3 DEF ClipY, Clipped, OffY
  <2>6. ~OffX(me)
    BY <2>1 DEF OffX
  <2>7. UNCHANGED <<mouse, receiver, history, win_x, win_y, grip, machine, frame_ready, loop>>
    BY <1>6 DEF ClipY
  <2>8. mouse_x' \in Int /\ mouse_y' \in Int
    BY <1>1, <2>4, <2>5
  <2>9. At("clipy") /\ "clipy" \in Applying
    BY <1>2, <1>6 DEF ClipY
  <2> QED
    BY <2>2, <2>3, <2>4, <2>5, <2>6, <2>7, <2>8, <2>9, PointerStep
<1>7. CASE AskFrame
  <2>1. me \in Handler /\ me.at = "frame"
    BY <1>7, TopHandler DEF AskFrame
  <2>2. PICK h \in Handler : h = [me EXCEPT !.at = "click"]
    BY <1>2, <2>1 DEF Handler
  <2>3. h.at = "click"
    BY <2>1, <2>2 DEF Handler
  <2>4. Become(h) /\ StackGoesOn(h)
    BY <1>7, <2>2, <2>3 DEF AskFrame, Goto, StackGoesOn
  <2>5. OnItsTitle(h) /\ Knows(h)' /\ Taken(h)
    BY <2>3 DEF OnItsTitle, Knows, Taken
  <2>6. ClipsAhead'
    BY <1>7, <2>1, <2>4, ClipsStay DEF AskFrame, window
  <2>7. DesktopData'
    BY <1>7 DEF AskFrame, DesktopIndInv, DesktopTypes, DesktopData, mouse, receiver, history,
         window, pointer, grip, loop
  <2> QED
    BY <1>2, <1>7, <2>3, <2>4, <2>5, <2>6, <2>7, ApplyingStep DEF AskFrame
<1> QED
  BY <1>3, <1>4, <1>5, <1>6, <1>7, LoadPacketStep DEF MovePointer

LEMMA ReleaseStep ==
  ASSUME DesktopIndInv, Release
  PROVE  DesktopIndInv'
<1>1. At("click") /\ "click" \in Applying
  BY PlacesApart DEF Release
<1>2. /\ is_dragging' = FALSE /\ Return
      /\ UNCHANGED <<mouse, receiver, history, loop>>
      /\ UNCHANGED <<packet, count, sent, mouse_cycle, mouse_byte, nested, crossed, mouse_x,
                     mouse_y, win_x, win_y, drag_off_x, drag_off_y, machine, frame_ready, dpc>>
  BY DEF Release, mouse, receiver, history, pointer, loop
<1>3. DesktopData'
  BY <1>2 DEF DesktopIndInv, DesktopTypes, DesktopData
<1>4. InGrip'
  BY <1>2 DEF InGrip
<1>5. ClipsAhead'
  BY <1>1, <1>2, ClipsStay DEF pointer
<1> QED
  BY <1>1, <1>2, <1>3, <1>4, <1>5, ApplyingStep

\* Where the title bar leads
LEMMA AfterTitleIs ==
  ASSUME NEW h \in Handler, NEW drags \in BOOLEAN
  PROVE  /\ AfterTitle(h, drags) \in {"offx", "again", "buttonwy", "done"}
         /\ AfterTitle(h, drags) = "done" => ~drags
BY DEF AfterTitle

LEMMA LookAtTitleStep ==
  ASSUME DesktopIndInv, LookAtTitle
  PROVE  DesktopIndInv'
<1>1. /\ mouse_x \in Int /\ mouse_y \in Int /\ win_x \in Int /\ win_y \in Int
      /\ WinW \in Nat /\ TitleH \in Nat
  BY DesktopConstants DEF DesktopIndInv, DesktopTypes, DesktopData
<1>2. is_dragging \in BOOLEAN
  BY DEF DesktopIndInv, DesktopTypes, DesktopData
<1>3. /\ {"click", "px", "wx", "py", "wy", "grab", "offx", "again", "buttonwy"} \subseteq Applying
      /\ Applying \subseteq Places /\ "done" \notin Applying
  BY PlacesApart
<1>4. CASE Load("click", [me EXCEPT !.at = "px", !.held = is_dragging])
  <2>1. me \in Handler /\ me.at = "click"
    BY <1>4, TopHandler DEF Load
  <2>2. PICK h \in Handler : h = [me EXCEPT !.at = "px", !.held = is_dragging]
    BY <1>2, <1>3, <2>1 DEF Handler
  <2>3. h.at = "px" /\ h.held = is_dragging
    BY <2>1, <2>2 DEF Handler
  <2>4. OnItsTitle(h) /\ Knows(h) /\ Taken(h)
    BY <2>3 DEF OnItsTitle, Knows, Taken
  <2> QED
    BY <1>3, <1>4, <2>2, <2>3, <2>4, LoadStep DEF Load
<1>5. CASE Load("px", [me EXCEPT !.at = "wx", !.x = mouse_x])
  <2>1. me \in Handler /\ me.at = "px"
    BY <1>5, TopHandler DEF Load
  <2>2. PICK h \in Handler : h = [me EXCEPT !.at = "wx", !.x = mouse_x]
    BY <1>1, <1>3, <2>1 DEF Handler
  <2>3. h.at = "wx" /\ h.x = mouse_x /\ h.held = me.held
    BY <2>1, <2>2 DEF Handler
  <2>4. OnItsTitle(h) /\ (Knows(me) => Knows(h)) /\ Taken(h)
    BY <2>1, <2>3 DEF OnItsTitle, Knows, Taken
  <2> QED
    BY <1>3, <1>5, <2>2, <2>3, <2>4, LoadStep DEF Load
<1>6. ASSUME NEW g, g = [me EXCEPT !.wx = win_x], LoadAndGo("wx", g, AfterAbscissa(g))
      PROVE  DesktopIndInv'
  <2>1. me \in Handler /\ me.at = "wx" /\ At("wx")
    BY <1>6, TopHandler DEF LoadAndGo
  <2>2. g \in Handler /\ g.held = me.held /\ g.x = me.x /\ g.wx = win_x /\ g.at = "wx"
    BY <1>1, <1>6, <2>1 DEF Handler
  <2>3. PICK where : where = AfterAbscissa(g)
    OBVIOUS
  <2>4. /\ where \in {"py", "offx", "again", "buttonwy", "done"}
        /\ where \in {"py", "done"} => ~g.held
        /\ where = "py" => g.x \in g.wx .. (g.wx + WinW)
    <3>1. g.held \in BOOLEAN
      BY <2>2 DEF Handler
    <3>2. /\ AfterTitle(g, g.held) \in {"offx", "again", "buttonwy", "done"}
          /\ AfterTitle(g, g.held) = "done" => ~g.held
      BY <2>2, <3>1, AfterTitleIs
    <3> QED
      BY <2>3, <3>2 DEF AfterAbscissa
  <2>5. UNCHANGED <<mouse, receiver, history, window, frame_ready, loop>>
    BY <1>6 DEF LoadAndGo
  <2>6. CASE where = "done"
    <3>1. Return
      BY <1>6, <2>3, <2>6 DEF LoadAndGo
    <3>2. Knows(me) => ~is_dragging
      BY <2>1, <2>2, <2>4, <2>6 DEF Knows
    <3> QED
      BY <1>3, <2>1, <2>5, <3>1, <3>2, DoneStep
  <2>7. CASE where # "done"
    <3>1. PICK h \in Handler : h = [g EXCEPT !.at = where]
      BY <1>3, <2>2, <2>4, <2>7 DEF Handler
    <3>2. h.at = where /\ h.x = g.x /\ h.wx = g.wx /\ g.x \in Int /\ g.wx \in Int
      BY <2>2, <3>1 DEF Handler
    <3>3. OnItsTitle(h) /\ Taken(h)
      BY <1>1, <2>4, <3>2 DEF OnItsTitle, Taken
    <3>4. Knows(me) => Knows(h)
      BY <2>1, <2>2, <2>4, <3>2 DEF Knows
    <3>5. Become(h)
      BY <1>6, <2>3, <2>7, <3>1 DEF LoadAndGo
    <3> QED
      BY <1>3, <2>1, <2>4, <2>5, <2>7, <3>2, <3>3, <3>4, <3>5, LoadStep
  <2> QED
    BY <2>6, <2>7
<1>7. CASE Load("py", [me EXCEPT !.at = "wy", !.y = mouse_y])
  <2>1. me \in Handler /\ me.at = "py"
    BY <1>7, TopHandler DEF Load
  <2>2. PICK h \in Handler : h = [me EXCEPT !.at = "wy", !.y = mouse_y]
    BY <1>1, <1>3, <2>1 DEF Handler
  <2>3. h.at = "wy" /\ h.x = me.x /\ h.wx = me.wx
    BY <2>1, <2>2 DEF Handler
  <2>4. OnItsTitle(h) /\ (Knows(me) => Knows(h)) /\ Taken(h)
    <3>1. OnItsTitle(me)
      BY <1>7, TopOnTitle DEF Load
    <3> QED
      BY <2>1, <2>3, <3>1 DEF OnItsTitle, Knows, Taken
  <2> QED
    BY <1>3, <1>7, <2>2, <2>3, <2>4, LoadStep DEF Load
<1>8. ASSUME NEW g, g = [me EXCEPT !.wy = win_y], LoadAndGo("wy", g, AfterOrdinate(g))
      PROVE  DesktopIndInv'
  <2>1. me \in Handler /\ me.at = "wy" /\ At("wy")
    BY <1>8, TopHandler DEF LoadAndGo
  <2>2. g \in Handler /\ g.x = me.x /\ g.y = me.y /\ g.wx = me.wx /\ g.wy = win_y /\ g.at = "wy"
    BY <1>1, <1>8, <2>1 DEF Handler
  <2>3. PICK where : where = AfterOrdinate(g)
    OBVIOUS
  <2>4. /\ where \in {"grab", "offx", "again", "buttonwy", "done"}
        /\ where = "grab" => g.y \in g.wy .. (g.wy + TitleH)
    <3>1. AfterTitle(g, FALSE) \in {"offx", "again", "buttonwy", "done"}
      BY <2>2, AfterTitleIs
    <3> QED
      BY <2>3, <3>1 DEF AfterOrdinate
  <2>5. UNCHANGED <<mouse, receiver, history, window, frame_ready, loop>>
    BY <1>8 DEF LoadAndGo
  <2>6. CASE where = "done"
    <3>1. Return
      BY <1>8, <2>3, <2>6 DEF LoadAndGo
    <3>2. Knows(me) => ~is_dragging
      BY <2>1 DEF Knows
    <3> QED
      BY <1>3, <2>1, <2>5, <3>1, <3>2, DoneStep
  <2>7. CASE where # "done"
    <3>1. PICK h \in Handler : h = [g EXCEPT !.at = where]
      BY <1>3, <2>2, <2>4, <2>7 DEF Handler
    <3>2. h.at = where /\ h.x = g.x /\ h.y = g.y /\ h.wx = g.wx /\ h.wy = g.wy
      BY <2>2, <3>1 DEF Handler
    <3>3. Taken(h)
      BY <2>4, <3>2 DEF Taken
    <3>4. Knows(me) => Knows(h)
      BY <2>1, <2>2, <2>4, <3>2 DEF Knows
    <3>5. Become(h)
      BY <1>8, <2>3, <2>7, <3>1 DEF LoadAndGo
    <3>6. OnItsTitle(h)
      <4>1. OnItsTitle(me)
        BY <2>1, TopOnTitle
      <4>2. me.x - me.wx \in 0 .. WinW /\ h.y \in Int /\ h.wy \in Int
        BY <2>1, <4>1 DEF OnItsTitle, Handler
      <4> QED
        BY <1>1, <2>2, <2>4, <3>2, <4>2 DEF OnItsTitle
    <3> QED
      BY <1>3, <2>1, <2>4, <2>5, <2>7, <3>2, <3>3, <3>4, <3>5, <3>6, LoadStep
  <2> QED
    BY <2>6, <2>7
<1> QED
  BY <1>4, <1>5, <1>6, <1>7, <1>8 DEF LookAtTitle

LEMMA GrabWindowStep ==
  ASSUME DesktopIndInv, GrabWindow
  PROVE  DesktopIndInv'
<1>1. PICK w \in {"grab", "graby", "grabx"} : At(w)
  BY DEF GrabWindow
<1>2. /\ {"grab", "graby", "grabx", "offx", "again", "buttonwy"} \subseteq Applying
      /\ Applying \subseteq Places
  BY PlacesApart
<1>3. me \in Handler /\ me.at = w
  BY <1>1, TopHandler
<1>4. PICK to \in {"graby", "grabx", "offx", "again", "buttonwy"} :
         /\ Goto(to) /\ (to = "graby" => w = "grab") /\ (to = "grabx" => w = "graby")
  <2>1. AfterTitle(me, TRUE) \in {"offx", "again", "buttonwy"}
    BY <1>3, AfterTitleIs
  <2> QED
    BY <1>1, <1>3, <2>1 DEF GrabWindow, At
<1>5. /\ UNCHANGED <<mouse, receiver, history, loop>>
      /\ UNCHANGED <<packet, count, sent, mouse_cycle, mouse_byte, nested, crossed, mouse_x,
                     mouse_y, win_x, win_y, machine, frame_ready, dpc>>
  BY DEF GrabWindow, mouse, receiver, history, pointer, loop
<1>6. OnItsTitle(me)
  BY <1>1, TopOnTitle
<1>7. DesktopData'
  <2>1. is_dragging' \in BOOLEAN
    BY DEF GrabWindow, DesktopIndInv, DesktopTypes, DesktopData
  <2>2. me.x - me.wx \in 0 .. WinW /\ me.y - me.wy \in 0 .. TitleH
    BY <1>1, <1>3, <1>6 DEF OnItsTitle
  <2>3. drag_off_x' \in 0 .. WinW /\ drag_off_y' \in 0 .. TitleH
    BY <2>2 DEF GrabWindow, DesktopIndInv, DesktopTypes, DesktopData
  <2> QED
    BY <1>5, <2>1, <2>3 DEF DesktopIndInv, DesktopTypes, DesktopData
<1>8. PICK h \in Handler : h = [me EXCEPT !.at = to]
  BY <1>2, <1>3, <1>4 DEF Handler
<1>9. /\ h.at = to /\ h.x = me.x /\ h.y = me.y /\ h.wx = me.wx /\ h.wy = me.wy
  BY <1>3, <1>8 DEF Handler
<1>10. OnItsTitle(h) /\ Taken(h)
  BY <1>3, <1>4, <1>6, <1>9 DEF OnItsTitle, Taken
<1>11. Knows(me) => Knows(h)'
  BY <1>3, <1>4, <1>5, <1>9 DEF Knows
<1>12. Become(h) /\ StackGoesOn(h) /\ h.at \in Applying
  BY <1>2, <1>4, <1>8, <1>9 DEF Goto, StackGoesOn
<1>13. ClipsAhead'
  BY <1>1, <1>5, <1>12, ClipsStay DEF pointer
<1> QED
  BY <1>1, <1>2, <1>5, <1>7, <1>10, <1>11, <1>12, <1>13, ApplyingStep

LEMMA LookAtButtonStep ==
  ASSUME DesktopIndInv, LookAtButton
  PROVE  DesktopIndInv'
<1>1. mouse_y \in Int /\ win_y \in Int
  BY DEF DesktopIndInv, DesktopTypes, DesktopData
<1>2. /\ {"buttonwy", "buttony", "again", "offx"} \subseteq Applying
      /\ Applying \subseteq Places
  BY PlacesApart
<1>3. CASE Load("buttonwy", [me EXCEPT !.at = "buttony", !.wy = win_y])
  <2>1. me \in Handler /\ me.at = "buttonwy"
    BY <1>3, TopHandler DEF Load
  <2>2. PICK h \in Handler : h = [me EXCEPT !.at = "buttony", !.wy = win_y]
    BY <1>1, <1>2, <2>1 DEF Handler
  <2>3. h.at = "buttony" /\ h.x = me.x
    BY <2>1, <2>2 DEF Handler
  <2>4. OnItsTitle(h) /\ (Knows(me) => Knows(h)) /\ Taken(h)
    BY <2>1, <2>3 DEF OnItsTitle, Knows, Taken
  <2> QED
    BY <1>2, <1>3, <2>2, <2>3, <2>4, LoadStep DEF Load
<1>4. ASSUME At("buttony"), Become([me EXCEPT !.at = "again", !.y = mouse_y]),
             machine' \in {"runs", "panicked"},
             UNCHANGED <<mouse, receiver, history, pointer, win_x, win_y, grip, frame_ready, loop>>
      PROVE  DesktopIndInv'
  <2>1. me \in Handler /\ me.at = "buttony"
    BY <1>4, TopHandler
  <2>2. PICK h \in Handler : h = [me EXCEPT !.at = "again", !.y = mouse_y]
    BY <1>1, <1>2, <2>1 DEF Handler
  <2>3. h.at = "again" /\ h.x = me.x
    BY <2>1, <2>2 DEF Handler
  <2>4. OnItsTitle(h) /\ Taken(h)
    BY <2>3 DEF OnItsTitle, Taken
  <2>5. Knows(me) => Knows(h)'
    BY <1>4, <2>1, <2>3 DEF Knows, pointer
  <2>6. DesktopData'
    BY <1>4 DEF DesktopIndInv, DesktopTypes, DesktopData, mouse, receiver, history, pointer,
         grip, loop
  <2>7. Become(h) /\ StackGoesOn(h)
    BY <1>4, <2>2, <2>3 DEF StackGoesOn
  <2>8. ClipsAhead'
    BY <1>4, <2>7, ClipsStay
  <2> QED
    BY <1>2, <1>4, <2>3, <2>4, <2>5, <2>6, <2>7, <2>8, ApplyingStep
<1>5. CASE LoadAndGo("again", me, IF is_dragging THEN "offx" ELSE "done")
  <2>1. me \in Handler /\ me.at = "again" /\ At("again")
    BY <1>5, TopHandler DEF LoadAndGo
  <2>2. UNCHANGED <<mouse, receiver, history, window, frame_ready, loop>>
    BY <1>5 DEF LoadAndGo
  <2>3. CASE is_dragging
    <3>1. PICK h \in Handler : h = [me EXCEPT !.at = "offx"]
      BY <1>2, <2>1 DEF Handler
    <3>2. h.at = "offx" /\ h.x = me.x
      BY <2>1, <3>1 DEF Handler
    <3>3. OnItsTitle(h) /\ (Knows(me) => Knows(h)) /\ Taken(h)
      BY <2>1, <3>2 DEF OnItsTitle, Knows, Taken
    <3>4. Become(h)
      BY <1>5, <2>3, <3>1 DEF LoadAndGo
    <3> QED
      BY <1>2, <2>1, <2>2, <3>2, <3>3, <3>4, LoadStep
  <2>4. CASE ~is_dragging
    <3>1. Return
      BY <1>5, <2>4 DEF LoadAndGo
    <3> QED
      BY <1>2, <2>1, <2>2, <2>4, <3>1, DoneStep
  <2> QED
    BY <2>3, <2>4
<1>6. machine \in {"runs", "panicked"} \/ ~At("buttony")
  BY DEF At
<1> QED
  BY <1>3, <1>4, <1>5, <1>6 DEF LookAtButton

LEMMA MoveWindowStep ==
  ASSUME DesktopIndInv, MoveWindow
  PROVE  DesktopIndInv'
<1>1. /\ mouse_x \in Int /\ mouse_y \in Int /\ drag_off_x \in Int /\ drag_off_y \in Int
      /\ win_x \in Int /\ win_y \in Int
  BY DesktopConstants DEF DesktopIndInv, DesktopTypes, DesktopData
<1>2. /\ {"offx", "movex", "movey", "offy", "put"} \subseteq Applying
      /\ Applying \subseteq Places
  BY PlacesApart
<1>3. CASE Load("offx", [me EXCEPT !.at = "movex", !.x = me.x - drag_off_x])
  <2>1. me \in Handler /\ me.at = "offx"
    BY <1>3, TopHandler DEF Load
  <2>2. PICK h \in Handler : h = [me EXCEPT !.at = "movex", !.x = me.x - drag_off_x]
    <3>1. me.x - drag_off_x \in Int
      BY <1>1, <2>1 DEF Handler
    <3> QED
      BY <1>2, <2>1, <3>1 DEF Handler
  <2>3. h.at = "movex" /\ h.x = me.x - drag_off_x
    BY <2>1, <2>2 DEF Handler
  <2>4. OnItsTitle(h) /\ (Knows(me) => Knows(h)) /\ Taken(h)
    BY <2>1, <2>3 DEF OnItsTitle, Knows, Taken
  <2> QED
    BY <1>2, <1>3, <2>2, <2>3, <2>4, LoadStep DEF Load
<1>4. ASSUME At("movex"), Goto("movey"), win_x' = me.x,
             UNCHANGED <<mouse, receiver, history, pointer, win_y, grip, machine, frame_ready,
                         loop>>
      PROVE  DesktopIndInv'
  <2>1. me \in Handler /\ me.at = "movex" /\ me.x \in Int
    BY <1>4, TopHandler DEF Handler
  <2>2. PICK h \in Handler : h = [me EXCEPT !.at = "movey"]
    BY <1>2, <2>1 DEF Handler
  <2>3. h.at = "movey"
    BY <2>1, <2>2 DEF Handler
  <2>4. OnItsTitle(h) /\ Taken(h)
    BY <2>3 DEF OnItsTitle, Taken
  <2>5. Knows(me) => Knows(h)'
    BY <1>4, <2>1, <2>3 DEF Knows, pointer, grip
  <2>6. DesktopData'
    BY <1>4, <2>1 DEF DesktopIndInv, DesktopTypes, DesktopData, mouse, receiver, history, pointer,
         grip, loop
  <2>7. Become(h) /\ StackGoesOn(h)
    BY <1>4, <2>2, <2>3 DEF StackGoesOn, Goto
  <2>8. ClipsAhead'
    BY <1>4, <2>7, ClipsStay
  <2> QED
    BY <1>2, <1>4, <2>3, <2>4, <2>5, <2>6, <2>7, <2>8, ApplyingStep
<1>5. CASE Load("movey", [me EXCEPT !.at = "offy", !.y = mouse_y])
  <2>1. me \in Handler /\ me.at = "movey"
    BY <1>5, TopHandler DEF Load
  <2>2. PICK h \in Handler : h = [me EXCEPT !.at = "offy", !.y = mouse_y]
    BY <1>1, <1>2, <2>1 DEF Handler
  <2>3. h.at = "offy" /\ h.y = mouse_y
    BY <2>1, <2>2 DEF Handler
  <2>4. OnItsTitle(h) /\ (Knows(me) => Knows(h)) /\ Taken(h)
    BY <2>1, <2>3 DEF OnItsTitle, Knows, Taken
  <2> QED
    BY <1>2, <1>5, <2>2, <2>3, <2>4, LoadStep DEF Load
<1>6. CASE Load("offy", [me EXCEPT !.at = "put", !.y = me.y - drag_off_y])
  <2>1. me \in Handler /\ me.at = "offy"
    BY <1>6, TopHandler DEF Load
  <2>2. PICK h \in Handler : h = [me EXCEPT !.at = "put", !.y = me.y - drag_off_y]
    <3>1. me.y - drag_off_y \in Int
      BY <1>1, <2>1 DEF Handler
    <3> QED
      BY <1>2, <2>1, <3>1 DEF Handler
  <2>3. h.at = "put" /\ h.y = me.y - drag_off_y
    BY <2>1, <2>2 DEF Handler
  <2>4. OnItsTitle(h) /\ (Knows(me) => Knows(h)) /\ Taken(h)
    BY <2>1, <2>3 DEF OnItsTitle, Knows, Taken
  <2> QED
    BY <1>2, <1>6, <2>2, <2>3, <2>4, LoadStep DEF Load
<1>7. ASSUME At("put"), Return, win_y' = me.y,
             UNCHANGED <<mouse, receiver, history, pointer, win_x, grip, machine, frame_ready,
                         loop>>
      PROVE  DesktopIndInv'
  <2>1. me.at = "put" /\ me.y \in Int
    BY <1>7, TopHandler DEF Handler
  <2>2. DesktopData'
    BY <1>7, <2>1 DEF DesktopIndInv, DesktopTypes, DesktopData, mouse, receiver, history, pointer,
         grip, loop
  <2>3. Knows(me) => InGrip'
    <3>1. Knows(me) => win_x = mouse_x - drag_off_x /\ me.y = mouse_y - drag_off_y
      BY <2>1 DEF Knows
    <3>2. /\ win_x' = win_x /\ mouse_x' = mouse_x /\ mouse_y' = mouse_y
          /\ drag_off_x' = drag_off_x /\ drag_off_y' = drag_off_y
      BY <1>7 DEF pointer, grip
    <3> QED
      BY <1>1, <1>7, <3>1, <3>2 DEF InGrip
  <2>4. ClipsAhead'
    BY <1>7, ClipsStay
  <2> QED
    BY <1>2, <1>7, <2>2, <2>3, <2>4, ApplyingStep
<1> QED
  BY <1>3, <1>4, <1>5, <1>6, <1>7 DEF MoveWindow

\* A handler that has not come to the end of a packet leaves the window alone.
LEMMA ByteStepWindow ==
  ASSUME DesktopIndInv, NEW w \in {"start", "read", "cycle", "store", "packet"}, At(w),
         UNCHANGED <<crossed, pointer, win_x, win_y, grip>>,
         \/ Return
         \/ \E h : StackGoesOn(h) /\ h.at \notin Applying
  PROVE  ClipsAhead' /\ GrabsTitle' /\ GripHeld'
<1>1. /\ active \in Seq(Handler) /\ active # <<>> /\ Len(active) \in Nat /\ Len(active) >= 1
      /\ active[1].at = w
  BY TopHandler
<1>2. Return \/ \E h : StackGoesOn(h)
  OBVIOUS
<1>3. ClipsAhead'
  BY <1>2, ClipsStay
<1>4. GrabsTitle'
  <2>1. Return \/ \E h : StackGoesOn(h) /\ OnItsTitle(h)
    BY PlacesApart DEF OnItsTitle
  <2> QED
    BY <1>1, <2>1, GrabsStay
<1>5. GripHeld'
  <2> SUFFICES ASSUME ~crossed
               PROVE  /\ \A j, k \in 1 .. Len(active') : Applies(j)' /\ Applies(k)' => j = k
                      /\ (\A k \in 1 .. Len(active') : ~Applies(k)') => InGrip'
                      /\ \A k \in 1 .. Len(active') : Applies(k)' => Knows(active[k])'
    BY DEF GripHeld
  <2>1. /\ \A j, k \in 1 .. Len(active) : Applies(j) /\ Applies(k) => j = k
        /\ (\A k \in 1 .. Len(active) : ~Applies(k)) => InGrip
        /\ \A k \in 1 .. Len(active) : Applies(k) => Knows(active[k])
    BY DEF DesktopIndInv, GripHeld
  <2>2. ~Applies(1)
    BY <1>1, PlacesApart DEF Applies
  <2>3. InGrip' <=> InGrip
    BY DEF InGrip, pointer, grip
  <2>4. ASSUME NEW k \in 1 .. Len(active'), NEW j \in 1 .. Len(active), active'[k] = active[j]
        PROVE  (Applies(k)' <=> Applies(j)) /\ (Knows(active[k])' <=> Knows(active[j]))
    BY <2>4 DEF Applies, Knows, pointer, grip
  <2>5. CASE Return
    <3>1. /\ Len(active') = Len(active) - 1
          /\ \A k \in 1 .. Len(active') : active'[k] = active[k + 1]
      BY <1>1, <2>5, ReturnStack
    <3>2. \A k \in 1 .. Len(active') :
            /\ k + 1 \in 1 .. Len(active)
            /\ (Applies(k)' <=> Applies(k + 1))
            /\ (Knows(active[k])' <=> Knows(active[k + 1]))
      BY <1>1, <3>1, <2>4
    <3>3. \A k \in 1 .. Len(active) : k = 1 \/ (k - 1 \in 1 .. Len(active') /\ (k - 1) + 1 = k)
      BY <1>1, <3>1
    <3>4. \A j, k \in 1 .. Len(active') : Applies(j)' /\ Applies(k)' => j = k
      <4> SUFFICES ASSUME NEW j \in 1 .. Len(active'), NEW k \in 1 .. Len(active'),
                          Applies(j)', Applies(k)'
                   PROVE  j = k
        OBVIOUS
      <4>1. j + 1 = k + 1
        BY <2>1, <3>2
      <4> QED
        BY <4>1
    <3>5. (\A k \in 1 .. Len(active') : ~Applies(k)') => \A k \in 1 .. Len(active) : ~Applies(k)
      BY <2>2, <3>2, <3>3
    <3> QED
      BY <2>1, <2>3, <3>2, <3>4, <3>5
  <2>6. ASSUME NEW h, StackGoesOn(h), h.at \notin Applying
        PROVE  /\ \A j, k \in 1 .. Len(active') : Applies(j)' /\ Applies(k)' => j = k
               /\ (\A k \in 1 .. Len(active') : ~Applies(k)') => InGrip'
               /\ \A k \in 1 .. Len(active') : Applies(k)' => Knows(active[k])'
    <3>1. /\ Len(active') = Len(active) /\ active'[1] = h
          /\ \A k \in 2 .. Len(active) : active'[k] = active[k]
      BY <1>1, <2>6, BecomeStack DEF StackGoesOn
    <3>2. ~Applies(1)'
      BY <2>6, <3>1 DEF Applies
    <3>3. \A k \in 2 .. Len(active') :
            /\ k \in 1 .. Len(active)
            /\ (Applies(k)' <=> Applies(k))
            /\ (Knows(active[k])' <=> Knows(active[k]))
      BY <1>1, <3>1, <2>4
    <3>4. \A k \in 1 .. Len(active') : k = 1 \/ k \in 2 .. Len(active')
      BY <1>1, <3>1
    <3>5. (\A k \in 1 .. Len(active') : ~Applies(k)') => \A k \in 1 .. Len(active) : ~Applies(k)
      BY <2>2, <3>1, <3>3, <3>4
    <3> QED
      BY <2>1, <2>3, <3>2, <3>3, <3>4, <3>5
  <2> QED
    BY <2>5, <2>6
<1> QED
  BY <1>3, <1>4, <1>5

LEMMA ReadByteStep ==
  ASSUME DesktopIndInv, ReadByte
  PROVE  DesktopIndInv'
<1>1. /\ active \in Seq(Handler) /\ active # <<>> /\ me.at = "start" /\ me = active[1]
      /\ me \in Handler /\ Len(active) \in Nat
  BY TopHandler DEF ReadByte
<1>2. ~nested => Len(active) = 1 /\ HandlerInStep(me)
  BY TopHandler DEF ReadByte
<1>3. sent \in 0 .. 2 /\ sent' = sent + 1 /\ sent' \in 1 .. 3
  BY <1>1 DEF ReadByte, DesktopIndInv, DesktopTypes, DesktopData, StackSound
<1>4. PICK d \in MouseByte : d = ByteOf(sent + 1)
  <2>1. count % 2 \in {0, 1}
    BY DesktopConstants DEF DesktopIndInv, DesktopTypes, DesktopData
  <2>2. ByteOf(sent + 1) \in MouseByte
    BY <2>1, <1>3 DEF ByteOf, MouseByte, DesktopIndInv, DesktopTypes, DesktopData
  <2> QED
    BY <2>2
<1>5. PICK h \in Handler : h = [me EXCEPT !.at = "read", !.d = d]
  BY <1>1, <1>4, PlacesApart DEF Handler
<1>6. h.at = "read" /\ h.d = d
  BY <1>1, <1>5 DEF Handler
<1>7. /\ UNCHANGED <<packet, count, mouse_cycle, mouse_byte, nested, crossed, mouse_x, mouse_y,
                     win_x, win_y, is_dragging, drag_off_x, drag_off_y, machine, frame_ready,
                     dpc, drawn>>
      /\ UNCHANGED <<crossed, pointer, win_x, win_y, grip>>
  BY DEF ReadByte, receiver, history, window, pointer, grip, loop
<1>8. ByteOf(sent + 1) = ByteOf(sent)'
  BY <1>3, <1>7 DEF ByteOf
<1>9. Become(h)
  BY <1>3, <1>4, <1>5, <1>7 DEF ReadByte, ByteOf
<1>10. StackGoesOn(h) /\ h.at \notin Applying
  BY <1>6, <1>9, PlacesApart DEF StackGoesOn
<1>11. DesktopData'
  BY <1>3, <1>7 DEF DesktopIndInv, DesktopTypes, DesktopData
<1>12. DesktopTypes' /\ StackSound'
  BY <1>7, <1>10, <1>11, StackStep DEF ReadByte
<1>13. ClipsAhead' /\ GrabsTitle' /\ GripHeld'
  BY <1>7, <1>10, ByteStepWindow DEF ReadByte
<1>14. InStep'
  <2>1. active' # <<>> /\ Len(active') = Len(active) /\ active'[1] = h
    BY <1>1, <1>9, BecomeStack
  <2> SUFFICES ASSUME ~nested
               PROVE  HandlerInStep(h)'
    BY <1>2, <1>7, <2>1 DEF InStep
  <2>2. mouse_cycle = sent /\ Stored(sent)
    BY <1>1, <1>2 DEF HandlerInStep
  <2>3. \A j \in 1 .. sent : mouse_byte[j] = [d EXCEPT !.place = j]
    BY <2>2, <1>4 DEF Stored, ByteOf
  <2>4. d.place = sent + 1 /\ d = ByteOf(sent)'
    BY <1>3, <1>4, <1>8 DEF ByteOf
  <2>5. mouse_cycle' = sent /\ \A j \in 1 .. sent : mouse_byte'[j] = [d EXCEPT !.place = j]
    BY <2>2, <2>3, <1>7
  <2>6. h.at \notin Applying
    BY <1>10
  <2> QED
    BY <1>3, <1>6, <2>4, <2>5, <2>6 DEF HandlerInStep
<1> QED
  BY <1>12, <1>13, <1>14 DEF DesktopIndInv

LEMMA ReadCycleStep ==
  ASSUME DesktopIndInv, ReadCycle
  PROVE  DesktopIndInv'
<1>1. /\ active \in Seq(Handler) /\ active # <<>> /\ me.at = "read" /\ me = active[1]
      /\ me \in Handler /\ Len(active) \in Nat
  BY TopHandler DEF ReadCycle
<1>2. ~nested => Len(active) = 1 /\ HandlerInStep(me)
  BY TopHandler DEF ReadCycle
<1>3. mouse_cycle \in 0 .. (Byte - 1) /\ me.d \in MouseByte
  BY <1>1 DEF DesktopIndInv, DesktopTypes, DesktopData, Handler
<1>4. PICK h \in Handler : h = [me EXCEPT !.at = "cycle", !.c = mouse_cycle]
  BY <1>1, <1>3, PlacesApart DEF Handler
<1>5. h.at = "cycle" /\ h.d = me.d /\ h.c = mouse_cycle
  BY <1>1, <1>4 DEF Handler
<1>6. IF mouse_cycle = 0 /\ ~Has(me.d, 8) THEN Return ELSE Become(h)
  BY <1>4 DEF ReadCycle
<1>7. Return \/ (StackGoesOn(h) /\ h.at \notin Applying)
  BY <1>5, <1>6, PlacesApart DEF StackGoesOn
<1>8. /\ UNCHANGED <<packet, count, sent, mouse_cycle, mouse_byte, nested, crossed, mouse_x,
                     mouse_y, win_x, win_y, is_dragging, drag_off_x, drag_off_y, machine,
                     frame_ready, dpc, drawn>>
      /\ UNCHANGED <<crossed, pointer, win_x, win_y, grip>>
  BY DEF ReadCycle, mouse, receiver, history, window, pointer, grip, loop
<1>9. DesktopData'
  BY <1>8 DEF DesktopIndInv, DesktopTypes, DesktopData
<1>10. DesktopTypes' /\ StackSound'
  BY <1>7, <1>8, <1>9, StackStep DEF ReadCycle
<1>11. ClipsAhead' /\ GrabsTitle' /\ GripHeld'
  BY <1>7, <1>8, ByteStepWindow DEF ReadCycle
<1>12. InStep'
  <2> SUFFICES ASSUME ~nested
               PROVE  Len(active') <= 1 /\ active' # <<>> /\ HandlerInStep(active[1])'
    BY <1>8 DEF InStep
  <2>1. /\ me.d.place \in 1 .. 3 /\ mouse_cycle = me.d.place - 1
        /\ \A j \in 1 .. (me.d.place - 1) : mouse_byte[j] = [me.d EXCEPT !.place = j]
        /\ (me.d.place < 3 => sent = me.d.place /\ me.d = ByteOf(sent))
        /\ (me.d.place = 3 => sent \in {0, 3})
    BY <1>1, <1>2 DEF HandlerInStep
  <2>2. Become(h)
    <3>1. mouse_cycle = 0 => me.d.place = 1
      BY <2>1
    <3>2. mouse_cycle = 0 => Has(me.d, 8)
      BY <3>1, <1>3, ByteValues
    <3> QED
      BY <3>2, <1>6
  <2>3. active' # <<>> /\ Len(active') = Len(active) /\ active'[1] = h
    BY <1>1, <2>2, BecomeStack
  <2>4. ByteOf(sent)' = ByteOf(sent)
    BY <1>8 DEF ByteOf
  <2>5. h.at \notin Applying
    BY <1>5, PlacesApart
  <2>6. HandlerInStep(h)'
    BY <1>5, <1>8, <2>1, <2>4, <2>5 DEF HandlerInStep
  <2> QED
    BY <1>2, <2>3, <2>6
<1> QED
  BY <1>10, <1>11, <1>12 DEF DesktopIndInv

LEMMA StoreCycleStep ==
  ASSUME DesktopIndInv, StoreCycle
  PROVE  DesktopIndInv'
<1>1. /\ active \in Seq(Handler) /\ active # <<>> /\ me.at = "cycle" /\ me = active[1]
      /\ me \in Handler /\ Len(active) \in Nat
  BY TopHandler DEF StoreCycle
<1>2. ~nested => Len(active) = 1 /\ HandlerInStep(me)
  BY TopHandler DEF StoreCycle
<1>3. me.c \in 0 .. (Byte - 1) /\ mouse_cycle' = (me.c + 1) % Byte
  BY <1>1 DEF StoreCycle, Handler
<1>4. mouse_cycle' \in 0 .. (Byte - 1) /\ (me.c < 3 => mouse_cycle' = me.c + 1)
  BY <1>3, DesktopConstants
<1>5. PICK h \in Handler : h = [me EXCEPT !.at = "store"]
  BY <1>1, PlacesApart DEF Handler
<1>6. h.at = "store" /\ h.d = me.d /\ h.c = me.c
  BY <1>1, <1>5 DEF Handler
<1>7. Become(h)
  BY <1>5 DEF StoreCycle, Goto
<1>8. StackGoesOn(h) /\ h.at \notin Applying
  BY <1>6, <1>7, PlacesApart DEF StackGoesOn
<1>9. /\ UNCHANGED <<packet, count, sent, mouse_byte, nested, crossed, mouse_x, mouse_y, win_x,
                     win_y, is_dragging, drag_off_x, drag_off_y, machine, frame_ready, dpc,
                     drawn>>
      /\ UNCHANGED <<crossed, pointer, win_x, win_y, grip>>
  BY DEF StoreCycle, mouse, history, window, pointer, grip, loop
<1>10. DesktopData'
  BY <1>4, <1>9 DEF DesktopIndInv, DesktopTypes, DesktopData
<1>11. DesktopTypes' /\ StackSound'
  BY <1>8, <1>9, <1>10, StackStep DEF StoreCycle
<1>12. ClipsAhead' /\ GrabsTitle' /\ GripHeld'
  BY <1>8, <1>9, ByteStepWindow DEF StoreCycle
<1>13. InStep'
  <2>1. active' # <<>> /\ Len(active') = Len(active) /\ active'[1] = h
    BY <1>1, <1>7, BecomeStack
  <2> SUFFICES ASSUME ~nested
               PROVE  HandlerInStep(h)'
    BY <1>2, <1>9, <2>1 DEF InStep
  <2>2. /\ me.d.place \in 1 .. 3 /\ me.c = me.d.place - 1
        /\ \A j \in 1 .. (me.d.place - 1) : mouse_byte[j] = [me.d EXCEPT !.place = j]
        /\ (me.d.place < 3 => sent = me.d.place /\ me.d = ByteOf(sent))
        /\ (me.d.place = 3 => sent \in {0, 3})
    BY <1>1, <1>2 DEF HandlerInStep
  <2>3. ByteOf(sent)' = ByteOf(sent)
    BY <1>9 DEF ByteOf
  <2>4. mouse_cycle' = me.d.place
    BY <1>4, <2>2
  <2> QED
    BY <1>6, <1>8, <1>9, <2>2, <2>3, <2>4 DEF HandlerInStep
<1> QED
  BY <1>11, <1>12, <1>13 DEF DesktopIndInv

LEMMA StoreByteStep ==
  ASSUME DesktopIndInv, StoreByte
  PROVE  DesktopIndInv'
<1>1. /\ active \in Seq(Handler) /\ active # <<>> /\ me.at = "store" /\ me = active[1]
      /\ me \in Handler /\ Len(active) \in Nat
  BY TopHandler DEF StoreByte
<1>2. ~nested => Len(active) = 1 /\ HandlerInStep(me)
  BY TopHandler DEF StoreByte
<1>3. PICK d \in MouseByte, c \in 0 .. (Byte - 1) : d = me.d /\ c = me.c
  BY <1>1 DEF Handler
<1>4. PICK h \in Handler : h = [me EXCEPT !.at = "packet"]
  BY <1>1, PlacesApart DEF Handler
<1>5. h.at = "packet"
  BY <1>1, <1>4 DEF Handler
<1>6. /\ mouse_byte' = (IF c < 3 THEN [mouse_byte EXCEPT ![c + 1] = d] ELSE mouse_byte)
      /\ mouse_cycle' = (IF c = 3 THEN Value(d) ELSE mouse_cycle)
      /\ machine' = (IF c > 3 THEN "wild" ELSE machine)
      /\ IF c = 2 THEN Become(h) ELSE Return
  BY <1>3, <1>4 DEF StoreByte, Goto
<1>7. /\ UNCHANGED <<packet, count, sent, nested, crossed, mouse_x, mouse_y, win_x,
                     win_y, is_dragging, drag_off_x, drag_off_y, frame_ready, dpc, drawn>>
      /\ UNCHANGED <<crossed, pointer, win_x, win_y, grip>>
  BY DEF StoreByte, mouse, history, pointer, grip, loop
<1>8. Return \/ (StackGoesOn(h) /\ h.at \notin Applying)
  BY <1>5, <1>6, PlacesApart DEF StackGoesOn
<1>9. mouse_byte \in [1 .. 3 -> MouseByte] /\ mouse_cycle \in 0 .. (Byte - 1) /\ sent \in 0 .. 3
  BY DEF DesktopIndInv, DesktopTypes, DesktopData
<1>10. DesktopData'
  <2>1. mouse_byte' \in [1 .. 3 -> MouseByte]
    BY <1>6, <1>9
  <2>2. mouse_cycle' \in 0 .. (Byte - 1)
    BY <1>3, <1>6, <1>9, ByteValues
  <2>3. machine' \in {"runs", "panicked", "wild"}
    BY <1>6 DEF DesktopIndInv, DesktopTypes, DesktopData
  <2> QED
    BY <1>7, <2>1, <2>2, <2>3 DEF DesktopIndInv, DesktopTypes, DesktopData
<1>11. DesktopTypes' /\ StackSound'
  BY <1>7, <1>8, <1>10, StackStep DEF StoreByte
<1>12. ClipsAhead' /\ GrabsTitle' /\ GripHeld'
  BY <1>7, <1>8, ByteStepWindow DEF StoreByte
<1>13. InStep'
  <2> SUFFICES ASSUME ~nested
               PROVE  /\ Len(active') <= 1
                      /\ active' = <<>> => mouse_cycle' = sent' % 3 /\ (sent' < 3 => Stored(sent)')
                      /\ active' # <<>> => HandlerInStep(active[1])'
    BY <1>7 DEF InStep
  <2>1. /\ d.place \in 1 .. 3 /\ c = d.place - 1 /\ mouse_cycle = d.place
        /\ \A j \in 1 .. (d.place - 1) : mouse_byte[j] = [d EXCEPT !.place = j]
        /\ (d.place < 3 => sent = d.place /\ d = ByteOf(sent))
        /\ (d.place = 3 => sent \in {0, 3})
    BY <1>1, <1>2, <1>3 DEF HandlerInStep
  <2>2. \A j \in 1 .. d.place : mouse_byte'[j] = [d EXCEPT !.place = j]
    <3>1. d = [d EXCEPT !.place = d.place]
      BY DEF MouseByte
    <3> QED
      BY <1>6, <1>9, <2>1, <3>1
  <2>3. CASE d.place = 3
    <3>1. active' # <<>> /\ Len(active') = Len(active) /\ active'[1] = h
      BY <1>1, <1>6, <2>1, <2>3, BecomeStack
    <3>2. Whole(mouse_byte)'
      <4>1. \A j \in 1 .. 3 : mouse_byte'[j] = [d EXCEPT !.place = j]
        BY <2>2, <2>3
      <4> QED
        BY <4>1 DEF Whole, MouseByte
    <3>3. mouse_cycle' = 3 /\ sent' \in {0, 3}
      BY <1>6, <1>7, <2>1, <2>3
    <3>4. h.at \notin Applying
      BY <1>5, PlacesApart
    <3>5. HandlerInStep(h)'
      BY <1>5, <3>2, <3>3, <3>4 DEF HandlerInStep
    <3>6. HandlerInStep(active[1])'
      BY <3>1, <3>5
    <3>7. Len(active') <= 1
      BY <1>2, <3>1
    <3> QED
      BY <3>1, <3>6, <3>7
  <2>4. CASE d.place # 3
    <3>1. Return /\ sent = d.place /\ d = ByteOf(sent) /\ mouse_cycle' = sent /\ sent \in 1 .. 2
      BY <1>6, <2>1, <2>4
    <3>2. Len(active') = 0 /\ active' \in Seq(Handler)
      BY <1>1, <1>2, <3>1, ReturnStack
    <3>3. active' = <<>>
      BY <3>2
    <3>4. Stored(sent)'
      <4>1. \A j \in 1 .. sent : [d EXCEPT !.place = j] = ByteOf(j)
        BY <3>1 DEF ByteOf
      <4>2. \A j \in 1 .. sent : mouse_byte'[j] = ByteOf(j)
        BY <4>1, <2>2, <3>1
      <4> QED
        BY <4>2, <1>7 DEF Stored, ByteOf
    <3>5. mouse_cycle' = sent' % 3
      <4>1. sent % 3 = sent
        BY <3>1
      <4> QED
        BY <1>7, <3>1, <4>1
    <3>6. Len(active') <= 1
      BY <3>2
    <3> QED
      BY <3>3, <3>4, <3>5, <3>6
  <2> QED
    BY <2>3, <2>4
<1> QED
  BY <1>11, <1>12, <1>13 DEF DesktopIndInv

LEMMA PacketDoneStep ==
  ASSUME DesktopIndInv, PacketDone
  PROVE  DesktopIndInv'
<1>1. /\ active \in Seq(Handler) /\ active # <<>> /\ me.at = "packet" /\ me = active[1]
      /\ me \in Handler /\ Len(active) \in Nat /\ Len(active) >= 1 /\ dpc # "text"
      /\ At("packet")
  BY TopHandler DEF PacketDone
<1>2. ~nested => Len(active) = 1 /\ HandlerInStep(me)
  BY TopHandler DEF PacketDone
<1>3. PICK h \in Handler : h = [me EXCEPT !.at = "byte1"]
  BY <1>1, PlacesApart DEF Handler
<1>4. h.at = "byte1" /\ h.at \in Applying
  BY <1>1, <1>3, PlacesApart DEF Handler
<1>5. /\ Become(h) /\ mouse_cycle' = 0 /\ crossed' = Inside
      /\ UNCHANGED <<packet, count, sent, mouse_byte, nested, mouse_x, mouse_y, win_x, win_y,
                     is_dragging, drag_off_x, drag_off_y, machine, frame_ready, dpc>>
  BY <1>1, <1>3 DEF PacketDone, Goto, mouse, window, pointer, grip, loop
<1>6. StackGoesOn(h)
  BY <1>4, <1>5 DEF StackGoesOn
<1>7. DesktopData'
  <2>1. mouse_cycle' \in 0 .. (Byte - 1)
    BY <1>5, DesktopConstants
  <2>2. crossed' \in BOOLEAN
    BY <1>5 DEF Inside
  <2> QED
    BY <1>5, <2>1, <2>2 DEF DesktopIndInv, DesktopTypes, DesktopData
<1>8. DesktopTypes' /\ StackSound'
  BY <1>1, <1>5, <1>6, <1>7, StackStep
<1>9. ClipsAhead'
  BY <1>1, <1>5, <1>6, ClipsStay DEF pointer
<1>10. GrabsTitle'
  <2>1. OnItsTitle(h)
    BY <1>4 DEF OnItsTitle
  <2> QED
    BY <1>1, <1>6, <2>1, GrabsStay
<1>11. /\ active' # <<>> /\ Len(active') = Len(active) /\ active'[1] = h
       /\ \A k \in 2 .. Len(active) : active'[k] = active[k]
  BY <1>1, <1>5, BecomeStack
<1>12. InStep'
  <2> SUFFICES ASSUME ~nested
               PROVE  HandlerInStep(h)'
    BY <1>2, <1>5, <1>11 DEF InStep
  <2>1. Whole(mouse_byte) /\ sent \in {0, 3}
    BY <1>1, <1>2 DEF HandlerInStep
  <2>2. Whole(mouse_byte)' /\ sent' \in {0, 3} /\ mouse_cycle' = 0
    BY <2>1, <1>5
  <2>3. Taken(h)'
    BY <1>4 DEF Taken
  <2> QED
    BY <1>4, <2>2, <2>3 DEF HandlerInStep
<1>13. GripHeld'
  <2> SUFFICES ASSUME ~Inside
               PROVE  /\ \A j, k \in 1 .. Len(active') : Applies(j)' /\ Applies(k)' => j = k
                      /\ (\A k \in 1 .. Len(active') : ~Applies(k)') => InGrip'
                      /\ \A k \in 1 .. Len(active') : Applies(k)' => Knows(active[k])'
    BY <1>5 DEF GripHeld
  <2>1. \A k \in 2 .. Len(active') : ~Applies(k)'
    BY <1>11 DEF Inside, Applies
  <2>2. 1 \in 1 .. Len(active') /\ Applies(1)'
    BY <1>1, <1>4, <1>11 DEF Applies
  <2>3. Knows(active[1])'
    BY <1>4, <1>11 DEF Knows
  <2>4. \A k \in 1 .. Len(active') : k = 1 \/ k \in 2 .. Len(active')
    BY <1>1, <1>11
  <2> QED
    BY <2>1, <2>2, <2>3, <2>4
<1> QED
  BY <1>8, <1>9, <1>10, <1>12, <1>13 DEF DesktopIndInv

LEMMA MouseSendsStep ==
  ASSUME DesktopIndInv, MouseSends
  PROVE  DesktopIndInv'
<1>1. /\ sent = 3 /\ sent' = 0 /\ packet' \in Packet /\ count' = count + 1
      /\ count < MaxPackets /\ dpc # "text"
      /\ UNCHANGED <<active, mouse_cycle, mouse_byte, nested, crossed, mouse_x, mouse_y, win_x,
                     win_y, is_dragging, drag_off_x, drag_off_y, machine, frame_ready, dpc>>
  BY DEF MouseSends, receiver, history, window, pointer, grip, loop
<1>2. DesktopTypes'
  BY <1>1, DesktopConstants DEF DesktopIndInv, DesktopTypes, DesktopData
<1>3. StackSound'
  BY <1>1 DEF DesktopIndInv, StackSound
<1>4. ClipsAhead' /\ GrabsTitle' /\ GripHeld'
  BY <1>1 DEF DesktopIndInv, ClipsAhead, GrabsTitle, GripHeld, OffX, OffY, OnItsTitle, Applies,
       InGrip, Knows
<1>5. InStep'
  <2> SUFFICES ASSUME ~nested
               PROVE  /\ Len(active) <= 1
                      /\ active = <<>> => mouse_cycle = 0
                      /\ active # <<>> => HandlerInStep(active[1])'
    BY <1>1 DEF InStep, Stored
  <2>1. /\ Len(active) <= 1 /\ (active = <<>> => mouse_cycle = sent % 3)
        /\ (active # <<>> => HandlerInStep(active[1]))
    BY DEF DesktopIndInv, InStep
  <2>2. active # <<>> => active[1].at # "start"
    BY <1>1 DEF DesktopIndInv, StackSound
  <2>3. /\ Whole(mouse_byte)' <=> Whole(mouse_byte)
        /\ Taken(active[1])' <=> Taken(active[1])
    BY <1>1 DEF Taken
  <2>4. ASSUME active # <<>>
        PROVE  HandlerInStep(active[1])'
    <3>1. PICK h : h = active[1]
      OBVIOUS
    <3>2. HandlerInStep(h) /\ h.at # "start" /\ (Taken(h)' <=> Taken(h))
      BY <2>1, <2>2, <2>4, <3>1, <1>1 DEF Taken
    <3>3. h.at \in {"read", "cycle", "store"} => h.d.place = 3
      BY <1>1, <3>2 DEF HandlerInStep
    <3>4. HandlerInStep(h)'
      BY <1>1, <3>2, <3>3, <2>3 DEF HandlerInStep
    <3> QED
      BY <1>1, <3>1, <3>4
  <2> QED
    BY <1>1, <2>1, <2>4
<1> QED
  BY <1>2, <1>3, <1>4, <1>5 DEF DesktopIndInv

LEMMA MouseIrqStep ==
  ASSUME DesktopIndInv, MouseIrq
  PROVE  DesktopIndInv'
<1>1. /\ sent < 3 /\ Len(active) < MaxNest /\ (active # <<>> => Head(active).at # "start")
      /\ active' = <<NewHandler>> \o active /\ nested' = (nested \/ active # <<>>)
      /\ dpc' = (IF dpc = "hlt" THEN "check" ELSE dpc)
      /\ UNCHANGED <<packet, count, sent, mouse_cycle, mouse_byte, crossed, mouse_x, mouse_y,
                     win_x, win_y, is_dragging, drag_off_x, drag_off_y, machine, frame_ready>>
  BY DEF MouseIrq, mouse, receiver, window, pointer, grip
<1>2. PICK h \in Handler : h = NewHandler
  <2>1. <<NoByte, NoByte, NoByte>> \in [1 .. 3 -> MouseByte]
    BY NoByteIsByte
  <2>2. "start" \in Places /\ 0 \in 0 .. (Byte - 1) /\ NoByte \in MouseByte
    BY NoByteIsByte, PlacesApart, DesktopConstants
  <2>3. FALSE \in BOOLEAN /\ 0 \in Int
    OBVIOUS
  <2>4. NewHandler \in Handler
    BY <2>1, <2>2, <2>3, Zenon DEF Handler, NewHandler
  <2> QED
    BY <2>4
<1>3. h.at = "start" /\ h.at \notin Applying
  BY <1>2, PlacesApart DEF NewHandler
<1>4. active \in Seq(Handler)
  BY DEF DesktopIndInv, DesktopTypes
<1>5. /\ active' \in Seq(Handler) /\ Len(active') = Len(active) + 1 /\ active'[1] = h
      /\ \A k \in 2 .. (Len(active) + 1) : active'[k] = active[k - 1]
      /\ Len(active) \in Nat
  BY <1>1, <1>2, <1>4, PushHandler
<1>6. active' # <<>>
  BY <1>5
<1>7. DesktopTypes'
  <2>1. nested' \in BOOLEAN
    BY <1>1 DEF DesktopIndInv, DesktopTypes, DesktopData
  <2>2. dpc' \in {"text", "check", "clear", "hlt"}
    BY <1>1 DEF DesktopIndInv, DesktopTypes, DesktopData
  <2>3. Len(active') <= MaxNest
    BY <1>1, <1>5, DesktopConstants
  <2> QED
    BY <1>1, <1>5, <2>1, <2>2, <2>3 DEF DesktopIndInv, DesktopTypes, DesktopData
<1>8. StackSound'
  <2>1. ASSUME NEW k \in 2 .. Len(active')
        PROVE  active'[k].at # "start"
    <3>1. k - 1 \in 1 .. Len(active) /\ active'[k] = active[k - 1]
      BY <1>5, <2>1
    <3>2. CASE k = 2
      <4>1. active # <<>> /\ Head(active) = active[1]
        BY <3>1, <3>2, <1>4
      <4> QED
        BY <4>1, <3>1, <3>2, <1>1
    <3>3. CASE k # 2
      <4>1. k - 1 \in 2 .. Len(active)
        BY <3>1, <3>3
      <4> QED
        BY <4>1, <3>1 DEF DesktopIndInv, StackSound
    <3> QED
      BY <3>2, <3>3
  <2>2. dpc' # "text"
    BY <1>1 DEF DesktopIndInv, StackSound
  <2> QED
    BY <2>1, <2>2, <1>1 DEF StackSound
<1>9. InStep'
  <2> SUFFICES ASSUME ~nested, active = <<>>
               PROVE  Len(active') <= 1 /\ HandlerInStep(h)'
    BY <1>1, <1>5, <1>6 DEF InStep
  <2>1. mouse_cycle = sent % 3 /\ Stored(sent)
    BY <1>1 DEF DesktopIndInv, InStep
  <2>2. sent % 3 = sent
    BY <1>1 DEF DesktopIndInv, DesktopTypes, DesktopData
  <2>3. Stored(sent)'
    BY <2>1, <1>1 DEF Stored, ByteOf
  <2>4. Len(active') <= 1
    BY <1>5
  <2> QED
    BY <1>1, <1>3, <2>1, <2>2, <2>3, <2>4 DEF HandlerInStep
<1>10. \A k \in 1 .. Len(active) : k + 1 \in 1 .. Len(active') /\ active'[k + 1] = active[k]
  BY <1>5
<1>11. \A k \in 1 .. Len(active') : k = 1 \/ (k - 1 \in 1 .. Len(active) /\ active'[k] = active[k - 1])
  BY <1>5
<1>12. ClipsAhead'
  <2>1. /\ mouse_x \in 0 .. (Width - 1) \/ \E k \in 1 .. Len(active) : OffX(active[k])
        /\ mouse_y \in 0 .. (Height - 1) \/ \E k \in 1 .. Len(active) : OffY(active[k])
    BY DEF DesktopIndInv, ClipsAhead
  <2>2. mouse_x' \in 0 .. (Width - 1) \/ \E k \in 1 .. Len(active') : OffX(active'[k])
    BY <1>1, <1>10, <2>1
  <2>3. mouse_y' \in 0 .. (Height - 1) \/ \E k \in 1 .. Len(active') : OffY(active'[k])
    BY <1>1, <1>10, <2>1
  <2> QED
    BY <2>2, <2>3 DEF ClipsAhead, OffX, OffY
<1>13. GrabsTitle'
  <2>1. OnItsTitle(h)
    BY <1>3 DEF OnItsTitle
  <2>2. \A k \in 1 .. Len(active) : OnItsTitle(active[k])
    BY DEF DesktopIndInv, GrabsTitle
  <2>3. \A k \in 1 .. Len(active') : OnItsTitle(active'[k])
    BY <1>5, <1>11, <2>1, <2>2
  <2> QED
    BY <2>3 DEF GrabsTitle, OnItsTitle
<1>14. GripHeld'
  <2> SUFFICES ASSUME ~crossed
               PROVE  /\ \A j, k \in 1 .. Len(active') : Applies(j)' /\ Applies(k)' => j = k
                      /\ (\A k \in 1 .. Len(active') : ~Applies(k)') => InGrip'
                      /\ \A k \in 1 .. Len(active') : Applies(k)' => Knows(active[k])'
    BY <1>1 DEF GripHeld
  <2>1. /\ \A j, k \in 1 .. Len(active) : Applies(j) /\ Applies(k) => j = k
        /\ (\A k \in 1 .. Len(active) : ~Applies(k)) => InGrip
        /\ \A k \in 1 .. Len(active) : Applies(k) => Knows(active[k])
    BY DEF DesktopIndInv, GripHeld
  <2>2. ~Applies(1)'
    BY <1>3, <1>5 DEF Applies
  <2>3. InGrip' <=> InGrip
    BY <1>1 DEF InGrip
  <2>4. ASSUME NEW k \in 1 .. Len(active'), Applies(k)'
        PROVE  /\ k - 1 \in 1 .. Len(active) /\ Applies(k - 1)
               /\ Knows(active[k])' <=> Knows(active[k - 1])
    <3>1. k - 1 \in 1 .. Len(active) /\ active'[k] = active[k - 1]
      BY <1>11, <2>2, <2>4
    <3> QED
      BY <1>1, <2>4, <3>1 DEF Applies, Knows
  <2>5. ASSUME NEW j \in 1 .. Len(active'), NEW k \in 1 .. Len(active'), Applies(j)', Applies(k)'
        PROVE  j = k
    <3>1. j - 1 = k - 1
      BY <2>1, <2>4, <2>5
    <3> QED
      BY <3>1
  <2>6. (\A k \in 1 .. Len(active') : ~Applies(k)') => \A k \in 1 .. Len(active) : ~Applies(k)
    BY <1>10 DEF Applies
  <2> QED
    BY <2>1, <2>3, <2>4, <2>5, <2>6
<1> QED
  BY <1>7, <1>8, <1>9, <1>12, <1>13, <1>14 DEF DesktopIndInv

\* A step that moves only the loop
LEMMA LoopStep ==
  ASSUME DesktopIndInv, frame_ready' \in BOOLEAN, dpc' \in {"check", "clear", "hlt"} \cup {dpc},
         UNCHANGED <<mouse, active, receiver, history, window>>
  PROVE  DesktopIndInv'
<1>1. /\ UNCHANGED <<packet, count, sent, active, mouse_cycle, mouse_byte, nested, crossed,
                     mouse_x, mouse_y, win_x, win_y, is_dragging, drag_off_x, drag_off_y,
                     machine>>
  BY DEF mouse, receiver, history, window, pointer, grip
<1>2. DesktopTypes'
  BY <1>1 DEF DesktopIndInv, DesktopTypes, DesktopData
<1>3. StackSound'
  BY <1>1 DEF DesktopIndInv, StackSound
<1>4. ClipsAhead' /\ GrabsTitle' /\ GripHeld'
  BY <1>1 DEF DesktopIndInv, ClipsAhead, GrabsTitle, GripHeld, OffX, OffY, OnItsTitle, Applies,
       InGrip, Knows
<1>5. InStep'
  <2>1. \A n : Stored(n)' <=> Stored(n)
    BY <1>1 DEF Stored, ByteOf
  <2>2. ByteOf(sent)' = ByteOf(sent) /\ (Stored(sent)' <=> Stored(sent))
    BY <1>1, <2>1 DEF ByteOf
  <2>3. /\ Whole(mouse_byte)' <=> Whole(mouse_byte)
        /\ Taken(active[1])' <=> Taken(active[1])
    BY <1>1 DEF Taken
  <2>4. HandlerInStep(active[1])' <=> HandlerInStep(active[1])
    BY <1>1, <2>2, <2>3 DEF HandlerInStep
  <2> QED
    BY <1>1, <2>2, <2>4 DEF DesktopIndInv, InStep
<1> QED
  BY <1>2, <1>3, <1>4, <1>5 DEF DesktopIndInv

LEMMA DesktopStep ==
  ASSUME DesktopIndInv, [DesktopNext]_desktopVars
  PROVE  DesktopIndInv'
<1>1. frame_ready \in BOOLEAN
  BY DEF DesktopIndInv, DesktopTypes, DesktopData
<1>2. CASE DesktopTick \/ vgamode \/ DesktopLoop
  <2>1. /\ frame_ready' \in BOOLEAN /\ dpc' \in {"check", "clear", "hlt"} \cup {dpc}
        /\ UNCHANGED <<mouse, active, receiver, history, window>>
    BY <1>1, <1>2 DEF DesktopTick, vgamode, DesktopLoop, NoFrame, render_gui, ClearFrame
  <2> QED
    BY <2>1, LoopStep
<1>3. CASE UNCHANGED desktopVars
  <2>1. /\ frame_ready' \in BOOLEAN /\ dpc' \in {"check", "clear", "hlt"} \cup {dpc}
        /\ UNCHANGED <<mouse, active, receiver, history, window>>
    BY <1>1, <1>3 DEF desktopVars, loop
  <2> QED
    BY <2>1, LoopStep
<1>4. CASE HandleByte
  BY <1>4, ReadByteStep, ReadCycleStep, StoreCycleStep, StoreByteStep, PacketDoneStep
     DEF HandleByte
<1>5. CASE LeftButton
  BY <1>5, ReleaseStep, LookAtTitleStep, GrabWindowStep, LookAtButtonStep, MoveWindowStep
     DEF LeftButton
<1> QED
  BY <1>2, <1>3, <1>4, <1>5, MouseSendsStep, MouseIrqStep, MovePointerStep
     DEF DesktopNext, MouseHandler

\* The conjunction that DesktopInv follows from holds in every state, through every nesting
\* of mouse_isr_handler.
THEOREM DesktopIndInvInvariant == DesktopSpec => []DesktopIndInv
<1>1. DesktopInit => DesktopIndInv
  BY DesktopInitInv
<1>2. DesktopIndInv /\ [DesktopNext]_desktopVars => DesktopIndInv'
  BY DesktopStep
<1> QED
  BY <1>1, <1>2, PTL DEF DesktopSpec

(* Handlers of mouse_isr_handler may interrupt each other between any two accesses to      *)
(* memory, to any depth: when they have returned, the pointer is on the screen; a dragged  *)
(* window is held by its title bar, and under the pointer unless the latest packet was     *)
(* applied in the middle of another; and as long as no handler interrupts another, a       *)
(* packet that is applied is one that the mouse has sent.                                  *)
THEOREM DesktopInvariant == DesktopSpec => []DesktopInv
<1>1. DesktopIndInv => DesktopInv
  <2> SUFFICES ASSUME DesktopIndInv
               PROVE  DesktopInv
    OBVIOUS
  <2>1. BytesInStep
    <3> SUFFICES ASSUME ~nested
                 PROVE  /\ active = <<>> => mouse_cycle = sent % 3
                        /\ At("addx") => Whole(me.b)
      BY DEF BytesInStep
    <3>1. active = <<>> => mouse_cycle = sent % 3
      BY DEF DesktopIndInv, InStep
    <3>2. ASSUME At("addx")
          PROVE  Whole(me.b)
      <4>1. HandlerInStep(me) /\ me.at = "addx"
        BY <3>2, TopHandler
      <4>2. Whole(mouse_byte) /\ me.b[1] = mouse_byte[1] /\ me.b[2] = mouse_byte[2]
            /\ me.b[3] = mouse_byte[3]
        BY <4>1, PlacesApart DEF HandlerInStep, Taken
      <4> QED
        BY <4>2 DEF Whole
    <3> QED
      BY <3>1, <3>2
  <2>2. PointerOnScreen
    BY DEF DesktopIndInv, ClipsAhead, PointerOnScreen
  <2>3. GripKept
    BY DEF DesktopIndInv, GripHeld, InGrip, GripKept
  <2>4. GrippedByTitle /\ DesktopTypeOK
    BY DEF DesktopIndInv, DesktopTypes, DesktopData, GrippedByTitle, DesktopTypeOK
  <2> QED
    BY <2>1, <2>2, <2>3, <2>4 DEF DesktopInv
<1> QED
  BY <1>1, DesktopIndInvInvariant, PTL
-----------------------------------------------------------------------------
(* The clock. *)

LEMMA ClockConstants ==
  /\ Seconds \in Nat /\ Seconds >= 1 /\ Seconds <= 60
  /\ Minutes \in Nat /\ Minutes >= 1 /\ Minutes <= 60
  /\ MaxTicks \in Nat /\ MaxTicks < Seconds
  /\ Minutes * Seconds \in Nat /\ Minutes * Seconds >= 1
  /\ Day \in Nat /\ Day >= 1 /\ Day = 24 * (Minutes * Seconds)
<1>1. /\ Seconds \in Nat /\ Seconds >= 1 /\ Seconds <= 60
      /\ Minutes \in Nat /\ Minutes >= 1 /\ Minutes <= 60
      /\ MaxTicks \in Nat /\ MaxTicks < Seconds
  BY ClockAssumption
<1>2. Minutes * Seconds \in Nat /\ Minutes * Seconds >= 1
  BY <1>1
<1>3. Day = 24 * (Minutes * Seconds)
  BY <1>1 DEF Day
<1> QED
  BY <1>1, <1>2, <1>3

\* Quotient and remainder, and that there is only one of each
LEMMA QuotientOf ==
  ASSUME NEW x \in Nat, NEW c \in Nat, c >= 1
  PROVE  x % c \in 0 .. (c - 1) /\ x \div c \in Nat /\ x = (x \div c) * c + (x % c)
<1> DEFINE q == x \div c
           r == x % c
<1>1. q \in Int /\ r \in 0 .. (c - 1) /\ x = q * c + r
  OBVIOUS
<1> HIDE DEF q, r
<1>2. q >= 0
  <2> SUFFICES ASSUME q < 0 PROVE FALSE
    BY <1>1
  <2>1. (0 - q) * c >= c
    <3>1. 0 - q \in Nat /\ 0 - q >= 1
      BY <1>1
    <3> QED
      BY <3>1
  <2>2. (0 - q) * c = 0 - q * c
    BY <1>1
  <2> QED
    BY <1>1, <2>1, <2>2
<1> QED
  BY <1>1, <1>2 DEF q, r

LEMMA OneQuotient ==
  ASSUME NEW c \in Nat, NEW p \in Int, NEW q \in Int,
         NEW r \in 0 .. (c - 1), NEW t \in 0 .. (c - 1), p * c + r = q * c + t
  PROVE  p = q /\ r = t
<1>1. ASSUME NEW x \in Int, NEW y \in Int, x < y
      PROVE  x * c + c <= y * c
  <2>1. y - x \in Nat /\ y - x >= 1
    BY <1>1
  <2>2. (y - x) * c >= c
    BY <2>1
  <2> QED
    BY <2>2
<1>2. p * c \in Int /\ q * c \in Int
  OBVIOUS
<1>3. ~(p < q)
  BY <1>1, <1>2
<1>4. ~(q < p)
  BY <1>1, <1>2
<1>5. p = q
  BY <1>3, <1>4
<1> QED
  BY <1>5, <1>2

\* Whole days make no difference to the second.
LEMMA SecondsOfDays ==
  ASSUME NEW x \in Nat
  PROVE  SecondOf(x % Day) = x % Seconds
<1> DEFINE d == x \div Day
           y == x % Day
           q == y \div Seconds
           r == y % Seconds
           v == x \div Seconds
           w == x % Seconds
           h == 24 * Minutes
<1> USE ClockConstants
<1>1. d \in Nat /\ y \in 0 .. (Day - 1) /\ x = d * Day + y
  BY QuotientOf
<1>2. y \in Nat
  BY <1>1
<1>3. q \in Nat /\ r \in 0 .. (Seconds - 1) /\ y = q * Seconds + r
  BY <1>2, QuotientOf
<1>4. v \in Nat /\ w \in 0 .. (Seconds - 1) /\ x = v * Seconds + w
  BY QuotientOf
<1>5. h \in Nat /\ Day = h * Seconds
  BY DEF Day
<1> HIDE DEF d, y, q, r, v, w, h
<1>6. d * (h * Seconds) + q * Seconds = (d * h + q) * Seconds /\ d * h + q \in Int
  BY <1>1, <1>3, <1>5
<1>7. x = (d * h + q) * Seconds + r
  BY <1>1, <1>3, <1>5, <1>6
<1> DEFINE p == d * h + q
<1>8. p \in Int /\ p * Seconds + r = v * Seconds + w
  BY <1>4, <1>6, <1>7
<1> HIDE DEF p
<1>9. w = r
  BY <1>3, <1>4, <1>8, OneQuotient
<1> QED
  BY <1>9 DEF w, r, y, SecondOf

\* Moments less than a minute apart have different seconds.
LEMMA SecondsApart ==
  ASSUME NEW x \in Nat, NEW y \in Nat, x <= y, y - x < Seconds, x % Seconds = y % Seconds
  PROVE  x = y
<1> DEFINE q == x \div Seconds
           r == x % Seconds
           v == y \div Seconds
           w == y % Seconds
<1> USE ClockConstants
<1>1. q \in Nat /\ r \in 0 .. (Seconds - 1) /\ x = q * Seconds + r
  BY QuotientOf
<1>2. v \in Nat /\ w \in 0 .. (Seconds - 1) /\ y = v * Seconds + w
  BY QuotientOf
<1>3. r = w
  OBVIOUS
<1> HIDE DEF q, r, v, w
<1>4. q * Seconds \in Int /\ v * Seconds \in Int
  BY <1>1, <1>2
<1>5. ~(q < v)
  <2> SUFFICES ASSUME q < v PROVE FALSE
    OBVIOUS
  <2>1. v - q \in Nat /\ v - q >= 1
    BY <1>1, <1>2
  <2>2. (v - q) * Seconds >= Seconds
    BY <2>1
  <2>3. (v - q) * Seconds = v * Seconds - q * Seconds
    BY <1>1, <1>2
  <2> QED
    BY <2>2, <2>3, <1>1, <1>2, <1>3, <1>4
<1>6. ~(v < q)
  <2> SUFFICES ASSUME v < q PROVE FALSE
    OBVIOUS
  <2>1. q - v \in Nat /\ q - v >= 1
    BY <1>1, <1>2
  <2>2. (q - v) * Seconds >= Seconds
    BY <2>1
  <2>3. (q - v) * Seconds = q * Seconds - v * Seconds
    BY <1>1, <1>2
  <2> QED
    BY <2>2, <2>3, <1>1, <1>2, <1>3, <1>4
<1>7. q = v
  BY <1>5, <1>6, <1>1, <1>2
<1> QED
  BY <1>7, <1>1, <1>2, <1>3

\* Counting on from a remainder
LEMMA CountOn ==
  ASSUME NEW x \in Nat, NEW c \in Nat, c >= 1
  PROVE  ((x % c) + 1) % c = (x + 1) % c
<1> DEFINE d == x \div c
           y == x % c
           q == (y + 1) \div c
           r == (y + 1) % c
           v == (x + 1) \div c
           w == (x + 1) % c
<1>1. d \in Nat /\ y \in 0 .. (c - 1) /\ x = d * c + y
  BY QuotientOf
<1>2. y + 1 \in Nat /\ x + 1 \in Nat
  BY <1>1
<1>3. q \in Nat /\ r \in 0 .. (c - 1) /\ y + 1 = q * c + r
  BY <1>2, QuotientOf
<1>4. v \in Nat /\ w \in 0 .. (c - 1) /\ x + 1 = v * c + w
  BY <1>2, QuotientOf
<1> HIDE DEF d, y, q, r, v, w
<1> DEFINE p == d + q
<1>5. p \in Int /\ p * c = d * c + q * c
  BY <1>1, <1>3
<1> HIDE DEF p
<1>6. p * c + r = v * c + w
  BY <1>1, <1>3, <1>4, <1>5
<1>7. v \in Int /\ c \in Nat
  BY <1>4
<1>8. p = v /\ r = w
  BY <1>3, <1>4, <1>5, <1>6, <1>7, OneQuotient
<1> QED
  BY <1>8 DEF w, r, y

\* The parts of a time of the day
LEMMA PartsOfTime ==
  ASSUME NEW t \in 0 .. (Day - 1)
  PROVE  /\ SecondOf(t) \in 0 .. 59 /\ MinuteOf(t) \in 0 .. 59 /\ HourOf(t) \in 0 .. 23
<1> USE ClockConstants
<1>1. t \in Nat
  OBVIOUS
<1>2. SecondOf(t) \in 0 .. 59
  BY <1>1, QuotientOf DEF SecondOf
<1>3. MinuteOf(t) \in 0 .. 59
  <2>1. t \div Seconds \in Nat
    BY <1>1, QuotientOf
  <2> QED
    BY <2>1, QuotientOf DEF MinuteOf
<1>4. HourOf(t) \in 0 .. 23
  <2> DEFINE c == Minutes * Seconds
             h == t \div c
  <2>1. Seconds * Minutes = c /\ c \in Nat /\ c >= 1 /\ Day = 24 * c
    OBVIOUS
  <2>2. HourOf(t) = h
    BY <2>1 DEF HourOf
  <2> HIDE DEF c
  <2>3. h \in Nat /\ t % c \in 0 .. (c - 1) /\ t = h * c + (t % c)
    BY <1>1, <2>1, QuotientOf
  <2> HIDE DEF h
  <2>4. ~(h >= 24)
    <3> SUFFICES ASSUME h >= 24 PROVE FALSE
      OBVIOUS
    <3>1. h - 24 \in Nat
      BY <2>3
    <3>2. (h - 24) * c >= 0
      BY <3>1, <2>1
    <3>3. (h - 24) * c = h * c - 24 * c
      BY <2>1, <2>3
    <3> QED
      BY <3>2, <3>3, <2>1, <2>3
  <2> QED
    BY <2>2, <2>3, <2>4
<1> QED
  BY <1>2, <1>3, <1>4

\* Decoding undoes what the clock's format does; and the hour comes out as shown.
Decoded(x) == IF bcd THEN FromBcd(x) ELSE x
DecodedHour(x) == IF bcd THEN HourFromBcd(x) ELSE x

LEMMA DecodedIs ==
  ASSUME bcd \in BOOLEAN, NEW n \in 0 .. 59
  PROVE  Coded(n) \in 0 .. 255 /\ Decoded(Coded(n)) = n
<1> DEFINE q == n \div 10
           r == n % 10
<1>1. q \in 0 .. 5 /\ r \in 0 .. 9 /\ n = 10 * q + r
  OBVIOUS
<1>2. Coded(n) = IF bcd THEN 16 * q + r ELSE n
  BY DEF Coded
<1> HIDE DEF q, r
<1>3. (16 * q + r) % 16 = r /\ (16 * q + r) \div 16 = q
  BY <1>1
<1> QED
  BY <1>1, <1>2, <1>3 DEF Decoded, FromBcd

\* The hour that read_rtc makes of hour h: on a 12-hour clock noon comes out as 0 and
\* midnight as 12.
ShownHour(h) == IF twelve /\ h % 12 = 0 THEN (h + 12) % 24 ELSE h

LEMMA HourDecodedIs ==
  ASSUME bcd \in BOOLEAN, twelve \in BOOLEAN, NEW h \in 0 .. 23
  PROVE  /\ CodedHour(h) \in 0 .. 255
         /\ To24(DecodedHour(CodedHour(h))) = ShownHour(h)
         /\ ShownHour(h) \in 0 .. 23
<1> DEFINE g == IF twelve THEN ((h + 11) % 12) + 1 ELSE h
           q == g \div 10
           r == g % 10
           x == IF bcd THEN 16 * q + r ELSE g
           a == IF twelve /\ h >= 12 THEN 128 ELSE 0
<1>1. g \in 0 .. 23 /\ (twelve => g \in 1 .. 12)
  OBVIOUS
<1>2. CodedHour(h) = x + a
  BY DEF CodedHour, Coded
<1>3. twelve => /\ h >= 12 => ((g + 12) % 24) = ShownHour(h)
                /\ h < 12 => g = ShownHour(h)
  BY DEF ShownHour
<1>4. ~twelve => g = ShownHour(h)
  BY DEF ShownHour
<1> HIDE DEF g
<1>5. q \in 0 .. 2 /\ r \in 0 .. 9 /\ g = 10 * q + r
  BY <1>1
<1> HIDE DEF q, r
<1>6. x \in 0 .. 41
  BY <1>1, <1>5
<1>7. a \in {0, 128}
  OBVIOUS
<1>8. bcd => HourFromBcd(x + a) = g + a
  <2> SUFFICES ASSUME bcd PROVE HourFromBcd(16 * q + r + a) = 10 * q + r + a
    BY <1>5
  <2>1. (16 * q + r + 0) % 16 = r /\ ((16 * q + r + 0) \div 16) % 8 = q
        /\ (16 * q + r + 0) \div 128 = 0
    BY <1>5
  <2>2. (16 * q + r + 128) % 16 = r /\ ((16 * q + r + 128) \div 16) % 8 = q
        /\ (16 * q + r + 128) \div 128 = 1
    BY <1>5
  <2> HIDE DEF a
  <2>3. CASE a = 0
    BY <2>1, <2>3, <1>5 DEF HourFromBcd
  <2>4. CASE a = 128
    BY <2>2, <2>4, <1>5 DEF HourFromBcd
  <2> QED
    BY <2>3, <2>4, <1>7
<1>9. ~bcd => x = g
  OBVIOUS
<1>10. DecodedHour(CodedHour(h)) = g + a
  BY <1>2, <1>8, <1>9 DEF DecodedHour
<1>11. To24(g + a) = ShownHour(h)
  <2>1. CASE twelve /\ h >= 12
    <3>1. a = 128 /\ g + a >= 128 /\ (g + a) % 128 = g
      BY <2>1, <1>1
    <3> QED
      BY <2>1, <3>1, <1>3 DEF To24
  <2>2. CASE ~(twelve /\ h >= 12)
    <3>1. a = 0 /\ g + a = g /\ ~(g >= 128)
      BY <2>2, <1>1
    <3> QED
      BY <2>2, <3>1, <1>3, <1>4 DEF To24
  <2> QED
    BY <2>1, <2>2
<1>12. ShownHour(h) \in 0 .. 23
  BY DEF ShownHour
<1> QED
  BY <1>2, <1>6, <1>7, <1>10, <1>11, <1>12

\* The time x seconds after the call began
Moment(x) == (began + x) % Day

\* Both readings were taken register by register, the last one before this one.
ReadInTurn ==
  cpc \in {"wait", "read"} =>
    \E f, g \in [1 .. 3 -> 0 .. ticks] :
      /\ f[1] <= f[2] /\ f[2] <= f[3] /\ f[3] <= g[1] /\ g[1] <= g[2] /\ g[2] <= g[3]
      /\ last # <<>> => \A r \in 1 .. 3 : last[r] = Registers(Moment(f[r]))[r]
      /\ \A r \in 1 .. (reg - 1) : cur[r] = Registers(Moment(g[r]))[r]

\* Two readings that agree are those of one moment.
ReadAtOnce == cpc = "decode" => \E x \in 0 .. ticks : cur = Registers(Moment(x))

\* What is shown is one moment, apart from its hour.
ShownAtOnce ==
  cpc = "done" =>
    \E k \in 0 .. ticks :
      LET t == (began + k) % Day
      IN  cur = <<SecondOf(t), MinuteOf(t), ShownHour(HourOf(t))>>

ClockIndInv ==
  /\ ClockTypeOK
  /\ cur \in [1 .. 3 -> 0 .. 255] /\ (last # <<>> => last \in [1 .. 3 -> 0 .. 255])
  /\ uip => ticks < MaxTicks
  /\ cpc # "idle" => now = Moment(ticks)
  /\ cpc # "read" => reg = 1
  /\ ReadInTurn /\ ReadAtOnce /\ ShownAtOnce

\* Readings stay what they were while the chip, its registers and the pass do.
LEMMA ReadingsStay ==
  ASSUME ReadInTurn, ReadAtOnce, UNCHANGED <<bcd, twelve, reg, cur, last, began, ticks>>,
         cpc' \in {"wait", "read"} => cpc \in {"wait", "read"}, cpc' = "decode" => cpc = "decode"
  PROVE  ReadInTurn' /\ ReadAtOnce'
<1>1. ASSUME NEW x
      PROVE  (Registers(Moment(x)) = Registers(Moment(x))')
  BY DEF Registers, Moment, Coded, CodedHour
<1>2. ReadAtOnce'
  <2> SUFFICES ASSUME cpc' = "decode"
               PROVE  \E x \in 0 .. ticks' : cur' = Registers(Moment(x))'
    BY DEF ReadAtOnce
  <2>1. PICK x \in 0 .. ticks : cur = Registers(Moment(x))
    BY DEF ReadAtOnce
  <2> QED
    BY <1>1, <2>1
<1>3. ReadInTurn'
  <2> SUFFICES ASSUME cpc' \in {"wait", "read"}
               PROVE  ReadInTurn'
    BY DEF ReadInTurn
  <2>1. PICK f \in [1 .. 3 -> 0 .. ticks], g \in [1 .. 3 -> 0 .. ticks] :
          /\ f[1] <= f[2] /\ f[2] <= f[3] /\ f[3] <= g[1] /\ g[1] <= g[2] /\ g[2] <= g[3]
          /\ last # <<>> => \A r \in 1 .. 3 : last[r] = Registers(Moment(f[r]))[r]
          /\ \A r \in 1 .. (reg - 1) : cur[r] = Registers(Moment(g[r]))[r]
    BY DEF ReadInTurn
  <2>2. /\ last' # <<>> => \A r \in 1 .. 3 : last'[r] = (Registers(Moment(f[r])))'[r]
        /\ \A r \in 1 .. (reg' - 1) : cur'[r] = (Registers(Moment(g[r])))'[r]
    BY <1>1, <2>1
  <2> QED
    BY <2>1, <2>2 DEF ReadInTurn
<1> QED
  BY <1>2, <1>3

\* Registers hold bytes.
LEMMA RegistersAreBytes ==
  ASSUME bcd \in BOOLEAN, twelve \in BOOLEAN, NEW t \in 0 .. (Day - 1)
  PROVE  Registers(t) \in [1 .. 3 -> 0 .. 255]
<1>1. Coded(SecondOf(t)) \in 0 .. 255 /\ Coded(MinuteOf(t)) \in 0 .. 255
      /\ CodedHour(HourOf(t)) \in 0 .. 255
  BY PartsOfTime, DecodedIs, HourDecodedIs
<1> QED
  BY <1>1 DEF Registers

LEMMA MomentInDay ==
  ASSUME ClockTypeOK, NEW x \in Nat
  PROVE  Moment(x) \in 0 .. (Day - 1) /\ began + x \in Nat
<1>1. began \in Nat /\ Day \in Nat /\ Day >= 1
  BY ClockConstants DEF ClockTypeOK
<1>2. began + x \in Nat
  BY <1>1
<1> QED
  BY <1>1, <1>2, QuotientOf DEF Moment

LEMMA ClockInitInv ==
  ASSUME ClockInit
  PROVE  ClockIndInv
<1>1. 0 \in 0 .. (Day - 1) /\ 0 \in 0 .. MaxTicks
  BY ClockConstants
<1>2. NoReading \in [1 .. 3 -> 0 .. 255] /\ \A r \in 1 .. 3 : NoReading[r] \in 0 .. 255
  BY DEF NoReading
<1>3. ClockTypeOK
  <2>1. \A r \in 1 .. 3 : cur[r] \in 0 .. 255 /\ (last # <<>> => last[r] \in 0 .. 255)
    BY <1>2 DEF ClockInit
  <2>2. bcd \in BOOLEAN /\ twelve \in BOOLEAN /\ uip \in BOOLEAN
    BY DEF ClockInit
  <2>3. cpc = "idle" /\ reg = 1 /\ now = 0 /\ began = 0 /\ ticks = 0
    BY DEF ClockInit
  <2> QED
    BY <1>1, <2>1, <2>2, <2>3 DEF ClockTypeOK
<1> QED
  BY <1>2, <1>3 DEF ClockInit, ClockIndInv, ReadInTurn, ReadAtOnce, ShownAtOnce

\* The call begins: nothing is read.
LEMMA ReadRtcStep ==
  ASSUME ClockIndInv, read_rtc
  PROVE  ClockIndInv'
<1>1. /\ cpc' = "wait" /\ cur' = NoReading /\ last' = <<>> /\ began' = now /\ ticks' = 0
      /\ UNCHANGED <<bcd, twelve, now, uip, reg>> /\ reg = 1
      /\ now \in 0 .. (Day - 1)
  BY DEF read_rtc, ClockIndInv, ClockTypeOK
<1>2. NoReading \in [1 .. 3 -> 0 .. 255] /\ \A r \in 1 .. 3 : NoReading[r] \in 0 .. 255
  BY DEF NoReading
<1>3. ClockTypeOK' /\ (uip' => ticks' < MaxTicks)
  BY <1>1, <1>2, ClockConstants DEF ClockIndInv, ClockTypeOK
<1>4. now' = Moment(ticks)'
  <2>1. (now + 0) % Day = now
    BY <1>1, ClockConstants
  <2> QED
    BY <1>1, <2>1 DEF Moment
<1>5. ReadInTurn'
  <2> DEFINE z == [r \in 1 .. 3 |-> 0]
  <2>1. z \in [1 .. 3 -> 0 .. 0] /\ z[1] = 0 /\ z[2] = 0 /\ z[3] = 0
    OBVIOUS
  <2> HIDE DEF z
  <2> QED
    BY <1>1, <2>1 DEF ReadInTurn
<1> QED
  BY <1>1, <1>2, <1>3, <1>4, <1>5 DEF ClockIndInv, ReadAtOnce, ShownAtOnce

LEMMA WaitNoUpdateStep ==
  ASSUME ClockIndInv, WaitNoUpdate
  PROVE  ClockIndInv'
<1>1. /\ cpc = "wait" /\ cpc' = "read"
      /\ UNCHANGED <<bcd, twelve, now, uip, reg, cur, last, began, ticks>>
  BY DEF WaitNoUpdate
<1>2. ClockTypeOK'
  BY <1>1 DEF ClockIndInv, ClockTypeOK
<1>3. ReadInTurn'
  BY <1>1, ReadingsStay DEF ClockIndInv
<1> QED
  BY <1>1, <1>2, <1>3 DEF ClockIndInv, ReadAtOnce, ShownAtOnce, Moment

LEMMA ReadRegisterStep ==
  ASSUME ClockIndInv, ReadRegister
  PROVE  ClockIndInv'
<1>1. /\ cpc = "read" /\ reg \in 1 .. 3 /\ reg' = reg + 1
      /\ cur' = [cur EXCEPT ![reg] = Registers(now)[reg]]
      /\ UNCHANGED <<bcd, twelve, now, uip, cpc, last, began, ticks>>
  BY DEF ReadRegister, ClockIndInv, ClockTypeOK
<1>2. /\ bcd \in BOOLEAN /\ twelve \in BOOLEAN /\ now \in 0 .. (Day - 1)
      /\ now = Moment(ticks) /\ cur \in [1 .. 3 -> 0 .. 255] /\ ticks \in Nat
  BY <1>1, ClockConstants DEF ClockIndInv, ClockTypeOK
<1>3. Registers(now) \in [1 .. 3 -> 0 .. 255]
  BY <1>2, RegistersAreBytes
<1>4. PICK v \in 0 .. 255 : v = Registers(now)[reg]
  BY <1>1, <1>3
<1>5. /\ cur' \in [1 .. 3 -> 0 .. 255] /\ cur'[reg] = v
      /\ \A r \in 1 .. 3 : cur'[r] \in 0 .. 255
      /\ \A r \in 1 .. 3 : r # reg => cur'[r] = cur[r]
  BY <1>1, <1>2, <1>4
<1>6. ClockTypeOK'
  <2>1. \A r \in 1 .. 3 : last' # <<>> => last'[r] \in 0 .. 255
    BY <1>1 DEF ClockIndInv, ClockTypeOK
  <2>2. cpc' # "done" /\ reg' \in 1 .. 4
    BY <1>1
  <2>3. /\ bcd' \in BOOLEAN /\ twelve' \in BOOLEAN /\ uip' \in BOOLEAN
        /\ now' \in 0 .. (Day - 1) /\ began' \in 0 .. (Day - 1) /\ ticks' \in 0 .. MaxTicks
        /\ cpc' \in {"idle", "wait", "read", "decode", "done"}
    BY <1>1 DEF ClockIndInv, ClockTypeOK
  <2> QED
    BY <1>5, <2>1, <2>2, <2>3 DEF ClockTypeOK
<1>7. \A t : Registers(t)' = Registers(t)
  BY <1>1 DEF Registers, Coded, CodedHour
<1>8. ReadInTurn'
  <2>1. PICK f \in [1 .. 3 -> 0 .. ticks], g \in [1 .. 3 -> 0 .. ticks] :
          /\ f[1] <= f[2] /\ f[2] <= f[3] /\ f[3] <= g[1] /\ g[1] <= g[2] /\ g[2] <= g[3]
          /\ last # <<>> => \A r \in 1 .. 3 : last[r] = Registers(Moment(f[r]))[r]
          /\ \A r \in 1 .. (reg - 1) : cur[r] = Registers(Moment(g[r]))[r]
    BY <1>1 DEF ClockIndInv, ReadInTurn
  <2>2. PICK h \in [1 .. 3 -> 0 .. ticks] :
          \A r \in 1 .. 3 : h[r] = IF r < reg THEN g[r] ELSE ticks
    <3> DEFINE e == [r \in 1 .. 3 |-> IF r < reg THEN g[r] ELSE ticks]
    <3>1. e \in [1 .. 3 -> 0 .. ticks] /\ \A r \in 1 .. 3 : e[r] = IF r < reg THEN g[r] ELSE ticks
      BY <1>2
    <3> HIDE DEF e
    <3> QED
      BY <3>1
  <2>3. f[3] <= h[1] /\ h[1] <= h[2] /\ h[2] <= h[3]
    BY <1>1, <1>2, <2>1, <2>2
  <2>4. ASSUME NEW r \in 1 .. reg
        PROVE  cur'[r] = Registers(Moment(h[r]))[r]
    <3>1. r \in 1 .. 3
      BY <1>1
    <3>2. CASE r = reg
      BY <3>1, <3>2, <2>2, <1>1, <1>2, <1>4, <1>5
    <3>3. CASE r # reg
      <4>1. r < reg /\ r \in 1 .. (reg - 1)
        BY <3>3, <1>1
      <4> QED
        BY <3>1, <3>3, <4>1, <2>1, <2>2, <1>5
    <3> QED
      BY <3>2, <3>3
  <2>5. \A x : Moment(x)' = Moment(x)
    BY <1>1 DEF Moment
  <2>6. reg' - 1 = reg /\ ticks' = ticks /\ last' = last
    BY <1>1
  <2>7. /\ last' # <<>> => \A r \in 1 .. 3 : last'[r] = (Registers(Moment(f[r]))[r])'
        /\ \A r \in 1 .. (reg' - 1) : cur'[r] = (Registers(Moment(h[r]))[r])'
    BY <2>1, <2>4, <2>6, <1>1 DEF Registers, Coded, CodedHour, Moment
  <2> QED
    BY <2>1, <2>2, <2>3, <2>6, <2>7 DEF ReadInTurn
<1> QED
  BY <1>1, <1>2, <1>5, <1>6, <1>8 DEF ClockIndInv, ReadAtOnce, ShownAtOnce, Moment

\* Two readings that agree were taken within a minute, so that their seconds were the same
\* second, and all that was read in between is of that second.
LEMMA AgreeAtOnce ==
  ASSUME ClockIndInv, cpc = "read", reg = 4, cur = last
  PROVE  \E x \in 0 .. ticks : cur = Registers(Moment(x))
<1>1. /\ bcd \in BOOLEAN /\ twelve \in BOOLEAN /\ ticks \in Nat /\ ticks < Seconds
      /\ cur \in [1 .. 3 -> 0 .. 255] /\ began \in Nat /\ ClockTypeOK
  BY ClockConstants DEF ClockIndInv, ClockTypeOK
<1>2. last # <<>>
  BY <1>1
<1>3. PICK f \in [1 .. 3 -> 0 .. ticks], g \in [1 .. 3 -> 0 .. ticks] :
        /\ f[1] <= f[2] /\ f[2] <= f[3] /\ f[3] <= g[1] /\ g[1] <= g[2] /\ g[2] <= g[3]
        /\ \A r \in 1 .. 3 : cur[r] = Registers(Moment(f[r]))[r]
        /\ \A r \in 1 .. 3 : cur[r] = Registers(Moment(g[r]))[r]
  BY <1>2 DEF ClockIndInv, ReadInTurn
<1>4. PICK a \in 0 .. ticks, b \in 0 .. ticks : a = f[1] /\ b = g[1]
  OBVIOUS
<1>5. Moment(a) \in 0 .. (Day - 1) /\ Moment(b) \in 0 .. (Day - 1)
      /\ began + a \in Nat /\ began + b \in Nat
  BY <1>1, MomentInDay
<1>6. Coded(SecondOf(Moment(a))) = Coded(SecondOf(Moment(b)))
  <2>1. cur[1] = Registers(Moment(a))[1] /\ cur[1] = Registers(Moment(b))[1]
    BY <1>3, <1>4
  <2> QED
    BY <2>1 DEF Registers
<1>7. SecondOf(Moment(a)) = SecondOf(Moment(b))
  <2>1. SecondOf(Moment(a)) \in 0 .. 59 /\ SecondOf(Moment(b)) \in 0 .. 59
    BY <1>5, PartsOfTime
  <2>2. /\ Decoded(Coded(SecondOf(Moment(a)))) = SecondOf(Moment(a))
        /\ Decoded(Coded(SecondOf(Moment(b)))) = SecondOf(Moment(b))
    BY <1>1, <2>1, DecodedIs
  <2> QED
    BY <1>6, <2>2
<1>8. (began + a) % Seconds = (began + b) % Seconds
  BY <1>5, <1>7, SecondsOfDays DEF Moment
<1>9. began + a = began + b
  <2>1. began + a <= began + b /\ (began + b) - (began + a) < Seconds
    BY <1>1, <1>3, <1>4, ClockConstants
  <2> QED
    BY <1>5, <1>8, <2>1, SecondsApart
<1>10. f[1] = a /\ f[2] = a /\ f[3] = a
  BY <1>1, <1>3, <1>4, <1>9
<1>11. \A r \in 1 .. 3 : cur[r] = Registers(Moment(a))[r]
  BY <1>3, <1>10
<1>12. Registers(Moment(a)) \in [1 .. 3 -> 0 .. 255]
  BY <1>1, <1>5, RegistersAreBytes
<1> QED
  BY <1>1, <1>11, <1>12

LEMMA CompareStep ==
  ASSUME ClockIndInv, Compare
  PROVE  ClockIndInv'
<1>1. /\ cpc = "read" /\ reg = 4 /\ cpc' = (IF cur = last THEN "decode" ELSE "wait")
      /\ reg' = 1 /\ last' = cur
      /\ UNCHANGED <<bcd, twelve, now, uip, cur, began, ticks>>
  BY DEF Compare
<1>2. cur \in [1 .. 3 -> 0 .. 255] /\ ticks \in Nat
  BY ClockConstants DEF ClockIndInv, ClockTypeOK
<1>3. ClockTypeOK'
  BY <1>1, <1>2 DEF ClockIndInv, ClockTypeOK
<1>4. ReadAtOnce'
  <2> SUFFICES ASSUME cur = last
               PROVE  ReadAtOnce'
    BY <1>1 DEF ReadAtOnce
  <2>1. PICK x \in 0 .. ticks : cur = Registers(Moment(x))
    BY <1>1, AgreeAtOnce
  <2>2. cur' = Registers(Moment(x))'
    BY <1>1, <2>1 DEF Registers, Moment, Coded, CodedHour
  <2> QED
    BY <1>1, <2>2 DEF ReadAtOnce
<1>5. ReadInTurn'
  <2>1. PICK f \in [1 .. 3 -> 0 .. ticks], g \in [1 .. 3 -> 0 .. ticks] :
          /\ g[1] <= g[2] /\ g[2] <= g[3]
          /\ \A r \in 1 .. 3 : cur[r] = Registers(Moment(g[r]))[r]
    BY <1>1 DEF ClockIndInv, ReadInTurn
  <2>2. PICK h \in [1 .. 3 -> 0 .. ticks] : \A r \in 1 .. 3 : h[r] = ticks
    <3> DEFINE e == [r \in 1 .. 3 |-> ticks]
    <3>1. e \in [1 .. 3 -> 0 .. ticks] /\ \A r \in 1 .. 3 : e[r] = ticks
      BY <1>2
    <3> HIDE DEF e
    <3> QED
      BY <3>1
  <2>3. g[3] <= h[1] /\ h[1] <= h[2] /\ h[2] <= h[3]
    BY <1>2, <2>2
  <2>4. \A r \in 1 .. 3 : last'[r] = (Registers(Moment(g[r]))[r])'
    BY <1>1, <2>1 DEF Registers, Moment, Coded, CodedHour
  <2>5. ticks' = ticks /\ reg' = 1
    BY <1>1
  <2> QED
    BY <2>1, <2>2, <2>3, <2>4, <2>5 DEF ReadInTurn
<1> QED
  BY <1>1, <1>2, <1>3, <1>4, <1>5 DEF ClockIndInv, ShownAtOnce, Moment

LEMMA DecodeStep ==
  ASSUME ClockIndInv, Decode
  PROVE  ClockIndInv'
<1>1. /\ cpc = "decode" /\ cpc' = "done"
      /\ UNCHANGED <<bcd, twelve, now, uip, reg, last, began, ticks>>
      /\ cur' = <<Decoded(cur[1]), Decoded(cur[2]), To24(DecodedHour(cur[3]))>>
  BY DEF Decode, Decoded, DecodedHour
<1>2. /\ bcd \in BOOLEAN /\ twelve \in BOOLEAN /\ ticks \in Nat /\ ClockTypeOK
  BY ClockConstants DEF ClockIndInv, ClockTypeOK
<1>3. PICK x \in 0 .. ticks : cur = Registers(Moment(x))
  BY <1>1 DEF ClockIndInv, ReadAtOnce
<1>4. PICK t \in 0 .. (Day - 1) : t = Moment(x)
  BY <1>2, MomentInDay
<1>5. /\ cur[1] = Coded(SecondOf(t)) /\ cur[2] = Coded(MinuteOf(t))
      /\ cur[3] = CodedHour(HourOf(t))
  BY <1>3, <1>4 DEF Registers
<1>6. SecondOf(t) \in 0 .. 59 /\ MinuteOf(t) \in 0 .. 59 /\ HourOf(t) \in 0 .. 23
  BY PartsOfTime
<1>7. /\ cur' = <<SecondOf(t), MinuteOf(t), ShownHour(HourOf(t))>>
      /\ ShownHour(HourOf(t)) \in 0 .. 23
  BY <1>1, <1>2, <1>5, <1>6, DecodedIs, HourDecodedIs
<1>8. cur' \in [1 .. 3 -> 0 .. 255] /\ cur'[3] < 24 /\ \A r \in 1 .. 3 : cur'[r] \in 0 .. 255
  BY <1>6, <1>7
<1>9. ClockTypeOK'
  BY <1>1, <1>8 DEF ClockIndInv, ClockTypeOK
<1>10. ShownAtOnce'
  <2>1. /\ x \in 0 .. ticks' /\ (began' + x) % Day = t
        /\ ShownHour(HourOf(t))' = ShownHour(HourOf(t))
    BY <1>1, <1>4 DEF Moment, ShownHour, HourOf
  <2>2. cur' = (LET u == (began + x) % Day
                IN  <<SecondOf(u), MinuteOf(u), ShownHour(HourOf(u))>>)'
    BY <1>7, <2>1 DEF SecondOf, MinuteOf, HourOf, ShownHour
  <2> QED
    BY <2>1, <2>2 DEF ShownAtOnce
<1> QED
  BY <1>1, <1>8, <1>9, <1>10 DEF ClockIndInv, ReadInTurn, ReadAtOnce, Moment

LEMMA TimeShownStep ==
  ASSUME ClockIndInv, TimeShown
  PROVE  ClockIndInv'
<1>1. /\ cpc' = "idle" /\ cur' = NoReading /\ last' = <<>> /\ began' = 0 /\ ticks' = 0
      /\ UNCHANGED <<bcd, twelve, now, uip, reg>> /\ reg = 1
  BY DEF TimeShown, ClockIndInv
<1>2. NoReading \in [1 .. 3 -> 0 .. 255] /\ \A r \in 1 .. 3 : NoReading[r] \in 0 .. 255
  BY DEF NoReading
<1>3. ClockTypeOK' /\ (uip' => ticks' < MaxTicks)
  BY <1>1, <1>2, ClockConstants DEF ClockIndInv, ClockTypeOK
<1> QED
  BY <1>1, <1>2, <1>3 DEF ClockIndInv, ReadInTurn, ReadAtOnce, ShownAtOnce

LEMMA AnnounceStep ==
  ASSUME ClockIndInv, Announce
  PROVE  ClockIndInv'
<1>1. /\ uip' = TRUE /\ ticks < MaxTicks
      /\ UNCHANGED <<bcd, twelve, now, cpc, reg, cur, last, began, ticks>>
  BY DEF Announce
<1>2. ClockTypeOK'
  BY <1>1 DEF ClockIndInv, ClockTypeOK
<1>3. ReadInTurn' /\ ReadAtOnce'
  BY <1>1, ReadingsStay DEF ClockIndInv
<1>4. ShownAtOnce'
  BY <1>1 DEF ClockIndInv, ShownAtOnce, ShownHour
<1> QED
  BY <1>1, <1>2, <1>3, <1>4 DEF ClockIndInv, Moment

\* The clock goes on: what has been read was the time at its moment all the same.
LEMMA UpdateStep ==
  ASSUME ClockIndInv, Update
  PROVE  ClockIndInv'
<1>1. /\ uip' = FALSE /\ now' = (now + 1) % Day
      /\ ticks' = (IF cpc = "idle" THEN 0 ELSE ticks + 1)
      /\ UNCHANGED <<bcd, twelve, cpc, reg, cur, last, began>>
  BY DEF Update
<1>2. /\ ticks \in Nat /\ ticks < MaxTicks /\ MaxTicks \in Nat /\ began \in Nat
      /\ now \in Nat /\ Day \in Nat /\ Day >= 1 /\ ClockTypeOK
  BY ClockConstants DEF Update, ClockIndInv, ClockTypeOK
<1>3. now' \in 0 .. (Day - 1) /\ ticks' \in 0 .. MaxTicks
  <2>1. now + 1 \in Nat
    BY <1>2
  <2>2. (now + 1) % Day \in 0 .. (Day - 1)
    BY <1>2, <2>1, QuotientOf
  <2> QED
    BY <1>1, <1>2, <2>2
<1>4. ClockTypeOK'
  <2>1. bcd' \in BOOLEAN /\ twelve' \in BOOLEAN /\ uip' \in BOOLEAN
    BY <1>1, <1>2 DEF ClockTypeOK
  <2>2. /\ began' \in 0 .. (Day - 1) /\ reg' \in 1 .. 4
        /\ cpc' \in {"idle", "wait", "read", "decode", "done"}
        /\ cpc' = "done" => cur'[3] < 24
        /\ \A r \in 1 .. 3 : cur'[r] \in 0 .. 255 /\ (last' # <<>> => last'[r] \in 0 .. 255)
    BY <1>1, <1>2 DEF ClockTypeOK
  <2> QED
    BY <1>3, <2>1, <2>2 DEF ClockTypeOK
<1>5. CASE cpc = "idle"
  BY <1>1, <1>4, <1>5 DEF ClockIndInv, ReadInTurn, ReadAtOnce, ShownAtOnce
<1>6. CASE cpc # "idle"
  <2>1. ticks' = ticks + 1 /\ \A y \in 0 .. ticks : y \in 0 .. ticks'
    BY <1>1, <1>2, <1>6
  <2>2. now' = Moment(ticks)'
    <3>1. now = (began + ticks) % Day
      BY <1>6 DEF ClockIndInv, Moment
    <3>2. began + ticks \in Nat
      BY <1>2
    <3>3. (((began + ticks) % Day) + 1) % Day = (began + ticks + 1) % Day
      BY <1>2, <3>2, CountOn
    <3>4. began + ticks + 1 = began' + ticks'
      BY <1>1, <1>2, <2>1
    <3> QED
      BY <1>1, <3>1, <3>3, <3>4 DEF Moment
  <2>3. ReadInTurn'
    <3> SUFFICES ASSUME cpc \in {"wait", "read"}
                 PROVE  ReadInTurn'
      BY <1>1 DEF ReadInTurn
    <3>1. PICK f \in [1 .. 3 -> 0 .. ticks], g \in [1 .. 3 -> 0 .. ticks] :
            /\ f[1] <= f[2] /\ f[2] <= f[3] /\ f[3] <= g[1] /\ g[1] <= g[2] /\ g[2] <= g[3]
            /\ last # <<>> => \A r \in 1 .. 3 : last[r] = Registers(Moment(f[r]))[r]
            /\ \A r \in 1 .. (reg - 1) : cur[r] = Registers(Moment(g[r]))[r]
      BY DEF ClockIndInv, ReadInTurn
    <3>2. f \in [1 .. 3 -> 0 .. ticks'] /\ g \in [1 .. 3 -> 0 .. ticks']
      BY <2>1
    <3>3. /\ last' # <<>> => \A r \in 1 .. 3 : last'[r] = (Registers(Moment(f[r]))[r])'
          /\ \A r \in 1 .. (reg' - 1) : cur'[r] = (Registers(Moment(g[r]))[r])'
      BY <1>1, <3>1 DEF Registers, Moment, Coded, CodedHour
    <3> QED
      BY <3>1, <3>2, <3>3 DEF ReadInTurn
  <2>4. ReadAtOnce'
    <3> SUFFICES ASSUME cpc = "decode"
                 PROVE  ReadAtOnce'
      BY <1>1 DEF ReadAtOnce
    <3>1. PICK x \in 0 .. ticks : cur = Registers(Moment(x))
      BY DEF ClockIndInv, ReadAtOnce
    <3>2. cur' = Registers(Moment(x))'
      BY <1>1, <3>1 DEF Registers, Moment, Coded, CodedHour
    <3> QED
      BY <2>1, <3>2 DEF ReadAtOnce
  <2>5. ShownAtOnce'
    <3> SUFFICES ASSUME cpc = "done"
                 PROVE  ShownAtOnce'
      BY <1>1 DEF ShownAtOnce
    <3>1. PICK x \in 0 .. ticks :
            cur = LET t == (began + x) % Day
                  IN  <<SecondOf(t), MinuteOf(t), ShownHour(HourOf(t))>>
      BY DEF ClockIndInv, ShownAtOnce
    <3>2. cur' = (LET t == (began + x) % Day
                  IN  <<SecondOf(t), MinuteOf(t), ShownHour(HourOf(t))>>)'
      BY <1>1, <3>1 DEF ShownHour
    <3> QED
      BY <2>1, <3>2 DEF ShownAtOnce
  <2> QED
    BY <1>1, <1>4, <2>2, <2>3, <2>4, <2>5 DEF ClockIndInv
<1> QED
  BY <1>5, <1>6

LEMMA ClockStep == ClockIndInv /\ [ClockNext]_clockVars => ClockIndInv'
<1> SUFFICES ASSUME ClockIndInv, [ClockNext]_clockVars
             PROVE  ClockIndInv'
  OBVIOUS
<1>1. CASE UNCHANGED clockVars
  <2>1. ClockTypeOK'
    BY <1>1 DEF ClockIndInv, ClockTypeOK, clockVars
  <2>2. ReadInTurn' /\ ReadAtOnce'
    BY <1>1, ReadingsStay DEF ClockIndInv, clockVars
  <2>3. ShownAtOnce'
    BY <1>1 DEF ClockIndInv, ShownAtOnce, ShownHour, clockVars
  <2> QED
    BY <1>1, <2>1, <2>2, <2>3 DEF ClockIndInv, Moment, clockVars
<1> QED
  BY <1>1, ReadRtcStep, WaitNoUpdateStep, ReadRegisterStep, CompareStep, DecodeStep,
     TimeShownStep, AnnounceStep, UpdateStep DEF ClockNext, ReadStep

\* For every length of minute and hour up to 60, and a call of less than a minute: read_rtc
\* yields a time that the clock had during the call, in each of the four formats, although
\* the clock goes on between the registers; only the hour from twelve to one of a 12-hour
\* clock is left open.
THEOREM ClockInvariant == ClockSpec => []ClockInv
<1>1. ClockInit => ClockIndInv
  BY ClockInitInv
<1>2. ClockIndInv => ClockInv
  BY DEF ClockIndInv, ClockInv, ShownAtOnce, TimeWasRightUnlessTwelve, ShownHour
<1> QED
  BY <1>1, <1>2, ClockStep, PTL DEF ClockSpec
=============================================================================
