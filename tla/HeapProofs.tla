----------------------------- MODULE HeapProofs -----------------------------
(* Theorems about the kernel heap, for every size of heap, header and request. *)
EXTENDS Heap, SetInduction, FiniteSetTheorems, TLAPS

(***************************************************************************)
(* The walks.  Behind kmalloc's position no free block was large enough;   *)
(* behind kfree's, and everywhere when no kfree runs, no two neighbours    *)
(* are both free.                                                          *)
(***************************************************************************)
Passed(a) == curr = NoElement \/ a < curr

Scanned == call = "kmalloc" =>
             \A a \in Blocks : Passed(a) /\ IsFree(a) => heap[a].size < want

Apart(a) == ~(IsFree(a) /\ heap[a].next # NoElement /\ IsFree(heap[a].next))

Swept == \A a \in Blocks : call # "kfree" \/ Passed(a) => Apart(a)

HeapInv == HeapTypeOK /\ Tiled /\ HeldIsBacked /\ Scanned /\ Swept
-----------------------------------------------------------------------------
(* Facts about one state. *)

\* The fields of a header, with their types.
LEMMA Fields ==
  ASSUME HeapTypeOK, NEW a \in Addr
  PROVE  /\ heap[a].size \in Int /\ 0 <= heap[a].size /\ heap[a].size <= HeapSize
         /\ heap[a].next \in Addr \cup {NoElement}
         /\ heap[a].is \in {"free", "used", "none"}
         /\ held[a] \in Int
         /\ HeapSize \in Int /\ Header \in Int /\ Header > 0 /\ Slack \in Int
         /\ Slack >= 0 /\ Word \in Int /\ a \in Int /\ want \in Int /\ want >= 0
  BY HeapAssumption DEF HeapTypeOK, Block, NoBlock, Addr, NoElement, NotHeld

\* The list follows the addresses: what lies before the next block lies at or
\* before this one, and nothing lies behind the last.
LEMMA Order ==
  ASSUME HeapTypeOK, Tiled, NEW c \in Blocks
  PROVE  /\ heap[c].next # NoElement =>
              /\ heap[c].next = End(c) /\ heap[c].next \in Blocks /\ heap[c].next > c
              /\ \A a \in Blocks : a < heap[c].next => a = c \/ a < c
         /\ heap[c].next = NoElement =>
              /\ End(c) = HeapSize
              /\ \A a \in Blocks : a = c \/ a < c
  <1>1. c \in Addr
    BY DEF Blocks
  <1>2. \A a \in Blocks : a \in Addr /\ a \in Int /\ a < HeapSize
    BY HeapAssumption DEF Blocks, Addr
  <1>3. /\ End(c) \in Int /\ End(c) > c
        /\ HeapSize \in Int /\ c \in Int
    BY <1>1, Fields DEF End
  <1>4. \/ End(c) = HeapSize /\ heap[c].next = NoElement
        \/ End(c) \in Blocks /\ heap[c].next = End(c)
    BY DEF Tiled
  <1>5. \A b \in Blocks : c < b => End(c) <= b
    BY DEF Tiled
  <1>6. CASE heap[c].next # NoElement
    BY <1>2, <1>3, <1>4, <1>5, <1>6
  <1>7. CASE heap[c].next = NoElement
    <2>1. End(c) = HeapSize
      BY <1>2, <1>3, <1>4, <1>7 DEF NoElement, Addr
    <2> QED BY <1>2, <1>3, <1>5, <1>7, <2>1
  <1> QED BY <1>6, <1>7

\* When no headers change, neither does the tiling.
LEMMA SameHeap ==
  ASSUME heap' = heap
  PROVE  /\ Blocks' = Blocks
         /\ \A a : IsFree(a)' = IsFree(a) /\ End(a)' = End(a) /\ Apart(a)' = Apart(a)
         /\ Tiled => Tiled'
         /\ HeldIsBacked /\ held' = held => HeldIsBacked'
  BY DEF Blocks, IsFree, End, Apart, Tiled, HeldIsBacked
-----------------------------------------------------------------------------
(* One lemma per step. *)

LEMMA InitHeap == HeapInit => HeapInv
  <1> SUFFICES ASSUME HeapInit PROVE HeapInv
    OBVIOUS
  <1> USE HeapAssumption DEF HeapInit
  <1>1. 0 \in Addr /\ HeapSize - Header \in 0 .. HeapSize
    BY DEF Addr
  <1>2. Blocks = {0}
    BY <1>1 DEF Blocks, NoBlock
  <1>3. heap[0] = [size |-> HeapSize - Header, is |-> "free", next |-> NoElement]
    BY <1>1
  <1>4. HeapTypeOK
    BY <1>1 DEF HeapTypeOK, Block, NotHeld
  <1>5. Tiled
    BY <1>2, <1>3 DEF Tiled, End, Addr
  <1>6. HeldIsBacked
    BY DEF HeldIsBacked, NoBlock, NotHeld
  <1>7. Scanned /\ Swept
    BY <1>2, <1>3 DEF Scanned, Swept, Apart
  <1> QED BY <1>4, <1>5, <1>6, <1>7 DEF HeapInv

\* Beginning a kmalloc: nothing lies before the first block.
LEMMA KmallocStep ==
  ASSUME HeapInv, NEW n \in Requests, Kmalloc(n)
  PROVE  HeapInv'
  <1> USE DEF HeapInv
  <1>1. heap' = heap /\ held' = held
    BY DEF Kmalloc
  <1>2. HeapTypeOK'
    BY <1>1, SameHeap, HeapAssumption DEF HeapTypeOK, Kmalloc, Tiled
  <1>3. Scanned'
    <2>1. \A a \in Blocks' : ~(a < 0) /\ 0 # NoElement
      BY HeapAssumption DEF Blocks, Addr, NoElement
    <2> QED BY <2>1 DEF Kmalloc, Scanned, Passed
  <1>4. Swept'
    BY <1>1, SameHeap DEF Kmalloc, Swept
  <1> QED BY <1>1, <1>2, <1>3, <1>4, SameHeap

LEMMA SkipStep ==
  ASSUME HeapInv, Skip
  PROVE  HeapInv'
  <1> USE DEF HeapInv
  <1>1. heap' = heap /\ held' = held /\ call' = call /\ want' = want
    BY DEF Skip
  <1>2. curr \in Blocks /\ curr' = heap[curr].next
    BY DEF Skip, HeapTypeOK
  <1>3. curr' \in Blocks \cup {NoElement}
    BY <1>2, Order
  <1>4. HeapTypeOK'
    BY <1>1, <1>3, SameHeap DEF HeapTypeOK
  <1>5. Scanned'
    <2> SUFFICES ASSUME NEW a \in Blocks, Passed(a)', IsFree(a) PROVE heap[a].size < want
      BY <1>1, SameHeap DEF Scanned
    <2>1. a = curr \/ a < curr
      BY <1>2, Order DEF Passed
    <2>2. CASE a = curr
      <3>1. ~(heap[a].size >= want)
        BY <2>2 DEF Skip, Fits
      <3> QED BY <3>1, Fields DEF Blocks
    <2>3. CASE a < curr
      BY <2>3 DEF Scanned, Passed, Skip
    <2> QED BY <2>1, <2>2, <2>3
  <1>6. Swept'
    BY <1>1, SameHeap DEF Skip, Swept
  <1> QED BY <1>1, <1>4, <1>5, <1>6, SameHeap

LEMMA RefuseStep ==
  ASSUME HeapInv, Refuse
  PROVE  HeapInv'
  <1> USE DEF HeapInv
  <1>1. heap' = heap /\ held' = held /\ call' = "idle" /\ curr' = NoElement /\ want' = 0
    BY DEF Refuse, Return
  <1>2. HeapTypeOK'
    BY <1>1, SameHeap, HeapAssumption DEF HeapTypeOK
  <1>3. Scanned' /\ Swept'
    BY <1>1, SameHeap DEF Refuse, Scanned, Swept
  <1> QED BY <1>1, <1>2, <1>3, SameHeap

LEMMA AdvanceStep ==
  ASSUME HeapInv, Advance
  PROVE  HeapInv'
  <1> USE DEF HeapInv
  <1>1. heap' = heap /\ held' = held /\ call' = call /\ want' = want
    BY DEF Advance
  <1>2. curr \in Blocks /\ curr' = heap[curr].next
    BY DEF Advance, HeapTypeOK
  <1>3. curr' \in Blocks \cup {NoElement}
    BY <1>2, Order
  <1>4. HeapTypeOK'
    BY <1>1, <1>3, SameHeap DEF HeapTypeOK
  <1>5. Swept'
    <2> SUFFICES ASSUME NEW a \in Blocks, Passed(a)' PROVE Apart(a)
      BY <1>1, SameHeap DEF Swept, Advance
    <2>1. a = curr \/ a < curr
      BY <1>2, Order DEF Passed
    <2>2. CASE a = curr
      BY <2>2 DEF Advance, FreePair, Apart
    <2>3. CASE a < curr
      BY <2>3 DEF Swept, Passed
    <2> QED BY <2>1, <2>2, <2>3
  <1>6. Scanned'
    BY <1>1 DEF Advance, Scanned
  <1> QED BY <1>1, <1>4, <1>5, <1>6, SameHeap

LEMMA DoneStep ==
  ASSUME HeapInv, Done
  PROVE  HeapInv'
  <1> USE DEF HeapInv
  <1>1. heap' = heap /\ held' = held /\ call' = "idle" /\ curr' = NoElement /\ want' = 0
    BY DEF Done, Return
  <1>2. HeapTypeOK'
    BY <1>1, SameHeap, HeapAssumption DEF HeapTypeOK
  <1>3. \A a \in Blocks : Apart(a)
    BY DEF Done, Swept, Passed
  <1>4. Scanned' /\ Swept'
    BY <1>1, <1>3, SameHeap DEF Scanned, Swept
  <1> QED BY <1>1, <1>2, <1>4, SameHeap

\* Freeing a block changes neither its extent nor the list.
LEMMA KfreeStep ==
  ASSUME HeapInv, NEW f \in Addr, Kfree(f)
  PROVE  HeapInv'
  <1> USE DEF HeapInv
  <1>1. heap[f].is = "used"
    BY DEF HeldIsBacked, Kfree
  <1>2. heap[f] \in Block
    BY <1>1 DEF HeapTypeOK, NoBlock
  <1>3. /\ heap'[f] = [heap[f] EXCEPT !.is = "free"]
        /\ \A a \in Addr : a # f => heap'[a] = heap[a]
        /\ heap' \in [Addr -> Block \cup {NoBlock}]
    BY <1>2 DEF Kfree, HeapTypeOK, Block
  <1>4. /\ heap'[f].is = "free" /\ heap'[f].size = heap[f].size
        /\ heap'[f].next = heap[f].next
    BY <1>2, <1>3 DEF Block
  <1>5. Blocks' = Blocks
    BY <1>1, <1>3, <1>4 DEF Blocks
  <1>6. \A a \in Addr : heap'[a].size = heap[a].size /\ heap'[a].next = heap[a].next
    BY <1>3, <1>4
  <1>7. HeapTypeOK'
    BY <1>3, <1>5, HeapAssumption DEF Kfree, HeapTypeOK, Tiled
  <1>8. Tiled'
    BY <1>5, <1>6 DEF Tiled, End, Blocks
  <1>9. HeldIsBacked'
    BY <1>1, <1>3, <1>4, <1>6 DEF HeldIsBacked, Kfree, HeapTypeOK
  <1>10. Scanned'
    BY DEF Kfree, Scanned
  <1>11. Swept'
    <2>1. \A a \in Blocks' : ~(a < 0) /\ 0 # NoElement
      BY HeapAssumption DEF Blocks, Addr, NoElement
    <2> QED BY <2>1 DEF Kfree, Swept, Passed
  <1> QED BY <1>7, <1>8, <1>9, <1>10, <1>11

\* Merging two free neighbours removes one header and no byte.
LEMMA MergeStep ==
  ASSUME HeapInv, Merge
  PROVE  HeapInv'
  <1> USE DEF HeapInv
  <1> DEFINE n == heap[curr].next
  <1>1. curr \in Blocks /\ curr \in Addr /\ n # NoElement /\ IsFree(curr) /\ IsFree(n)
    BY DEF Merge, FreePair, HeapTypeOK, Blocks
  <1>2. /\ n = End(curr) /\ n \in Blocks /\ n \in Addr /\ n > curr
        /\ \A a \in Blocks : a < n => a = curr \/ a < curr
    BY <1>1, Order DEF Blocks
  <1>3. /\ heap[n].next # NoElement => /\ heap[n].next = End(n) /\ heap[n].next \in Blocks
                                  /\ heap[n].next > n
        /\ heap[n].next = NoElement => End(n) = HeapSize
    BY <1>2, Order
  <1> DEFINE new == [size |-> heap[curr].size + Header + heap[n].size,
                     is |-> "free", next |-> heap[n].next]
  <1>4. /\ heap'[curr] = new /\ heap'[n] = NoBlock
        /\ \A a \in Addr : a # curr /\ a # n => heap'[a] = heap[a]
        /\ heap' = [heap EXCEPT ![curr] = new, ![n] = NoBlock]
    BY <1>1, <1>2, Fields DEF Merge, Merged, HeapTypeOK
  <1> HIDE DEF n, new
  <1>5. new.size = heap[curr].size + Header + heap[n].size /\ new.next = heap[n].next
        /\ new.is = "free"
    BY DEF new
  <1>5a. /\ heap'[curr].is = "free" /\ heap'[n].is = "none"
         /\ heap[curr].is = "free" /\ heap[n].is = "free"
    BY <1>1, <1>4, <1>5 DEF NoBlock, IsFree
  <1>5b. \A a \in Addr : a # curr /\ a # n => heap'[a] = heap[a]
    BY <1>4
  <1>6. Blocks' = Blocks \ {n}
    BY <1>1, <1>2, <1>5a, <1>5b DEF Blocks
  <1>7. /\ End(curr)' = End(n) /\ heap'[curr].next = heap[n].next
        /\ End(curr) = n /\ End(n) <= HeapSize
    <2>1. End(n) <= HeapSize
      BY <1>3, HeapAssumption DEF Blocks, Addr
    <2>2. curr \in Int /\ heap[curr].size \in Int /\ heap[n].size \in Int /\ Header \in Int
      BY <1>1, <1>2, Fields
    <2>3. End(curr)' = curr' + Header + new.size /\ curr' = curr
      BY <1>4 DEF End, Merge
    <2> QED BY <1>2, <1>4, <1>5, <2>1, <2>2, <2>3 DEF End
  <1>8. new \in Block
    <2>1. /\ curr \in Int /\ curr >= 0 /\ n = curr + Header + heap[curr].size
          /\ End(n) = n + Header + heap[n].size
          /\ heap[curr].size \in Int /\ heap[curr].size >= 0
          /\ heap[n].size \in Int /\ heap[n].size >= 0 /\ Header \in Int /\ Header > 0
      BY <1>1, <1>2, Fields DEF End, Addr
    <2>2. heap[curr].size + Header + heap[n].size \in 0 .. HeapSize
      BY <2>1, <1>7, HeapAssumption
    <2>3. heap[n].next \in Addr \cup {NoElement}
      BY <1>2, Fields
    <2> QED BY <2>2, <2>3 DEF new, Block
  <1>9. HeapTypeOK'
    <2>1. heap' \in [Addr -> Block \cup {NoBlock}]
      BY <1>1, <1>2, <1>4, <1>8 DEF HeapTypeOK
    <2>2. curr' \in Blocks' /\ curr' = curr
      BY <1>1, <1>2, <1>6 DEF Merge, Addr
    <2> QED BY <2>1, <2>2 DEF HeapTypeOK, Merge
  <1>10. Tiled'
    <2>1. 0 \in Blocks'
      BY <1>2, <1>6, <1>1 DEF Tiled, Addr
    <2>2. ASSUME NEW a \in Blocks', a # curr
          PROVE  /\ End(a)' = End(a) /\ heap'[a] = heap[a] /\ a \in Blocks
                 /\ End(a) # n
      <3>1. a \in Blocks /\ a # n /\ a \in Addr
        BY <1>6, <2>2 DEF Blocks
      <3>2. End(a)' = End(a) /\ heap'[a] = heap[a]
        BY <1>4, <2>2, <3>1 DEF End
      <3>3. CASE a < curr
        <4>1. End(a) <= curr
          BY <1>1, <3>1, <3>3 DEF Tiled
        <4> QED BY <1>1, <1>2, <3>1, <3>2, <4>1 DEF Addr
      <3>4. CASE curr < a
        <4>1. End(curr) <= a
          BY <1>1, <3>1, <3>4 DEF Tiled
        <4>2. End(a) > a /\ End(a) \in Int /\ a \in Int
          BY <3>1, Fields DEF End
        <4> QED BY <1>2, <3>1, <3>2, <4>1, <4>2 DEF Addr
      <3> QED BY <1>1, <2>2, <3>1, <3>3, <3>4 DEF Addr
    <2>3. ASSUME NEW a \in Blocks'
          PROVE  \/ End(a)' = HeapSize /\ heap'[a].next = NoElement
                 \/ End(a)' \in Blocks' /\ heap'[a].next = End(a)'
      <3>1. CASE a = curr
        <4>1. End(a)' = End(n) /\ heap'[a].next = heap[n].next
          BY <1>7, <3>1, <1>4, <1>5 DEF End, Merge
        <4> QED BY <4>1, <1>2, <1>3, <1>6 DEF Addr
      <3>2. CASE a # curr
        BY <2>2, <3>2, <1>6 DEF Tiled
      <3> QED BY <3>1, <3>2
    <2>4. ASSUME NEW a \in Blocks', NEW b \in Blocks', a < b
          PROVE  End(a)' <= b
      <3>1. b \in Blocks /\ b # n /\ b \in Int
        BY <1>6 DEF Blocks, Addr
      <3>2. CASE a = curr
        <4>1. End(a)' = End(n)
          BY <1>7, <3>2, <1>4, <1>5 DEF End, Merge
        <4>2. End(curr) <= b
          BY <1>1, <2>4, <3>1, <3>2 DEF Tiled
        <4>3. n < b
          BY <1>2, <1>7, <3>1, <4>2 DEF Addr
        <4> QED BY <4>1, <4>3, <1>2, <3>1 DEF Tiled
      <3>3. CASE a # curr
        BY <2>2, <2>4, <3>1, <3>3 DEF Tiled
      <3> QED BY <3>2, <3>3
    <2> QED BY <2>1, <2>3, <2>4 DEF Tiled
  <1>11. HeldIsBacked'
    <2>1. held' = held
      BY DEF Merge
    <2>2. held[curr] = NotHeld /\ held[n] = NotHeld
      BY <1>1, <1>2 DEF HeldIsBacked, IsFree
    <2> QED BY <1>5a, <1>5b, <2>1, <2>2 DEF HeldIsBacked
  <1>12. Scanned'
    BY DEF Merge, Scanned
  <1>13. Swept'
    <2> SUFFICES ASSUME NEW a \in Blocks', Passed(a)' PROVE Apart(a)'
      BY DEF Merge, Swept
    <2>1. a < curr /\ a \in Blocks /\ a # n /\ a # curr /\ a \in Addr
      BY <1>1, <1>6 DEF Passed, Merge, Blocks, Addr, NoElement
    <2>2. heap'[a] = heap[a] /\ Apart(a)
      BY <1>1, <1>4, <2>1 DEF Swept, Passed
    <2>3. heap[a].next # NoElement => heap[a].next \in Addr /\ heap[a].next # n
      <3>1. heap[a].next # NoElement => heap[a].next = End(a) /\ heap[a].next \in Blocks
        BY <2>1, Order
      <3>2. End(a) <= curr
        BY <1>1, <2>1 DEF Tiled
      <3> QED BY <3>1, <3>2, <1>1, <1>2 DEF Blocks, Addr
    <2>4. heap[a].next # NoElement => (IsFree(heap[a].next) <=> heap'[heap[a].next].is = "free")
      BY <1>1, <1>4, <1>5, <2>3 DEF IsFree
    <2> QED BY <2>2, <2>4 DEF Apart, IsFree
  <1> QED BY <1>9, <1>10, <1>11, <1>12, <1>13

\* The sum that decides about a split does not wrap around: the request is known
\* to fit into a block.
LEMMA NoWrap ==
  ASSUME NEW x \in Nat, x < Word
  PROVE  x % Word = x
  BY HeapAssumption

\* Taking a whole block.
LEMMA TakeWhole ==
  ASSUME HeapInv, Take, ~WorthSplitting
  PROVE  HeapInv'
  <1> USE DEF HeapInv
  <1>1. curr \in Blocks /\ curr \in Addr /\ heap[curr].is = "free" /\ heap[curr].size >= want
    BY DEF Take, Fits, IsFree, HeapTypeOK, Blocks
  <1>2. heap[curr] \in Block
    BY <1>1 DEF HeapTypeOK, NoBlock
  <1>3. /\ heap'[curr] = [heap[curr] EXCEPT !.is = "used"]
        /\ \A a \in Addr : a # curr => heap'[a] = heap[a]
        /\ heap' \in [Addr -> Block \cup {NoBlock}]
    BY <1>1, <1>2 DEF Take, HeapTypeOK, Block
  <1>4. /\ heap'[curr].is = "used" /\ heap'[curr].size = heap[curr].size
        /\ heap'[curr].next = heap[curr].next
    BY <1>2, <1>3 DEF Block
  <1>5. \A a \in Addr : heap'[a].size = heap[a].size /\ heap'[a].next = heap[a].next
    BY <1>3, <1>4
  <1>6. Blocks' = Blocks
    BY <1>1, <1>3, <1>4 DEF Blocks
  <1>7. call' = "idle" /\ curr' = NoElement /\ want' = 0 /\ held' = [held EXCEPT ![curr] = want]
    BY DEF Take, Return
  <1>8. HeapTypeOK'
    BY <1>1, <1>3, <1>6, <1>7, HeapAssumption DEF HeapTypeOK
  <1>9. Tiled'
    BY <1>5, <1>6 DEF Tiled, End, Blocks
  <1>10. HeldIsBacked'
    <2>1. want # NotHeld /\ held'[curr] = want /\ \A a \in Addr : a # curr => held'[a] = held[a]
      BY <1>1, <1>7, HeapAssumption DEF HeapTypeOK, NotHeld
    <2>2. \A a \in Addr : a # curr => heap'[a] = heap[a]
      BY <1>3
    <2> QED BY <1>1, <1>4, <2>1, <2>2 DEF HeldIsBacked
  <1>11. Scanned'
    BY <1>7 DEF Scanned
  <1>12. Swept'
    <2> SUFFICES ASSUME NEW a \in Blocks PROVE Apart(a)'
      BY <1>6 DEF Swept
    <2>1. Apart(a) /\ a \in Addr
      BY DEF Swept, Take, Blocks
    <2>2. \A b \in Addr : heap'[b].is = "free" => heap[b].is = "free"
      BY <1>3, <1>4
    <2>3. heap'[a].next = heap[a].next /\ heap[a].next \in Addr \cup {NoElement}
      BY <1>5, <2>1, Fields
    <2> QED BY <2>1, <2>2, <2>3 DEF Apart, IsFree
  <1> QED BY <1>8, <1>9, <1>10, <1>11, <1>12

\* Taking the front of a block: the rest lies inside it and ends where it ended.
LEMMA TakeFront ==
  ASSUME HeapInv, Take, WorthSplitting
  PROVE  HeapInv'
  <1> USE DEF HeapInv
  <1> DEFINE r == Remainder
             front == [size |-> want, is |-> "used", next |-> r]
             rest == [size |-> heap[curr].size - want - Header,
                      is |-> "free", next |-> heap[curr].next]
  <1>1. /\ curr \in Blocks /\ curr \in Addr /\ heap[curr].is = "free"
        /\ heap[curr].size >= want
    BY DEF Take, Fits, IsFree, HeapTypeOK, Blocks
  <1>2. heap[curr].size > want + Header
    <2>1. /\ heap[curr].size \in Int /\ heap[curr].size <= HeapSize
          /\ want \in Int /\ want >= 0
      BY <1>1, Fields
    <2>2. want + Header + Slack \in Nat /\ want + Header + Slack < Word
      BY <1>1, <2>1, HeapAssumption
    <2>3. (want + Header + Slack) % Word = want + Header + Slack
      BY <2>2, NoWrap
    <2> QED BY <2>1, <2>3, HeapAssumption DEF WorthSplitting
  <1>3. /\ \A b \in Blocks : curr < b => End(curr) <= b
        /\ \/ End(curr) = HeapSize /\ heap[curr].next = NoElement
           \/ End(curr) \in Blocks /\ heap[curr].next = End(curr)
    BY <1>1 DEF Tiled
  <1>4. /\ r = curr + Header + want /\ r \in Int /\ curr < r /\ r < End(curr)
        /\ End(curr) = curr + Header + heap[curr].size /\ End(curr) <= HeapSize
        /\ curr \in Int /\ curr >= 0 /\ want \in Int /\ want >= 0
        /\ heap[curr].size \in Int /\ heap[curr].size <= HeapSize
        /\ Header \in Int /\ Header > 0 /\ HeapSize \in Int
    <2>1. End(curr) <= HeapSize
      BY <1>3, HeapAssumption DEF Blocks, Addr
    <2>2. End(curr) = curr + Header + heap[curr].size /\ r = curr + Header + want
      BY DEF End, Remainder
    <2> QED BY <1>1, <1>2, <2>1, <2>2, Fields DEF Addr
  <1>5. r \in Addr /\ r \notin Blocks
    <2>1. r \in Addr
      BY <1>4 DEF Addr
    <2> QED BY <1>3, <1>4, <2>1
  <1>6. /\ heap' = [heap EXCEPT ![curr] = front, ![r] = rest]
        /\ call' = "idle" /\ curr' = NoElement /\ want' = 0
        /\ held' = [held EXCEPT ![curr] = want]
    BY DEF Take, Split, Return
  <1>7. front \in Block /\ rest \in Block
    <2>1. want \in 0 .. HeapSize /\ heap[curr].size - want - Header \in 0 .. HeapSize
      BY <1>2, <1>4
    <2>2. heap[curr].next \in Addr \cup {NoElement}
      BY <1>1, Fields
    <2> QED BY <1>5, <2>1, <2>2 DEF Block
  <1>8. /\ heap'[curr] = front /\ heap'[r] = rest
        /\ \A a \in Addr : a # curr /\ a # r => heap'[a] = heap[a]
        /\ heap' \in [Addr -> Block \cup {NoBlock}]
    BY <1>1, <1>4, <1>5, <1>6, <1>7 DEF HeapTypeOK
  <1>9. /\ heap'[curr].size = want /\ heap'[curr].is = "used" /\ heap'[curr].next = r
        /\ heap'[r].size = heap[curr].size - want - Header
        /\ heap'[r].is = "free" /\ heap'[r].next = heap[curr].next
    BY <1>8
  <1> HIDE DEF r, front, rest
  <1>10. \A a \in Addr : a # curr /\ a # r => heap'[a] = heap[a]
    BY <1>8
  <1>11. Blocks' = Blocks \cup {r}
    BY <1>1, <1>5, <1>9, <1>10 DEF Blocks
  <1>12. HeapTypeOK'
    BY <1>1, <1>6, <1>8, HeapAssumption DEF HeapTypeOK
  <1>13. Tiled'
    <2> DEFINE E(a) == a + Header + heap'[a].size
    <2>1. E(curr) = r /\ E(r) = End(curr)
      BY <1>4, <1>9
    <2>2. ASSUME NEW a \in Blocks', a # curr, a # r
          PROVE  a \in Blocks /\ a \in Int /\ heap'[a] = heap[a] /\ E(a) = End(a)
      BY <1>10, <1>11, <2>2 DEF End, Blocks, Addr
    <2>3. ASSUME NEW a \in Blocks'
          PROVE  \/ E(a) = HeapSize /\ heap'[a].next = NoElement
                 \/ E(a) \in Blocks' /\ heap'[a].next = E(a)
      <3>1. CASE a = curr
        BY <1>9, <1>11, <2>1, <3>1
      <3>2. CASE a = r
        BY <1>3, <1>9, <1>11, <2>1, <3>2
      <3>3. CASE a # curr /\ a # r
        <4>1. a \in Blocks /\ heap'[a] = heap[a] /\ E(a) = End(a)
          BY <2>2, <3>3
        <4>2. \/ End(a) = HeapSize /\ heap[a].next = NoElement
              \/ End(a) \in Blocks /\ heap[a].next = End(a)
          BY <4>1 DEF Tiled
        <4> QED BY <1>11, <4>1, <4>2
      <3> QED BY <3>1, <3>2, <3>3
    <2>4. ASSUME NEW a \in Blocks', NEW b \in Blocks', a < b
          PROVE  E(a) <= b
      <3>1. a \in Int /\ b \in Int
        BY DEF Blocks, Addr
      <3>2. CASE a = curr
        <4>1. b = r \/ (b \in Blocks /\ End(curr) <= b)
          BY <1>3, <1>11, <2>4, <3>2
        <4> QED BY <1>4, <2>1, <3>1, <3>2, <4>1
      <3>3. CASE a = r
        <4>1. b \in Blocks /\ curr < b
          BY <1>4, <1>11, <2>4, <3>1, <3>3
        <4> QED BY <1>3, <2>1, <3>3, <4>1
      <3>4. CASE a # curr /\ a # r
        <4>1. a \in Blocks /\ E(a) = End(a)
          BY <2>2, <3>4
        <4>2. CASE b \in Blocks
          BY <4>1, <4>2, <2>4 DEF Tiled
        <4>3. CASE b = r
          <5>1. a < curr
            <6>1. CASE curr < a
              <7>1. End(curr) <= a
                BY <1>3, <4>1, <6>1
              <7> QED BY <1>4, <2>4, <3>1, <4>3, <7>1
            <6> QED BY <1>4, <3>1, <3>4, <6>1
          <5>2. End(a) <= curr /\ End(a) \in Int
            BY <1>1, <4>1, <5>1, Fields DEF Tiled, End, Blocks
          <5> QED BY <1>4, <4>1, <4>3, <5>2
        <4> QED BY <1>11, <4>2, <4>3
      <3> QED BY <3>2, <3>3, <3>4
    <2>5. 0 \in Blocks'
      BY <1>11 DEF Tiled
    <2>6. \A a : End(a)' = E(a)
      BY DEF End
    <2> HIDE DEF E
    <2> QED BY <2>3, <2>4, <2>5, <2>6 DEF Tiled
  <1>14. HeldIsBacked'
    <2>1. want # NotHeld /\ held'[curr] = want /\ \A a \in Addr : a # curr => held'[a] = held[a]
      BY <1>1, <1>4, <1>6 DEF HeapTypeOK, NotHeld
    <2>2. heap[r].is = "none" /\ held[r] = NotHeld /\ r # curr
      BY <1>4, <1>5 DEF Blocks, HeldIsBacked
    <2> QED BY <1>1, <1>4, <1>5, <1>9, <1>10, <2>1, <2>2 DEF HeldIsBacked
  <1>15. Scanned'
    BY <1>6 DEF Scanned
  <1>16. Swept'
    <2> SUFFICES ASSUME NEW a \in Blocks' PROVE Apart(a)'
      BY DEF Swept
    <2>1. CASE a = curr
      BY <1>9, <2>1 DEF Apart, IsFree
    <2>2. CASE a = r
      <3>1. heap[curr].next # NoElement => heap[heap[curr].next].is # "free"
        BY <1>1 DEF Swept, Take, Apart, IsFree
      <3>2. heap[curr].next # NoElement => /\ heap[curr].next \in Addr /\ heap[curr].next # curr
                                      /\ heap[curr].next # r
        BY <1>1, <1>4, <1>5, Order DEF Blocks
      <3> QED BY <1>9, <1>10, <2>2, <3>1, <3>2 DEF Apart, IsFree
    <2>3. CASE a # curr /\ a # r
      <3>1. a \in Blocks /\ a \in Addr /\ heap'[a] = heap[a]
        BY <1>10, <1>11, <2>3 DEF Blocks
      <3>2. Apart(a)
        BY <3>1 DEF Swept, Take
      <3>3. heap[a].next # NoElement => heap[a].next \in Addr /\ heap[a].next # r
        BY <1>5, <3>1, Order DEF Blocks
      <3> QED BY <1>9, <1>10, <3>1, <3>2, <3>3 DEF Apart, IsFree
    <2> QED BY <2>1, <2>2, <2>3
  <1> QED BY <1>12, <1>13, <1>14, <1>15, <1>16
-----------------------------------------------------------------------------
LEMMA StutterStep ==
  ASSUME HeapInv, UNCHANGED heapVars
  PROVE  HeapInv'
  <1>1. heap' = heap /\ held' = held /\ call' = call /\ curr' = curr /\ want' = want
    BY DEF heapVars
  <1>2. HeapTypeOK'
    BY <1>1, SameHeap DEF HeapInv, HeapTypeOK
  <1>3. Scanned' /\ Swept'
    BY <1>1, SameHeap DEF HeapInv, Scanned, Swept, Passed
  <1> QED BY <1>1, <1>2, <1>3, SameHeap DEF HeapInv

\* HeapInv is inductive: it holds after init_heap, and every step of kmalloc and
\* kfree preserves it.
THEOREM HeapInvariant == HeapSpec => []HeapInv
  <1>1. ASSUME HeapInv, [HeapNext]_heapVars PROVE HeapInv'
    <2>1. CASE \E n \in Requests : Kmalloc(n)
      BY <1>1, <2>1, KmallocStep
    <2>2. CASE \E a \in Addr : Kfree(a)
      BY <1>1, <2>2, KfreeStep
    <2>3. CASE Skip
      BY <1>1, <2>3, SkipStep
    <2>4. CASE Take
      BY <1>1, <2>4, TakeWhole, TakeFront
    <2>5. CASE Refuse
      BY <1>1, <2>5, RefuseStep
    <2>6. CASE Merge
      BY <1>1, <2>6, MergeStep
    <2>7. CASE Advance
      BY <1>1, <2>7, AdvanceStep
    <2>8. CASE Done
      BY <1>1, <2>8, DoneStep
    <2>9. CASE UNCHANGED heapVars
      BY <1>1, <2>9, StutterStep
    <2> QED BY <1>1, <2>1, <2>2, <2>3, <2>4, <2>5, <2>6, <2>7, <2>8, <2>9 DEF HeapNext, Step
  <1> QED BY <1>1, InitHeap, PTL DEF HeapSpec

\* The list of blocks always cuts the heap without gap or overlap.
THEOREM HeapIsTiled == HeapSpec => []Tiled
  <1>1. HeapInv => Tiled
    BY DEF HeapInv
  <1> QED BY <1>1, HeapInvariant, PTL

\* A block is used exactly while it is held and is as large as was asked for.
THEOREM AllocationsAreBacked == HeapSpec => []HeldIsBacked
  <1>1. HeapInv => HeldIsBacked
    BY DEF HeapInv
  <1> QED BY <1>1, HeapInvariant, PTL

\* kfree leaves no two free neighbours behind.
THEOREM FreeBlocksCoalesce == HeapSpec => []Coalesced
  <1>1. HeapInv => Coalesced
    <2> SUFFICES ASSUME HeapInv, call # "kfree", NEW a \in FreeBlocks
                 PROVE  heap[a].next \notin FreeBlocks
      BY DEF Coalesced
    <2>1. Apart(a) /\ IsFree(a)
      BY DEF HeapInv, Swept, FreeBlocks
    <2>2. NoElement \notin FreeBlocks
      BY HeapAssumption DEF FreeBlocks, Blocks, Addr, NoElement
    <2> QED BY <2>1, <2>2 DEF Apart, FreeBlocks
  <1> QED BY <1>1, HeapInvariant, PTL

\* kmalloc fails only when no free block is large enough.
THEOREM RefusalIsJustified == HeapSpec => []RefusedMeansNoFit
  <1>1. HeapInv => RefusedMeansNoFit
    BY DEF HeapInv, Scanned, Passed, RefusedMeansNoFit, FreeBlocks
  <1> QED BY <1>1, HeapInvariant, PTL

\* No step but its own kfree takes a held block away or changes its extent.
THEOREM PointersStayGood == HeapSpec => HeldIsKept
  <1> DEFINE Kept(a) == held[a] # NotHeld =>
                          \/ call = "idle" /\ held'[a] = NotHeld
                          \/ held'[a] = held[a] /\ heap'[a].size = heap[a].size
  <1>1. ASSUME HeapInv, [HeapNext]_heapVars, NEW a \in Addr PROVE Kept(a)
    <2> SUFFICES ASSUME held[a] # NotHeld PROVE Kept(a)
      OBVIOUS
    <2>1. heap[a].is = "used" /\ a \in Blocks /\ heap \in [Addr -> Block \cup {NoBlock}]
          /\ held \in [Addr -> 0 .. (Word - 1) \cup {NotHeld}]
      BY <1>1 DEF HeapInv, HeldIsBacked, HeapTypeOK, Blocks
    <2>2. CASE heap' = heap /\ held' = held
      BY <2>2
    <2>3. CASE \E f \in Addr : Kfree(f)
      <3>1. PICK f \in Addr : Kfree(f)
        BY <2>3
      <3>2. CASE f = a
        BY <2>1, <3>1, <3>2 DEF Kfree
      <3>3. CASE f # a
        BY <2>1, <3>1, <3>3 DEF Kfree
      <3> QED BY <3>2, <3>3
    <2>4. CASE Take
      <3>1. a # curr /\ curr \in Blocks
        BY <1>1, <2>1, <2>4 DEF Take, Fits, IsFree, HeapInv, HeapTypeOK
      <3>2. held'[a] = held[a]
        BY <2>1, <2>4, <3>1 DEF Take
      <3>3. CASE ~WorthSplitting
        BY <2>1, <2>4, <3>1, <3>2, <3>3 DEF Take
      <3>4. CASE WorthSplitting
        <4>1. HeapInv' /\ held'[a] # NotHeld
          BY <1>1, <2>4, <3>2, <3>4, TakeFront
        <4>2. heap'[a].is = "used"
          BY <4>1 DEF HeapInv, HeldIsBacked
        <4>3. a # Remainder
          <5> SUFFICES ASSUME a = Remainder PROVE FALSE
            OBVIOUS
          <5>1. heap'[a].is = "free"
            BY <2>1, <2>4, <3>4 DEF Take, Split
          <5> QED BY <4>2, <5>1
        <4> QED BY <2>1, <2>4, <3>1, <3>2, <3>4, <4>3 DEF Take, Split
      <3> QED BY <3>3, <3>4
    <2>5. CASE Merge
      <3>1. a # curr /\ a # heap[curr].next /\ held' = held
        BY <2>1, <2>5 DEF Merge, FreePair, IsFree
      <3> QED BY <2>1, <2>5, <3>1 DEF Merge, Merged
    <2>6. CASE UNCHANGED heapVars
      BY <2>2, <2>6 DEF heapVars
    <2> QED
      BY <1>1, <2>2, <2>3, <2>4, <2>5, <2>6
         DEF HeapNext, Step, Kmalloc, Skip, Refuse, Advance, Done
  <1>2. HeapInv /\ [HeapNext]_heapVars => [\A a \in Addr : Kept(a)]_heapVars
    BY <1>1
  <1> QED BY <1>2, HeapInvariant, PTL DEF HeapSpec, HeldIsKept
-----------------------------------------------------------------------------
(* The statistics. *)

\* What MapThenSumSet makes of block sizes is a sum.
LEMMA SizesSum ==
  ASSUME HeapTypeOK, NEW S \in SUBSET Blocks
  PROVE  \E g : /\ MapThenSumSet(BlockSize, S) = g[S]
               /\ SumsUp(g, [a \in S |-> heap[a].size], S)
  <1> DEFINE f == [a \in S |-> heap[a].size]
             Body(g) == [s \in SUBSET S |->
                           IF s = {} THEN 0
                           ELSE heap[FirstOf(s)].size + g[s \ {FirstOf(s)}]]
             fold == CHOOSE g : g = Body(g)
  <1>1. S \subseteq Addr /\ IsFiniteSet(S)
    <2>1. S \subseteq Addr
      BY DEF Blocks
    <2>2. IsFiniteSet(Addr)
      BY HeapAssumption, FS_Interval DEF Addr
    <2> QED BY <2>1, <2>2, FS_Subset
  <1>2. f \in [S -> Nat]
    BY <1>1, Fields
  <1>3. \A g : FoldsUp(g, f, S) <=> g = Body(g)
    <2>1. \A s \in SUBSET S : s # {} => f[FirstOf(s)] = heap[FirstOf(s)].size
      BY DEF FirstOf
    <2> TAKE g
    <2>2. \A s \in SUBSET S :
            Body(g)[s] = IF s = {} THEN 0 ELSE f[FirstOf(s)] + g[s \ {FirstOf(s)}]
      <3> HIDE DEF f
      <3> QED BY <2>1
    <2>3. Body(g) = [s \in SUBSET S |->
                       IF s = {} THEN 0 ELSE f[FirstOf(s)] + g[s \ {FirstOf(s)}]]
      <3>1. Body(g) = [s \in SUBSET S |-> Body(g)[s]]
        OBVIOUS
      <3> HIDE DEF f, Body
      <3> QED BY <2>2, <3>1
    <2> HIDE DEF f, Body
    <2> QED BY <2>3 DEF FoldsUp
  <1> HIDE DEF f
  <1>4. \E g : g = Body(g)
    <2> HIDE DEF Body
    <2> QED BY <1>1, <1>2, <1>3, FoldExists
  <1>5. fold = Body(fold)
    <2> HIDE DEF Body
    <2> QED BY <1>4
  <1>6. SumsUp(fold, f, S)
    <2> HIDE DEF Body, fold
    <2> QED BY <1>1, <1>2, <1>3, <1>5, FoldSums
  <1>7. MapThenSumSet(BlockSize, S) = fold[S]
    BY DEF MapThenSumSet, MapThenFoldSet, BlockSize, FirstOf
  <1> QED BY <1>6, <1>7 DEF f

\* In front of every block and at the end of the heap a block ends, or the heap starts.
LEMMA Boundary ==
  ASSUME HeapTypeOK, Tiled, NEW n \in Blocks \cup {HeapSize}, n # 0
  PROVE  \E c \in Blocks : End(c) = n /\ \A a \in Blocks : a < n <=> a = c \/ a < c
  <1>1. /\ n \in Nat /\ n > 0 /\ n <= HeapSize /\ HeapSize \in Nat
        /\ \A a \in Blocks : a \in 0 .. (HeapSize - 1)
    BY HeapAssumption DEF Blocks, Addr
  <1> DEFINE B == {a \in Blocks : a < n}
  <1>2. B \in SUBSET (0 .. n) /\ 0 \in B
    <2>1. 0 \in Blocks
      BY DEF Tiled
    <2>2. 0 \in B
      BY <1>1, <2>1
    <2>3. ASSUME NEW a \in B PROVE a \in 0 .. n
      BY <1>1
    <2> QED BY <2>2, <2>3
  <1>3. PICK c \in B : \A a \in B : c >= a
    <2> HIDE DEF B
    <2> QED BY <1>1, <1>2, GreatestElement
  <1>4. c \in Blocks /\ c < n /\ c \in Nat
    BY <1>1, <1>3
  <1>5. End(c) = n
    <2>1. End(c) = HeapSize \/ (End(c) \in Blocks /\ End(c) > c)
      BY <1>4, Order
    <2>2. End(c) <= n
      <3>1. n \in Blocks => End(c) <= n
        BY <1>4 DEF Tiled
      <3>2. End(c) <= HeapSize
        <4>1. \A e \in Blocks : e <= HeapSize
          BY <1>1
        <4>2. CASE End(c) = HeapSize
          BY <1>1, <4>2
        <4>3. CASE End(c) \in Blocks
          BY <4>1, <4>3
        <4> QED BY <2>1, <4>2, <4>3
      <3> QED BY <3>1, <3>2
    <2>3. End(c) \in Int
      BY <1>4, Fields DEF End, Blocks
    <2>4. CASE End(c) = HeapSize
      BY <1>1, <2>2, <2>4
    <2>5. CASE End(c) \in Blocks /\ End(c) > c
      <3>1. End(c) \notin B
        BY <1>1, <1>3, <1>4, <2>3, <2>5
      <3> QED BY <1>1, <2>2, <2>3, <2>5, <3>1
    <2> QED BY <2>1, <2>4, <2>5
  <1>6. \A a \in Blocks : a < n <=> a = c \/ a < c
    BY <1>1, <1>3, <1>4
  <1> QED BY <1>4, <1>5, <1>6

LEMMA OneMore ==
  ASSUME NEW h \in Nat, NEW x \in Nat
  PROVE  h * (x + 1) = h * x + h
  OBVIOUS

\* The blocks of a set below an address, and what one more of them adds.
Below(S, n) == {a \in S : a < n}

LEMMA NextBelow ==
  ASSUME HeapTypeOK, NEW S \in SUBSET Blocks, NEW g, SumsUp(g, [a \in S |-> heap[a].size], S),
         NEW c \in Blocks, NEW n \in Nat, \A a \in Blocks : a < n <=> a = c \/ a < c
  PROVE  /\ g[Below(S, c)] \in Nat /\ Cardinality(Below(S, c)) \in Nat
         /\ c \in S => /\ g[Below(S, n)] = heap[c].size + g[Below(S, c)]
                       /\ Cardinality(Below(S, n)) = Cardinality(Below(S, c)) + 1
         /\ c \notin S => Below(S, n) = Below(S, c)
  <1>1. c \in Int /\ IsFiniteSet(S)
    <2>1. S \subseteq Addr /\ c \in Addr
      BY DEF Blocks
    <2>2. IsFiniteSet(Addr)
      BY HeapAssumption, FS_Interval DEF Addr
    <2>3. c \in Int
      BY <2>1, HeapAssumption DEF Addr
    <2>4. IsFiniteSet(S)
      BY <2>1, <2>2, FS_Subset
    <2> QED BY <2>3, <2>4
  <1>2. Below(S, c) \in SUBSET S /\ Below(S, n) \in SUBSET S
    BY DEF Below
  <1>3. g[Below(S, c)] \in Nat /\ Cardinality(Below(S, c)) \in Nat
        /\ Cardinality(Below(S, n)) \in Nat
    BY <1>1, <1>2, SizeOfSubset DEF SumsUp
  <1>4. ASSUME c \in S
        PROVE  /\ g[Below(S, n)] = heap[c].size + g[Below(S, c)]
               /\ Cardinality(Below(S, n)) = Cardinality(Below(S, c)) + 1
    <2>1. Below(S, c) = Below(S, n) \ {c} /\ c \in Below(S, n)
      <3>1. ~(c < c) /\ c < n
        BY <1>1
      <3>2. \A a \in S : a < c <=> a < n /\ a # c
        BY <3>1
      <3> QED BY <1>4, <3>1, <3>2 DEF Below
    <2>2. Cardinality(Below(S, c)) = Cardinality(Below(S, n)) - 1
      BY <1>1, <1>2, <2>1, SizeOfSubset
    <2>3. g[Below(S, n)] = heap[c].size + g[Below(S, c)]
      BY <1>2, <1>4, <2>1, ZenonT(30) DEF SumsUp
    <2> QED BY <1>3, <2>2, <2>3
  <1>5. c \notin S => Below(S, n) = Below(S, c)
    BY DEF Below
  <1> QED BY <1>3, <1>4, <1>5

\* Used and free sizes and headers below any boundary add up to the boundary.
LEMMA FiguresAdd ==
  ASSUME HeapTypeOK, Tiled, NEW U \in SUBSET Blocks, NEW F \in SUBSET Blocks,
         U \cap F = {}, U \cup F = Blocks,
         NEW u, SumsUp(u, [a \in U |-> heap[a].size], U),
         NEW f, SumsUp(f, [a \in F |-> heap[a].size], F)
  PROVE  u[U] + f[F] + Header * (Cardinality(U) + Cardinality(F)) = HeapSize
  <1> DEFINE A(n) == u[Below(U, n)]
             B(n) == f[Below(F, n)]
             K(n) == Cardinality(Below(U, n)) + Cardinality(Below(F, n))
             Wrong == {n \in Blocks \cup {HeapSize} : A(n) + B(n) + Header * K(n) # n}
  <1>2. Header \in Nat /\ HeapSize \in Nat /\ \A a \in Blocks : a \in 0 .. (HeapSize - 1)
    BY HeapAssumption DEF Blocks, Addr
  <1>3. Below(U, HeapSize) = U /\ Below(F, HeapSize) = F
    BY <1>2 DEF Below
  <1>4. Wrong = {}
    <2> SUFFICES ASSUME Wrong # {} PROVE FALSE
      OBVIOUS
    <2>1. PICK n \in Wrong : \A m \in Wrong : n <= m
      <3>1. Wrong \in SUBSET Nat
        BY <1>2
      <3> HIDE DEF Wrong
      <3> QED BY <3>1, LeastElement
    <2>2. n \in Blocks \cup {HeapSize} /\ n \in Nat /\ A(n) + B(n) + Header * K(n) # n
      BY <1>2, <2>1
    <2>3. n # 0
      <3>1. Below(U, 0) = {} /\ Below(F, 0) = {}
        BY <1>2 DEF Below
      <3>2. Cardinality({}) = 0
        BY FS_EmptySet
      <3>3. A(0) = 0 /\ B(0) = 0 /\ K(0) = 0
        <4>1. u[{}] = 0 /\ f[{}] = 0
          BY DEF SumsUp
        <4>2. A(0) = 0 /\ B(0) = 0
          BY <3>1, <4>1, Zenon
        <4>3. K(0) = 0 + 0
          BY <3>1, <3>2, Zenon
        <4> QED BY <4>2, <4>3
      <3>4. A(0) + B(0) + Header * K(0) = 0
        <4> HIDE DEF A, B, K
        <4> QED BY <1>2, <3>3
      <3> QED BY <2>2, <3>4
    <2>4. PICK c \in Blocks : End(c) = n /\ \A a \in Blocks : a < n <=> a = c \/ a < c
      BY <2>2, <2>3, Boundary
    <2>5. c \in Nat /\ c < n
      BY <1>2, <2>4
    <2>6. PICK z \in Nat : z = heap[c].size
      BY Fields DEF Blocks
    <2>7. n = c + Header + z
      BY <2>4, <2>6 DEF End
    <2>8. A(c) + B(c) + Header * K(c) = c
      <3>1. c \notin Wrong
        <4> HIDE DEF Wrong
        <4> QED BY <2>1, <2>2, <2>5
      <3> QED BY <3>1
    <2> HIDE DEF Wrong
    <2>9. /\ u[Below(U, c)] \in Nat /\ Cardinality(Below(U, c)) \in Nat
          /\ c \in U => /\ u[Below(U, n)] = heap[c].size + u[Below(U, c)]
                        /\ Cardinality(Below(U, n)) = Cardinality(Below(U, c)) + 1
          /\ c \notin U => Below(U, n) = Below(U, c)
      BY <2>2, <2>4, NextBelow
    <2>10. /\ f[Below(F, c)] \in Nat /\ Cardinality(Below(F, c)) \in Nat
           /\ c \in F => /\ f[Below(F, n)] = heap[c].size + f[Below(F, c)]
                         /\ Cardinality(Below(F, n)) = Cardinality(Below(F, c)) + 1
           /\ c \notin F => Below(F, n) = Below(F, c)
      BY <2>2, <2>4, NextBelow
    <2>11. /\ A(c) \in Nat /\ B(c) \in Nat
           /\ Cardinality(Below(U, c)) \in Nat /\ Cardinality(Below(F, c)) \in Nat
      BY <2>9, <2>10
    <2>12. /\ A(n) + B(n) = A(c) + B(c) + z
           /\ K(n) = K(c) + 1
      <3>1. CASE c \in U
        <4>1. c \notin F
          BY <3>1
        <4>2. A(n) = z + A(c) /\ Cardinality(Below(U, n)) = Cardinality(Below(U, c)) + 1
          BY <2>6, <2>9, <3>1
        <4>3. Below(F, n) = Below(F, c)
          BY <2>10, <4>1
        <4>4. B(n) = B(c)
          BY <4>3
        <4>5. K(n) = K(c) + 1
          BY <2>11, <4>2, <4>3
        <4> HIDE DEF A, B, K
        <4> QED BY <2>11, <4>2, <4>4, <4>5
      <3>2. CASE c \in F
        <4>1. c \notin U
          BY <3>2
        <4>2. B(n) = z + B(c) /\ Cardinality(Below(F, n)) = Cardinality(Below(F, c)) + 1
          BY <2>6, <2>10, <3>2
        <4>3. Below(U, n) = Below(U, c)
          BY <2>9, <4>1
        <4>4. A(n) = A(c)
          BY <4>3
        <4>5. K(n) = K(c) + 1
          BY <2>11, <4>2, <4>3
        <4> HIDE DEF A, B, K
        <4> QED BY <2>11, <4>2, <4>4, <4>5
      <3> QED BY <3>1, <3>2
    <2>13. PICK k \in Nat : k = K(c)
      BY <2>11
    <2>14. Header * K(n) = Header * k + Header
      <3>1. K(n) = k + 1
        BY <2>12, <2>13
      <3> HIDE DEF K
      <3> QED BY <1>2, <3>1, OneMore
    <2>15. PICK p \in Nat : p = Header * k
      BY <1>2
    <2>16. A(n) + B(n) + Header * K(n) = A(c) + B(c) + z + (p + Header)
      <3> HIDE DEF A, B, K
      <3> QED BY <2>12, <2>14, <2>15
    <2>17. A(c) + B(c) + p = c
      <3> HIDE DEF A, B, K
      <3> QED BY <2>8, <2>13, <2>15
    <2>18. A(n) + B(n) + Header * K(n) = n
      <3> HIDE DEF A, B, K
      <3>1. PICK x \in Nat, y \in Nat : x = A(c) /\ y = B(c)
        BY <2>11
      <3>2. x + y + z + (p + Header) = c + Header + z
        BY <1>2, <2>17, <3>1
      <3> QED BY <2>7, <2>16, <3>1, <3>2
    <2> QED BY <2>2, <2>18
  <1>5. A(HeapSize) + B(HeapSize) + Header * K(HeapSize) = HeapSize
    BY <1>4
  <1> QED BY <1>3, <1>5

\* What meminfo prints adds up to the heap, at every step of every call, and the
\* largest free block is no more than all of them: the sums, which walk the list,
\* miss no block and count none twice.
THEOREM FiguresAddUp == HeapSpec => []Accounted
  <1>1. ASSUME HeapInv PROVE Accounted
    <2>1. HeapTypeOK /\ Tiled
      BY <1>1 DEF HeapInv
    <2>2. FreeBlocks \in SUBSET Blocks /\ Blocks \ FreeBlocks \in SUBSET Blocks
      BY DEF FreeBlocks
    <2>3. PICK u : /\ heap_get_used_size = u[Blocks \ FreeBlocks]
                   /\ SumsUp(u, [a \in Blocks \ FreeBlocks |-> heap[a].size], Blocks \ FreeBlocks)
      BY <2>1, <2>2, SizesSum DEF heap_get_used_size
    <2>4. PICK f : /\ heap_get_free_size = f[FreeBlocks]
                   /\ SumsUp(f, [a \in FreeBlocks |-> heap[a].size], FreeBlocks)
      BY <2>1, <2>2, SizesSum DEF heap_get_free_size
    <2>5. heap_get_used_size + heap_get_free_size
            + Header * (heap_get_alloc_count + heap_get_free_count) = HeapSize
      <3>1. /\ (Blocks \ FreeBlocks) \cap FreeBlocks = {}
            /\ (Blocks \ FreeBlocks) \cup FreeBlocks = Blocks
        BY <2>2
      <3> QED BY <2>1, <2>2, <2>3, <2>4, <3>1, FiguresAdd
              DEF heap_get_alloc_count, heap_get_free_count
    <2>6. \A a \in FreeBlocks : heap[a].size \in 0 .. HeapSize
      BY <2>1, Fields DEF FreeBlocks, Blocks
    <2>7. heap_get_largest_free_block \in {0} \cup {heap[a].size : a \in FreeBlocks}
      <3> DEFINE Z == {0} \cup {heap[a].size : a \in FreeBlocks}
      <3>1. Z \in SUBSET (0 .. HeapSize) /\ Z # {}
        BY <2>6, HeapAssumption
      <3>2. \E x \in Z : \A y \in Z : x >= y
        <4> HIDE DEF Z
        <4> QED BY <3>1, HeapAssumption, GreatestElement
      <3>3. heap_get_largest_free_block = CHOOSE x \in Z : \A y \in Z : x >= y
        BY DEF heap_get_largest_free_block, Max
      <3> HIDE DEF Z
      <3>4. heap_get_largest_free_block \in Z
        BY <3>2, <3>3
      <3> QED BY <3>4 DEF Z
    <2>8. heap_get_free_size \in Nat
      BY <2>2, <2>4 DEF SumsUp
    <2>9. ASSUME NEW a \in FreeBlocks PROVE heap[a].size <= heap_get_free_size
      <3>1. heap_get_free_size = heap[a].size + f[FreeBlocks \ {a}]
        BY <2>2, <2>4 DEF SumsUp
      <3>2. f[FreeBlocks \ {a}] \in Nat
        BY <2>4 DEF SumsUp
      <3> QED BY <2>6, <3>1, <3>2
    <2>10. heap_get_largest_free_block <= heap_get_free_size
      BY <2>7, <2>8, <2>9
    <2> QED BY <2>5, <2>10 DEF Accounted
  <1> QED BY <1>1, HeapInvariant, PTL
=============================================================================
