-------------------------------- MODULE Heap --------------------------------
(***************************************************************************)
(* The kernel heap of NewrexOS (kmalloc, kfree and the statistics          *)
(* functions of kernel/kernel.c): a first-fit allocator over one array,    *)
(* cut into blocks that start with a header and are linked in a list.      *)
(*                                                                         *)
(* The kernel thread is the only caller: no interrupt handler allocates    *)
(* while it is inside kmalloc or kfree, and Ring 3 programs cannot call    *)
(* them.  Calls therefore do not overlap, but each walks the list, and is  *)
(* one action per list element.                                            *)
(***************************************************************************)
EXTENDS Integers, FiniteSetsExt

CONSTANTS
  HeapSize,   \* HEAP_SIZE (2^20)
  Header,     \* sizeof(block_meta_t) (12)
  Slack,      \* what a split must leave beyond a header (4)
  Word,       \* unsigned int counts modulo Word (2^32)
  Requests    \* sizes that callers ask for

ASSUME HeapAssumption ==
  /\ HeapSize \in Nat /\ Header \in Nat \ {0} /\ Slack \in Nat /\ Word \in Nat
  /\ Header <= HeapSize /\ HeapSize + Header + Slack < Word
  /\ Requests \subseteq 0 .. (Word - 1)

Addr == 0 .. (HeapSize - 1)     \* offsets into kernel_heap
NoElement == -1                 \* the null pointer

VARIABLES
  heap,     \* the header at each address, NoBlock where there is none
  held,     \* what the callers hold: the size they asked for, or NotHeld
  call,     \* "idle", "kmalloc" or "kfree"
  curr,     \* the list element the call looks at
  want      \* the size kmalloc was asked for

heapVars == <<heap, held, call, curr, want>>

Block   == [size : 0 .. HeapSize, is : {"free", "used"}, next : Addr \cup {NoElement}]
NoBlock == [size |-> 0, is |-> "none", next |-> NoElement]
NotHeld == -1

Blocks == {a \in Addr : heap[a].is # "none"}
IsFree(a) == heap[a].is = "free"

\* The address just behind block a.
End(a) == a + Header + heap[a].size
-----------------------------------------------------------------------------
\* init_heap
HeapInit ==
  /\ heap = [a \in Addr |-> IF a = 0
               THEN [size |-> HeapSize - Header, is |-> "free", next |-> NoElement]
               ELSE NoBlock]
  /\ held = [a \in Addr |-> NotHeld]
  /\ call = "idle" /\ curr = NoElement /\ want = 0

Return == call' = "idle" /\ curr' = NoElement /\ want' = 0

Kmalloc(n) ==
  /\ call = "idle"
  /\ call' = "kmalloc" /\ curr' = 0 /\ want' = n
  /\ UNCHANGED <<heap, held>>

\* Mutant: the request may use the header of the next block as well.
FitsWithHeader == IsFree(curr) /\ heap[curr].size + Header >= want

\* Mutant: a block of just the right size does not fit.
FitsStrictly == IsFree(curr) /\ heap[curr].size > want

\* Mutant: is_free is not looked at.
FitsUsed == heap[curr].size >= want

Fits == IsFree(curr) /\ heap[curr].size >= want

Skip ==
  /\ call = "kmalloc" /\ curr # NoElement /\ ~Fits
  /\ curr' = heap[curr].next
  /\ UNCHANGED <<heap, held, call, want>>

WorthSplitting == heap[curr].size > (want + Header + Slack) % Word

Remainder == curr + Header + want

\* Mutant: the new block does not account for its own header.
SplitTooLarge ==
  [heap EXCEPT ![curr] = [size |-> want, is |-> "used", next |-> Remainder],
               ![Remainder] = [size |-> heap[curr].size - want,
                               is |-> "free", next |-> heap[curr].next]]

\* The front of the block is taken, the rest becomes a block of its own.
Split ==
  [heap EXCEPT ![curr] = [size |-> want, is |-> "used", next |-> Remainder],
               ![Remainder] = [size |-> heap[curr].size - want - Header,
                               is |-> "free", next |-> heap[curr].next]]

Take ==
  /\ call = "kmalloc" /\ curr # NoElement /\ Fits
  /\ heap' = IF WorthSplitting THEN Split ELSE [heap EXCEPT ![curr].is = "used"]
  /\ held' = [held EXCEPT ![curr] = want]
  /\ Return

\* kmalloc returns 0
Refuse ==
  /\ call = "kmalloc" /\ curr = NoElement
  /\ Return
  /\ UNCHANGED <<heap, held>>

\* kfree of a pointer that kmalloc returned and that was not freed since
Kfree(a) ==
  /\ call = "idle" /\ held[a] # NotHeld
  /\ heap' = [heap EXCEPT ![a].is = "free"]
  /\ held' = [held EXCEPT ![a] = NotHeld]
  /\ call' = "kfree" /\ curr' = 0
  /\ UNCHANGED want

FreePair == /\ IsFree(curr)
            /\ heap[curr].next # NoElement /\ IsFree(heap[curr].next)

Merged ==
  LET n == heap[curr].next
  IN  [heap EXCEPT ![curr] = [size |-> heap[curr].size + Header + heap[n].size,
                              is |-> "free", next |-> heap[n].next],
                   ![n] = NoBlock]

\* Two free neighbours become one block, which is looked at again.
Merge ==
  /\ call = "kfree" /\ curr # NoElement /\ FreePair
  /\ heap' = Merged
  /\ UNCHANGED <<held, call, curr, want>>

\* Mutant: the walk stops at the first block that cannot be merged.
AdvanceStops ==
  /\ call = "kfree" /\ curr # NoElement /\ ~FreePair
  /\ curr' = NoElement
  /\ UNCHANGED <<heap, held, call, want>>

Advance ==
  /\ call = "kfree" /\ curr # NoElement /\ ~FreePair
  /\ curr' = heap[curr].next
  /\ UNCHANGED <<heap, held, call, want>>

Done ==
  /\ call = "kfree" /\ curr = NoElement
  /\ Return
  /\ UNCHANGED <<heap, held>>

Step == Skip \/ Take \/ Refuse \/ Merge \/ Advance \/ Done

HeapNext == \/ \E n \in Requests : Kmalloc(n)
            \/ \E a \in Addr : Kfree(a)
            \/ Step

HeapSpec == HeapInit /\ [][HeapNext]_heapVars
-----------------------------------------------------------------------------
(* The statistics that meminfo prints; each walks the whole list. *)

BlockSize(a) == heap[a].size
FreeBlocks == {a \in Blocks : IsFree(a)}

\* Mutant: the sum leaves out the test for a used block.
UsedSizeOfAll == MapThenSumSet(BlockSize, Blocks)

heap_get_used_size == MapThenSumSet(BlockSize, Blocks \ FreeBlocks)
heap_get_free_size == MapThenSumSet(BlockSize, FreeBlocks)
heap_get_alloc_count == Cardinality(Blocks \ FreeBlocks)
heap_get_free_count == Cardinality(FreeBlocks)
heap_get_largest_free_block == Max({0} \cup {heap[a].size : a \in FreeBlocks})
-----------------------------------------------------------------------------
(* Properties. *)

\* Headers, the callers' pointers and the locals of kmalloc and kfree have their
\* types, and a walk stands on a header or is over.
HeapTypeOK ==
  /\ heap \in [Addr -> Block \cup {NoBlock}]
  /\ held \in [Addr -> 0 .. (Word - 1) \cup {NotHeld}]
  /\ call \in {"idle", "kmalloc", "kfree"}
  /\ curr \in Blocks \cup {NoElement} /\ want \in 0 .. (Word - 1)

\* The list cuts the heap into blocks without gap or overlap: behind each block
\* starts the one its header links to, or the heap ends.  Splitting and merging
\* keep this at every step of every call.
Tiled ==
  /\ 0 \in Blocks
  /\ \A a \in Blocks :
       /\ \/ End(a) = HeapSize /\ heap[a].next = NoElement
          \/ End(a) \in Blocks /\ heap[a].next = End(a)
       /\ \A b \in Blocks : a < b => End(a) <= b

\* A block is marked used exactly while a caller holds it, and it is at least as
\* large as the caller asked for, also when the request is close to 2^32.
HeldIsBacked ==
  \A a \in Addr : /\ heap[a].is = "used" <=> held[a] # NotHeld
                  /\ held[a] # NotHeld => heap[a].size >= held[a]

\* A pointer stays good until its holder frees it: no kmalloc returns it again
\* and no kmalloc or kfree of another block changes the block behind it.
HeldIsKept ==
  [][\A a \in Addr : held[a] # NotHeld =>
        \/ call = "idle" /\ held'[a] = NotHeld
        \/ held'[a] = held[a] /\ heap'[a].size = heap[a].size]_heapVars

\* kmalloc refuses a request only if no free block is large enough.
RefusedMeansNoFit ==
  call = "kmalloc" /\ curr = NoElement => \A a \in FreeBlocks : heap[a].size < want

\* Between calls no two neighbours are both free, so that memory freed in any
\* order can be handed out again in one piece.
Coalesced ==
  call # "kfree" => \A a \in FreeBlocks : heap[a].next \notin FreeBlocks

\* The figures of meminfo add up to the heap, and nothing it reports as the
\* largest free block exceeds what it reports as free.
Accounted ==
  /\ heap_get_used_size + heap_get_free_size
       + Header * (heap_get_alloc_count + heap_get_free_count) = HeapSize
  /\ heap_get_largest_free_block <= heap_get_free_size
=============================================================================
