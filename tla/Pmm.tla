--------------------------------- MODULE Pmm ---------------------------------
(***************************************************************************)
(* The physical memory manager of NewrexOS (mm/pmm.c): a bitmap of page    *)
(* frames, filled from what the boot loader says of the memory, and the    *)
(* operations that hand frames out and take them back.                     *)
(***************************************************************************)
EXTENDS Integers, Sequences, FiniteSetsExt

CONSTANTS
  PageSize,   \* PAGE_SIZE (4096)
  Reserve,    \* PMM_CONSERVATIVE_RESERVE_FRAMES (1024)
  Capacity,   \* bits of memory_bitmap (8192)
  ByteBits,   \* bits that find_first_free_block tests at once (8)
  Word,       \* unsigned int counts modulo Word (2^32)
  Kilo,       \* bytes in a kilobyte (1024)
  Upper,      \* the kilobytes below the upper memory (1024)
  Infos       \* what boot loaders may say

(* A memory map is a sequence of regions; base and length are the low *)
(* words, high is the high word of the base.  Without a map the boot loader  *)
(* may tell the kilobytes of lower memory, from address 0 on, and of upper   *)
(* memory, from Upper kilobytes on; or nothing.                              *)
Region == [base : 0 .. (Word - 1), length : 0 .. (Word - 1), high : {0, 1},
           type : {"available", "reserved"}]

ASSUME PmmAssumption ==
  /\ PageSize \in Nat \ {0} /\ ByteBits \in Nat \ {0} /\ Word \in Nat \ {0}
  /\ Reserve \in Nat /\ Capacity \in Nat /\ Reserve <= Capacity
  /\ Word % PageSize = 0 /\ Kilo \in Nat /\ Upper \in Nat
  /\ \A i \in Infos : /\ i.kind \in {"map", "size", "none"}
                      /\ i.lower \in 0 .. Upper /\ i.upper \in 0 .. (Word - 1)
                      /\ i.map \in Seq(Region)

Frames == 0 .. (Capacity - 1)

VARIABLES
  info,           \* what the boot loader said
  memory_bitmap,  \* the frames whose bit is set
  max_blocks,
  used_blocks,
  held            \* the frames that callers hold

pmmVars == <<info, memory_bitmap, max_blocks, used_blocks, held>>
-----------------------------------------------------------------------------
(* pmm_init_from_mmap *)

RegionEnd(r) == (r.base + r.length) % Word

\* The bytes that the account without a map is taken for
TotalBytes(i) == ((i.lower + i.upper + Upper) * Kilo) % Word

\* compute_max_blocks_from_mmap
Highest(i) ==
  CASE i.kind = "map"  -> Max({0} \cup {RegionEnd(i.map[n]) : n \in {m \in DOMAIN i.map : i.map[m].high = 0}})
    [] i.kind = "size" -> TotalBytes(i)
    [] i.kind = "none" -> 0

Clamp(n) == IF n < Reserve THEN Reserve ELSE IF n > Capacity THEN Capacity ELSE n

\* mark_frames rounds a region outwards.
Touches(base, end, f) ==
  base \div PageSize <= f /\ f < ((end + PageSize - 1) % Word) \div PageSize

\* Mutant: regions above 4 GB are taken for regions below.
CoversLowWord(r, f) == Touches(r.base, RegionEnd(r), f)

Covers(r, f) == r.high = 0 /\ Touches(r.base, RegionEnd(r), f)

\* The regions are marked one after the other: the last that covers a frame decides.
MapFrees(map, f) ==
  \E n \in DOMAIN map : /\ Covers(map[n], f) /\ map[n].type = "available"
                        /\ \A m \in DOMAIN map : Covers(map[m], f) => m <= n

Frees(i, f) == \/ i.kind = "map" /\ MapFrees(i.map, f)
               \/ i.kind = "size" /\ Touches(0, TotalBytes(i), f)

\* Everything is used but what the boot loader frees, and the low frames.
UsedAtBoot(i, max) == {f \in Frames : f < Reserve \/ ~(f < max /\ Frees(i, f))}

\* recount_used_blocks
Recount(bits, max) == Cardinality({f \in bits : f < max})

PmmInit ==
  /\ info \in Infos
  /\ max_blocks = Clamp(Highest(info) \div PageSize)
  /\ memory_bitmap = UsedAtBoot(info, max_blocks)
  /\ used_blocks = Recount(memory_bitmap, max_blocks)
  /\ held = {}
-----------------------------------------------------------------------------

\* The bytes from the reserve on are searched; the bits behind the last whole
\* byte are not.
Searched(f) == f >= Reserve /\ f \div ByteBits < max_blocks \div ByteBits

\* find_first_free_block
find_first_free_block ==
  Min({f \in Frames \ memory_bitmap : Searched(f)} \cup {Capacity})

Refused == used_blocks >= max_blocks \/ find_first_free_block = Capacity

pmm_alloc_block ==
  /\ ~Refused
  /\ memory_bitmap' = memory_bitmap \cup {find_first_free_block}
  /\ used_blocks' = used_blocks + 1
  /\ held' = held \cup {find_first_free_block}
  /\ UNCHANGED <<info, max_blocks>>

\* A caller gives back a frame that it holds.
pmm_free_block(f) ==
  /\ f \in held /\ f >= Reserve /\ f < max_blocks
  /\ memory_bitmap' = memory_bitmap \ {f}
  /\ used_blocks' = used_blocks - 1
  /\ held' = held \ {f}
  /\ UNCHANGED <<info, max_blocks>>

PmmNext == pmm_alloc_block \/ \E f \in Frames : pmm_free_block(f)

PmmSpec == PmmInit /\ [][PmmNext]_pmmVars
-----------------------------------------------------------------------------
(* Properties. *)

\* The bitmap, the bound and the count have their types.
PmmTypeOK ==
  /\ info \in Infos /\ memory_bitmap \subseteq Frames /\ held \subseteq Frames
  /\ max_blocks \in Reserve .. Capacity /\ used_blocks \in 0 .. Capacity

\* The count that guards pmm_alloc_block, and that meminfo prints, is the number of
\* bits set below the bound, after any series of allocations and frees.
Counted == used_blocks = Recount(memory_bitmap, max_blocks)

\* Frames that callers hold are marked, lie above the reserve and below the bound,
\* and every one of them can be given back.
HeldIsMarked ==
  held \subseteq {f \in memory_bitmap : Reserve <= f /\ f < max_blocks}

\* Frame f lies in available memory as a whole, and no reserved region reaches into it.
IsRam(map, f) ==
  LET Low(r) == r.high = 0
      Start(r) == r.base
      End(r) == r.base + r.length
  IN  /\ \E n \in DOMAIN map : /\ Low(map[n]) /\ map[n].type = "available"
                               /\ Start(map[n]) <= f * PageSize
                               /\ (f + 1) * PageSize <= End(map[n])
      /\ \A n \in DOMAIN map : Low(map[n]) /\ map[n].type = "reserved" =>
           End(map[n]) <= f * PageSize \/ (f + 1) * PageSize <= Start(map[n])

\* A map as loaders make it, as far as the frames go: of whole pages, with reserved regions
\* behind the memory they are cut out of.  What reaches the end of the address space, where
\* its end wraps around to 0, begins above the frames.
Overlap(q, r) == q.base < r.base + r.length /\ r.base < q.base + q.length

OfWholePages(map) ==
  LET Low == {n \in DOMAIN map : map[n].high = 0}
  IN  /\ \A n \in Low : /\ map[n].base % PageSize = 0 /\ map[n].length % PageSize = 0
                        /\ \/ map[n].base + map[n].length < Word
                           \/ map[n].base >= Capacity * PageSize
      /\ \A n, m \in Low : map[n].type = "available" /\ map[m].type = "reserved"
                             /\ Overlap(map[n], map[m]) => n < m

\* With such a map, only real memory above the reserve is ever free or handed out.
OnlyRamIsFree ==
  info.kind = "map" /\ OfWholePages(info.map) =>
    \A f \in Frames : f \notin memory_bitmap \/ f \in held =>
      f >= Reserve /\ f < max_blocks /\ IsRam(info.map, f)

\* Without a map, every frame that is free or handed out lies in the bytes that the account
\* is taken for.  That is all that can be said: lower memory is part of the first Upper
\* kilobytes and so counted twice, and the last i.lower kilobytes need not be there.
OnlyCountedIsFree ==
  info.kind # "map" =>
    \A f \in Frames : f \notin memory_bitmap \/ f \in held =>
      f >= Reserve /\ info.kind = "size" /\ (f + 1) * PageSize <= TotalBytes(info)

\* An allocation is refused only when every frame is used, apart from those behind the
\* last whole byte of the bitmap.
RefusedMeansFull ==
  Refused => \A f \in Frames \ memory_bitmap : f >= max_blocks - (max_blocks % ByteBits)

\* After any series of allocations and frees: with a memory map of whole pages only memory is
\* free, without a map only what the loader's account is taken for; what is held is marked,
\* the count is right, and a request is refused only when memory is used up.
PmmInv == /\ PmmTypeOK /\ HeldIsMarked /\ Counted /\ OnlyRamIsFree /\ OnlyCountedIsFree
          /\ RefusedMeansFull
=============================================================================
