---------------------------- MODULE RexFSProofs ----------------------------
(***************************************************************************)
(* Proofs of the safety properties of RexFS, for every size of the disk,   *)
(* of the inode table and of the inodes.                                   *)
(***************************************************************************)
EXTENDS RexFS, SetInduction, FiniteSetTheorems, TLAPS

-----------------------------------------------------------------------------
(* Arithmetic of blocks and chunks. *)

\* Quotient of a division by a positive number.
LEMMA DivBound ==
  ASSUME NEW a \in Nat, NEW b \in Nat, b > 0
  PROVE  a \div b \in Nat /\ (a \div b) * b <= a /\ (a >= b => a \div b > 0)
  BY SMT

\* Multiplication is monotone.
LEMMA MulMono ==
  ASSUME NEW a \in Nat, NEW b \in Nat, NEW c \in Nat, a <= b
  PROVE  a * c \in Nat /\ a * c <= b * c
  BY SMT

\* A payload needs a natural number of blocks, and block j of it starts before
\* its end, so that its chunk has a positive size.
LEMMA ChunkBounds ==
  ASSUME NEW n \in Nat
  PROVE  /\ BlocksNeeded(n) \in Nat /\ (n # 0 => BlocksNeeded(n) > 0)
         /\ \A j \in Nat : j < BlocksNeeded(n) => ChunkSize(n, j) \in Nat \ {0}
<1> DEFINE a == n + BlockSize - 1
<1>1. BlockSize \in Nat /\ BlockSize > 0 /\ a \in Nat
  BY RexFSAssumption
<1>2. /\ BlocksNeeded(n) \in Nat /\ BlocksNeeded(n) * BlockSize <= a
      /\ n # 0 => BlocksNeeded(n) > 0
  BY <1>1, DivBound DEF BlocksNeeded
<1>3. ASSUME NEW j \in Nat, j < BlocksNeeded(n)
      PROVE  ChunkSize(n, j) \in Nat \ {0}
  <2>1. (j + 1) * BlockSize <= BlocksNeeded(n) * BlockSize
    BY <1>1, <1>2, <1>3, MulMono
  <2>2. j * BlockSize \in Nat /\ (j + 1) * BlockSize = j * BlockSize + BlockSize
    BY <1>1
  <2>3. j * BlockSize < n
    BY <1>1, <1>2, <2>1, <2>2
  <2> QED BY <1>1, <2>2, <2>3 DEF ChunkSize
<1> QED BY <1>2, <1>3
-----------------------------------------------------------------------------
(* Type correctness. *)

Filling  == {"alloc", "data", "ind_alloc", "ind_zero", "ind_link"}
Writing  == Filling \cup {"wr_free", "hex_free", "commit"}

\* What the locals of an operation are at each of its steps.  TypeOK alone is not
\* inductive: a step dereferences blk, work.indirect and data[...].ptrs[k - NDirect].
OpOK ==
  /\ ~Busy => cur = 0
  /\ AtRest => NoLocals
  /\ Busy => /\ mounted /\ cur \in Live /\ work.id = cur
             /\ work.type = itable[cur].type
             /\ work.parent = itable[cur].parent
             /\ work.name = itable[cur].name
  /\ pc \in Writing => pay \in Payload
  /\ pc \in Filling => k < BlocksNeeded(pay.len) /\ BlocksNeeded(pay.len) <= MaxBlocks
  /\ pc \in Filling \ {"alloc"} => blk \in Blocks
  /\ pc \in {"ind_alloc", "ind_zero", "ind_link"} => k >= NDirect
  /\ pc \in {"ind_zero", "ind_link"} => work.indirect \in Blocks

TypeInv == TypeOK /\ OpOK

\* Facts about the constants that the steps below use.
LEMMA Constants ==
  /\ NDirect \in Nat \ {0} /\ NIndirect \in Nat /\ MaxBlocks \in Nat
  /\ NInodes \in Nat \ {0} /\ BlockSize \in Nat \ {0}
  /\ Ids = 1 .. NInodes /\ 0 \notin Ids /\ Ids \subseteq 0 .. NInodes
  /\ Blocks \subseteq Nat \ {0}
  /\ NoBlocks \in [0 .. (NDirect - 1) -> Blocks \cup {0}]
  /\ NoPtrs \in [0 .. (NIndirect - 1) -> Blocks \cup {0}]
  /\ FreeInode \in Inode /\ ZeroSector \in Sector
  /\ PayloadLens \subseteq Nat
<1>1. /\ NDirect \in Nat \ {0} /\ NIndirect \in Nat /\ MaxBlocks \in Nat
      /\ NInodes \in Nat \ {0} /\ BlockSize \in Nat \ {0}
      /\ Ids = 1 .. NInodes /\ 0 \notin Ids /\ Ids \subseteq 0 .. NInodes
      /\ Blocks \subseteq Nat \ {0} /\ PayloadLens \subseteq Nat
  BY RexFSAssumption DEF MaxBlocks, Ids, Blocks, DataOffset
<1>2. /\ NoBlocks \in [0 .. (NDirect - 1) -> Blocks \cup {0}]
      /\ NoPtrs \in [0 .. (NIndirect - 1) -> Blocks \cup {0}]
  BY DEF NoBlocks, NoPtrs
<1>3. FreeInode \in Inode /\ ZeroSector \in Sector
  BY <1>1, <1>2 DEF FreeInode, Inode, ZeroSector, Sector
<1> QED BY <1>1, <1>2, <1>3

LEMMA InitType == Init => TypeInv
<1> SUFFICES ASSUME Init PROVE TypeInv
  OBVIOUS
<1>1. TypeOK
  <2>1. sb \in Superblock /\ bitmap \subseteq Blocks /\ pc \in Phases
    BY DEF Init, Superblock, Phases
  <2>2. itable \in [Ids -> Inode] /\ data \in [Blocks -> Sector]
    BY Constants DEF Init
  <2>3. \A i \in Ids : itable[i].id \in {0, i}
    BY DEF Init, FreeInode
  <2>4. /\ mounted \in BOOLEAN /\ work \in Inode /\ pay \in Payload \cup {NoPayload}
        /\ reformatted \in BOOLEAN /\ adrift \in BOOLEAN /\ leaky \in BOOLEAN
    BY Constants, Zenon DEF Init, NoLocals
  <2>5. cwd \in 0 .. NInodes /\ cur \in 0 .. NInodes /\ k \in Nat /\ blk \in Blocks \cup {0}
    BY Constants DEF Init, NoLocals
  <2> QED BY <2>1, <2>2, <2>3, <2>4, <2>5 DEF TypeOK
<1>2. OpOK
  BY DEF Init, OpOK, NoLocals, Busy, AtRest, Filling, Writing
<1> QED BY <1>1, <1>2 DEF TypeInv

\* mount, unmount, boot, power loss, raw write: the inode table is untouched.
LEMMA TypeMount ==
  TypeInv /\ (Mount \/ Unmount \/ Boot \/ PowerLoss \/ RawWrite) => TypeInv'
<1> SUFFICES ASSUME TypeInv, Mount \/ Unmount \/ Boot \/ PowerLoss \/ RawWrite
             PROVE  TypeInv'
  OBVIOUS
<1>1. itable' = itable /\ bitmap' = bitmap /\ data' = data
  BY DEF Mount, Unmount, Boot, PowerLoss, RawWrite, disk
<1>2. sb' \in Superblock
  <2>1. sb \in Superblock
    BY DEF TypeInv, TypeOK
  <2>2. [sb EXCEPT !.clean = 0] \in Superblock /\ [sb EXCEPT !.clean = 1] \in Superblock
    BY <2>1 DEF Superblock
  <2>3. \A s \in {"none", "other"} : [sig |-> s, clean |-> 0] \in Superblock
    BY DEF Superblock
  <2> QED BY <2>1, <2>2, <2>3, Zenon
          DEF Mount, Unmount, Boot, PowerLoss, RawWrite, MountDisk, disk
<1>3. mounted' \in BOOLEAN /\ cwd' \in 0 .. NInodes
  <2>1. mounted \in BOOLEAN /\ cwd \in 0 .. NInodes /\ 0 \in 0 .. NInodes
    BY Constants DEF TypeInv, TypeOK
  <2> QED BY <2>1, Zenon DEF Mount, Unmount, Boot, PowerLoss, RawWrite, MountDisk
<1>4. pc' \in {"idle", "off"}
  BY DEF Mount, Unmount, Boot, PowerLoss, RawWrite, Ready, Idle
<1>5. NoLocals'
  BY DEF TypeInv, OpOK, NoLocals, AtRest, Mount, Unmount, Boot, PowerLoss, RawWrite,
         Ready, Idle, locals
<1>6. TypeOK'
  <2>1. reformatted' \in BOOLEAN /\ adrift' \in BOOLEAN /\ leaky' \in BOOLEAN
    BY Zenon DEF TypeInv, TypeOK, Mount, Unmount, Boot, PowerLoss, RawWrite, MountDisk, past
  <2> QED BY <1>1, <1>2, <1>3, <1>4, <1>5, <2>1, Constants DEF TypeInv, TypeOK, NoLocals, Phases
<1>7. OpOK'
  BY <1>4, <1>5 DEF OpOK, NoLocals, Busy, AtRest, Filling, Writing
<1> QED BY <1>6, <1>7 DEF TypeInv

\* After an operation returns there are no locals left to constrain.
LEMMA ReturnOK ==
  ASSUME TypeInv, Return
  PROVE  /\ OpOK'
         /\ pc' \in Phases /\ cur' \in 0 .. NInodes /\ work' \in Inode
         /\ pay' \in Payload \cup {NoPayload} /\ k' \in Nat /\ blk' \in Blocks \cup {0}
<1>1. pc' = "idle" /\ NoLocals'
  BY DEF Return, NoLocals
<1>2. OpOK'
  BY <1>1 DEF OpOK, NoLocals, Busy, AtRest, Filling, Writing
<1> QED BY <1>1, <1>2, Constants DEF NoLocals, Phases

\* mkfs
LEMMA TypeMkfs == TypeInv /\ (Mkfs \/ MkfsInodes \/ MkfsBitmap) => TypeInv'
<1> SUFFICES ASSUME TypeInv PROVE (Mkfs \/ MkfsInodes \/ MkfsBitmap) => TypeInv'
  OBVIOUS
<1>1. CASE Mkfs
  <2>1. sb' \in Superblock /\ pc' = "mkfs"
    BY <1>1 DEF Mkfs, Superblock
  <2>2. NoLocals /\ UNCHANGED locals
    BY <1>1 DEF Mkfs, TypeInv, OpOK, AtRest, Idle
  <2>3. OpOK'
    BY <2>1, <2>2 DEF OpOK, Busy, AtRest, NoLocals, locals, Filling, Writing
  <2>4. TypeOK'
    <3>1. reformatted' \in BOOLEAN /\ adrift' \in BOOLEAN /\ leaky' \in BOOLEAN
      BY <1>1, Zenon DEF TypeInv, TypeOK, Mkfs
    <3> QED BY <1>1, <2>1, <2>2, <3>1 DEF TypeInv, TypeOK, Mkfs, Phases, locals
  <2> QED BY <2>3, <2>4 DEF TypeInv
<1>2. CASE MkfsInodes
  <2>1. itable' \in [Ids -> Inode] /\ \A i \in Ids : itable'[i].id \in {0, i}
    BY <1>2, Constants DEF TypeInv, TypeOK, MkfsInodes, FreeInode
  <2>2. k' \in Nat
    BY <1>2 DEF TypeInv, TypeOK, MkfsInodes
  <2>3. OpOK'
    BY <1>2 DEF TypeInv, OpOK, MkfsInodes, Busy, AtRest, Filling, Writing
  <2>4. TypeOK'
    BY <1>2, <2>1, <2>2 DEF TypeInv, TypeOK, MkfsInodes, past
  <2> QED BY <2>3, <2>4 DEF TypeInv
<1>3. CASE MkfsBitmap
  <2>1. TypeOK'
    BY <1>3, ReturnOK DEF TypeInv, TypeOK, MkfsBitmap, past
  <2> QED BY <1>3, <2>1, ReturnOK DEF TypeInv, MkfsBitmap
<1> QED BY <1>1, <1>2, <1>3

\* touch, mkdir, rm of a directory: one slot of the table changes
LEMMA TypeNames ==
  ASSUME TypeInv, NEW n \in Names,
         RmDir(n) \/ \E type \in {1, 2} : Create(type, n)
  PROVE  TypeInv'
<1>1. PICK i \in Ids : \/ itable' = [itable EXCEPT ![i] = FreeInode]
                       \/ \E type \in {1, 2} :
                            itable' = [itable EXCEPT ![i] = NewInode(i, type, n)]
  BY DEF RmDir, Create
<1>2. \A type \in {1, 2} : NewInode(i, type, n) \in Inode /\ NewInode(i, type, n).id = i
  BY Constants DEF NewInode, FreeInode, Inode, TypeInv, TypeOK, StoredNames
<1>3. FreeInode \in Inode /\ FreeInode.id = 0
  BY Constants DEF FreeInode
<1>4. itable' \in [Ids -> Inode] /\ \A m \in Ids : itable'[m].id \in {0, m}
  BY <1>1, <1>2, <1>3 DEF TypeInv, TypeOK
<1>5. Idle /\ UNCHANGED <<sb, bitmap, data, mounted, cwd, pc, cur, work, pay, k, blk, past>>
  BY DEF RmDir, Create, Ready, locals
<1>6. OpOK'
  BY <1>5 DEF TypeInv, OpOK, Idle, AtRest, NoLocals, Busy, Filling, Writing
<1>7. TypeOK'
  BY <1>4, <1>5 DEF TypeInv, TypeOK, past
<1> QED BY <1>6, <1>7 DEF TypeInv

\* cd
LEMMA TypeCd ==
  ASSUME TypeInv, CdRoot \/ CdUp \/ \E n \in Names : CdDown(n)
  PROVE  TypeInv'
<1>1. cwd' \in 0 .. NInodes
  <2>1. CASE CdRoot
    BY <2>1, Constants DEF CdRoot
  <2>2. CASE CdUp
    BY <2>2, Constants DEF CdUp, TypeInv, TypeOK, Inode, Live
  <2>3. CASE \E n \in Names : CdDown(n)
    BY <2>3, Constants DEF CdDown
  <2> QED BY <2>1, <2>2, <2>3
<1>2. Idle /\ UNCHANGED <<sb, itable, bitmap, data, mounted, pc, cur, work, pay, k, blk, past>>
  BY DEF CdRoot, CdUp, CdDown, Ready, locals, disk
<1>3. OpOK'
  BY <1>2 DEF TypeInv, OpOK, Idle, AtRest, NoLocals, Busy, Filling, Writing
<1>4. TypeOK'
  BY <1>1, <1>2 DEF TypeInv, TypeOK, past
<1> QED BY <1>3, <1>4 DEF TypeInv

\* The start of rm, write and writehex on a file
LEMMA TypeBegin ==
  ASSUME TypeInv, NEW n \in Names,
         \/ RmFile(n)
         \/ \E p \in Payload : Write(n, p, "wr_free") \/ Write(n, p, "hex_free")
  PROVE  TypeInv'
<1>1. /\ pc' \in {"rm_free", "wr_free", "hex_free"} /\ UNCHANGED <<sb, itable, bitmap, data, mounted, cwd, k, blk, past>>
      /\ mounted
  BY DEF RmFile, Write, disk, Ready
<1>2. cur' \in Live /\ work' = itable[cur']
  BY DEF RmFile, Write, First, Named, FilesNamed, Children
<1>3. pay' \in Payload \cup {NoPayload} /\ (pc' # "rm_free" => pay' \in Payload)
  BY DEF RmFile, Write, TypeInv, TypeOK
<1>4. cur' \in Ids /\ work' \in Inode /\ work'.id = cur'
  BY <1>2 DEF Live, TypeInv, TypeOK
<1>5. TypeOK'
  BY <1>1, <1>3, <1>4, Constants DEF TypeInv, TypeOK, Phases, past
<1>6. OpOK'
  BY <1>1, <1>2, <1>3, <1>4 DEF OpOK, Busy, AtRest, Live, Filling, Writing
<1> QED BY <1>5, <1>6 DEF TypeInv

\* Freeing the blocks of a file
LEMMA TypeFree == TypeInv /\ (FreeBlock \/ RmInode \/ HexNoMemory \/ TooLarge) => TypeInv'
<1> SUFFICES ASSUME TypeInv
             PROVE  (FreeBlock \/ RmInode \/ HexNoMemory \/ TooLarge) => TypeInv'
  OBVIOUS
<1>1. CASE FreeBlock
  <2>1. UNCHANGED <<sb, itable, data, mounted, cwd, pc, cur, work, pay, blk, past>>
    BY <1>1 DEF FreeBlock
  <2>2. k' \in Nat /\ bitmap' \subseteq Blocks
    BY <1>1 DEF FreeBlock, TypeInv, TypeOK
  <2>3. TypeOK'
    BY <2>1, <2>2 DEF TypeInv, TypeOK, past
  <2>4. OpOK'
    BY <1>1, <2>1 DEF TypeInv, OpOK, FreeBlock, Freeing, Busy, AtRest, Live, Filling, Writing
  <2> QED BY <2>3, <2>4 DEF TypeInv
<1>2. CASE RmInode
  <2>1. cur \in Ids
    BY <1>2 DEF RmInode, TypeInv, OpOK, Busy, Live
  <2>2. itable' \in [Ids -> Inode] /\ \A m \in Ids : itable'[m].id \in {0, m}
    BY <1>2, <2>1, Constants DEF RmInode, TypeInv, TypeOK, FreeInode
  <2>3. TypeOK'
    BY <1>2, <2>2, ReturnOK DEF RmInode, TypeInv, TypeOK, past
  <2> QED BY <1>2, <2>3, ReturnOK DEF RmInode, TypeInv
<1>3. CASE HexNoMemory \/ TooLarge
  <2>1. Return /\ UNCHANGED <<sb, itable, bitmap, data, mounted, cwd, past>>
    BY <1>3 DEF HexNoMemory, TooLarge, disk
  <2>2. TypeOK'
    BY <2>1, ReturnOK DEF TypeInv, TypeOK, past
  <2> QED BY <2>1, <2>2, ReturnOK DEF TypeInv
<1> QED BY <1>1, <1>2, <1>3

\* The steps that write the new blocks
LEMMA TypeFill == TypeInv /\ (BeginFill \/ AllocBlock \/ AllocIndex) => TypeInv'
<1> SUFFICES ASSUME TypeInv PROVE (BeginFill \/ AllocBlock \/ AllocIndex) => TypeInv'
  OBVIOUS
<1>1. CASE BeginFill
  <2>1. /\ UNCHANGED <<sb, itable, bitmap, data, mounted, cwd, cur, pay, blk, past>>
        /\ pc' \in {"commit", "alloc"} /\ k' = 0 /\ Busy /\ pay \in Payload
        /\ work \in Inode /\ work.id = cur /\ BlocksNeeded(pay.len) <= MaxBlocks
    BY <1>1 DEF BeginFill, disk, Busy, TypeInv, OpOK, TypeOK, Writing
  <2>2. /\ work' \in Inode /\ work'.id = work.id /\ work'.type = work.type
        /\ work'.parent = work.parent /\ work'.name = work.name
    BY <1>1, <2>1, Constants DEF BeginFill, Inode
  <2>3. pc' = "alloc" => 0 < BlocksNeeded(pay.len)
    <3>1. pay.len \in Nat
      BY <2>1, Constants DEF Payload
    <3> QED BY <1>1, <3>1, ChunkBounds DEF BeginFill
  <2>4. TypeOK'
    BY <2>1, <2>2 DEF TypeInv, TypeOK, Phases, past
  <2>5. OpOK'
    BY <2>1, <2>2, <2>3 DEF TypeInv, OpOK, Busy, AtRest, Live, Filling, Writing
  <2> QED BY <2>4, <2>5 DEF TypeInv
<1>2. CASE AllocBlock
  <2>1. /\ UNCHANGED <<sb, itable, data, mounted, cwd, cur, work, pay, k, past>>
        /\ pc = "alloc" /\ pc' \in {"data", "commit"}
        /\ bitmap' \subseteq Blocks /\ blk' \in Blocks \cup {0}
        /\ pc' = "data" => blk' \in Blocks
    BY <1>2 DEF AllocBlock, TypeInv, TypeOK
  <2>2. TypeOK'
    BY <2>1 DEF TypeInv, TypeOK, Phases, past
  <2>3. OpOK'
    BY <2>1 DEF TypeInv, OpOK, Busy, AtRest, Live, Filling, Writing
  <2> QED BY <2>2, <2>3 DEF TypeInv
<1>3. CASE AllocIndex
  <2>1. /\ UNCHANGED <<sb, itable, data, mounted, cwd, cur, pay, k, blk, past>>
        /\ pc = "ind_alloc" /\ pc' \in {"ind_zero", "commit"} /\ work \in Inode
    BY <1>3 DEF AllocIndex, TypeInv, TypeOK
  <2>2. /\ work' \in Inode /\ work'.id = work.id /\ work'.type = work.type
        /\ work'.parent = work.parent /\ work'.name = work.name
        /\ bitmap' \subseteq Blocks
        /\ pc' = "ind_zero" => work'.indirect \in Blocks
    BY <1>3, <2>1, Constants, ZenonT(30) DEF AllocIndex, Inode, TypeInv, TypeOK
  <2>3. TypeOK'
    BY <2>1, <2>2 DEF TypeInv, TypeOK, Phases, past
  <2>4. OpOK'
    BY <2>1, <2>2 DEF TypeInv, OpOK, Busy, AtRest, Live, Filling, Writing
  <2> QED BY <2>3, <2>4 DEF TypeInv
<1> QED BY <1>1, <1>2, <1>3

\* The steps that write a data block, an index block and the inode
LEMMA TypeSectors ==
  TypeInv /\ (WriteData \/ ZeroIndex \/ LinkIndex \/ CommitInode) => TypeInv'
<1> SUFFICES ASSUME TypeInv
             PROVE  (WriteData \/ ZeroIndex \/ LinkIndex \/ CommitInode) => TypeInv'
  OBVIOUS
<1>1. CASE WriteData
  <2>1. /\ UNCHANGED <<sb, itable, bitmap, mounted, cwd, cur, pay, past>>
        /\ pc = "data" /\ blk \in Blocks /\ work \in Inode /\ pay \in Payload
        /\ k \in Nat /\ k < BlocksNeeded(pay.len) /\ BlocksNeeded(pay.len) <= MaxBlocks
        /\ pay.len \in Nat /\ pay.text \in Texts /\ work.id = cur
    <3>1. UNCHANGED <<sb, itable, bitmap, mounted, cwd, cur, pay, past>> /\ pc = "data"
      BY <1>1 DEF WriteData
    <3>2. /\ blk \in Blocks /\ work \in Inode /\ pay \in Payload /\ k \in Nat
          /\ k < BlocksNeeded(pay.len) /\ BlocksNeeded(pay.len) <= MaxBlocks
          /\ work.id = cur
      BY <3>1 DEF TypeInv, TypeOK, OpOK, Writing, Filling, Busy
    <3> QED BY <3>1, <3>2, Constants DEF Payload
  <2>2. ChunkSize(pay.len, k) \in Nat
    BY <2>1, ChunkBounds
  <2>3. ChunkSector(pay, k) \in Sector
    BY <2>1, <2>2, Constants DEF ChunkSector, ZeroSector, Sector
  <2>4. data' \in [Blocks -> Sector]
    BY <1>1, <2>1, <2>3 DEF WriteData, TypeInv, TypeOK
  <2>5. /\ work' \in Inode /\ work'.id = work.id /\ work'.type = work.type
        /\ work'.parent = work.parent /\ work'.name = work.name
        /\ work'.indirect = work.indirect
    <3> DEFINE n == work.size + ChunkSize(pay.len, k)
               w == [work EXCEPT !.size = n]
    <3>1. n \in Nat
      BY <2>1, <2>2 DEF Inode
    <3>2. /\ w \in Inode /\ w.id = work.id /\ w.type = work.type
          /\ w.parent = work.parent /\ w.name = work.name /\ w.indirect = work.indirect
      BY <2>1, <3>1 DEF Inode
    <3> DEFINE d == [work.direct EXCEPT ![k] = blk]
               v == [work EXCEPT !.size = n, !.direct = d]
    <3>3. ASSUME k < NDirect
          PROVE  /\ v \in Inode /\ v.id = work.id /\ v.type = work.type
                 /\ v.parent = work.parent /\ v.name = work.name /\ v.indirect = work.indirect
      <4>1. d \in [0 .. (NDirect - 1) -> Blocks \cup {0}]
        BY <2>1, <3>3, Constants DEF Inode
      <4> HIDE DEF d, n
      <4> QED BY <2>1, <3>1, <4>1 DEF Inode
    <3>4. work' = w \/ (k < NDirect /\ work' = v)
      BY <1>1, Zenon DEF WriteData
    <3> QED BY <3>2, <3>3, <3>4
  <2>6. /\ k' \in Nat /\ blk' \in Blocks \cup {0}
        /\ \/ pc' = "alloc" /\ k' < BlocksNeeded(pay.len)
           \/ pc' = "commit"
           \/ /\ pc' \in {"ind_alloc", "ind_link"} /\ k' = k /\ blk' = blk /\ k >= NDirect
              /\ pc' = "ind_link" => work.indirect # 0
    BY <1>1, <2>1 DEF WriteData, NextBlock
  <2>7. TypeOK'
    BY <2>1, <2>4, <2>5, <2>6 DEF TypeInv, TypeOK, Phases, past
  <2>8. pc' = "ind_link" => work'.indirect \in Blocks
    BY <2>1, <2>5, <2>6 DEF Inode
  <2>9. OpOK'
    BY <2>1, <2>5, <2>6, <2>8 DEF TypeInv, OpOK, Busy, AtRest, Live, Filling, Writing
  <2> QED BY <2>7, <2>9 DEF TypeInv
<1>2. CASE ZeroIndex
  <2>1. /\ UNCHANGED <<sb, itable, bitmap, mounted, cwd, cur, work, pay, k, blk, past>>
        /\ pc = "ind_zero" /\ pc' = "ind_link"
    BY <1>2 DEF ZeroIndex
  <2>2. data' \in [Blocks -> Sector]
    BY <1>2, Constants DEF ZeroIndex, TypeInv, TypeOK
  <2>3. TypeOK'
    BY <2>1, <2>2 DEF TypeInv, TypeOK, Phases, past
  <2>4. OpOK'
    BY <2>1 DEF TypeInv, OpOK, Busy, AtRest, Live, Filling, Writing
  <2> QED BY <2>3, <2>4 DEF TypeInv
<1>3. CASE LinkIndex
  <2>1. /\ UNCHANGED <<sb, itable, bitmap, mounted, cwd, cur, work, pay, past>>
        /\ pc = "ind_link" /\ blk \in Blocks /\ work.indirect \in Blocks
        /\ k \in Nat /\ k >= NDirect /\ k < BlocksNeeded(pay.len)
        /\ BlocksNeeded(pay.len) <= MaxBlocks /\ pay.len \in Nat
        /\ data \in [Blocks -> Sector]
    BY <1>3, Constants DEF LinkIndex, TypeInv, TypeOK, OpOK, Writing, Filling, Payload
  <2>2. k - NDirect \in 0 .. (NIndirect - 1)
    <3>1. BlocksNeeded(pay.len) \in Nat
      BY <2>1, ChunkBounds
    <3> QED BY <2>1, <3>1, Constants DEF MaxBlocks
  <2>3. [data[work.indirect] EXCEPT !.ptrs[k - NDirect] = blk] \in Sector
    BY <2>1, <2>2 DEF Sector
  <2>4. data' \in [Blocks -> Sector]
    BY <1>3, <2>1, <2>3 DEF LinkIndex
  <2>5. /\ k' \in Nat /\ blk' = 0
        /\ (pc' = "alloc" /\ k' < BlocksNeeded(pay.len)) \/ pc' = "commit"
    BY <1>3, <2>1 DEF LinkIndex, NextBlock
  <2>6. TypeOK'
    BY <2>1, <2>4, <2>5 DEF TypeInv, TypeOK, Phases, past
  <2>7. OpOK'
    BY <2>1, <2>5 DEF TypeInv, OpOK, Busy, AtRest, Live, Filling, Writing
  <2> QED BY <2>6, <2>7 DEF TypeInv
<1>4. CASE CommitInode
  <2>1. cur \in Ids /\ work \in Inode /\ work.id = cur
    BY <1>4 DEF CommitInode, TypeInv, TypeOK, OpOK, Busy, Live
  <2>2. itable' \in [Ids -> Inode] /\ \A m \in Ids : itable'[m].id \in {0, m}
    BY <1>4, <2>1 DEF CommitInode, TypeInv, TypeOK
  <2>3. TypeOK'
    BY <1>4, <2>2, ReturnOK DEF CommitInode, TypeInv, TypeOK, past
  <2> QED BY <1>4, <2>3, ReturnOK DEF CommitInode, TypeInv
<1> QED BY <1>1, <1>2, <1>3, <1>4

LEMMA TypeStutter == TypeInv /\ UNCHANGED vars => TypeInv'
  BY DEF vars, TypeInv, TypeOK, OpOK, Busy, AtRest, NoLocals, Live

LEMMA TypeNext == TypeInv /\ [Next]_vars => TypeInv'
  BY TypeMount, TypeMkfs, TypeNames, TypeCd, TypeBegin, TypeFree, TypeFill, TypeSectors,
     TypeStutter, Zenon DEF Next, Command, OpStep

\* The disk structures, the mount state and the locals of the running operation
\* keep their types: no step indexes the inode table, the data area or an index
\* block outside its range, whatever power losses and failures occur.
THEOREM TypeCorrect == Spec => []TypeOK
<1>1. Spec => []TypeInv
  BY InitType, TypeNext, PTL DEF Spec
<1>2. TypeInv => TypeOK
  BY DEF TypeInv
<1> QED BY <1>1, <1>2, PTL
\* The strengthened invariant itself, for the theorems below.
LEMMA TypeInvariant == Spec => []TypeInv
  BY InitType, TypeNext, PTL DEF Spec
-----------------------------------------------------------------------------
(* Names. *)

SameKeys(i) == /\ itable'[i].id = itable[i].id /\ itable'[i].type = itable[i].type
               /\ itable'[i].parent = itable[i].parent /\ itable'[i].name = itable[i].name

\* Only touch and mkdir add an entry; every other step leaves an entry its
\* directory, name and type, or frees its slot.
LEMMA TableSteps ==
  ASSUME TypeInv, [Next]_vars
  PROVE  \/ \A i \in Ids : itable'[i].id = 0 \/ SameKeys(i)
         \/ \E n \in Names, type \in {1, 2} : Create(type, n)
<1>1. ASSUME itable' = itable
      PROVE  \A i \in Ids : SameKeys(i)
  BY <1>1 DEF SameKeys
<1>2. ASSUME NEW c \in Ids, itable' = [itable EXCEPT ![c] = FreeInode]
      PROVE  \A i \in Ids : itable'[i].id = 0 \/ SameKeys(i)
  BY <1>2 DEF SameKeys, FreeInode, TypeInv, TypeOK
<1>3. CASE MkfsInodes
  BY <1>3 DEF MkfsInodes, SameKeys, FreeInode
<1>4. CASE CommitInode
  <2>1. /\ cur \in Ids /\ work.id = itable[cur].id /\ work.type = itable[cur].type
        /\ work.parent = itable[cur].parent /\ work.name = itable[cur].name
    BY <1>4 DEF CommitInode, TypeInv, TypeOK, OpOK, Busy, Live
  <2> QED BY <1>4, <2>1 DEF CommitInode, SameKeys, TypeInv, TypeOK
<1>5. CASE RmInode
  <2>1. cur \in Ids
    BY <1>5 DEF RmInode, TypeInv, OpOK, Busy, Live
  <2> QED BY <1>2, <1>5, <2>1 DEF RmInode
<1>6. CASE \E n \in Names : RmDir(n)
  BY <1>2, <1>6 DEF RmDir
<1>7. CASE \E n \in Names, type \in {1, 2} : Create(type, n)
  BY <1>7
<1>8. CASE \/ Boot \/ PowerLoss \/ Mount \/ Unmount \/ RawWrite \/ Mkfs \/ CdRoot \/ CdUp
           \/ \E n \in Names : CdDown(n) \/ RmFile(n)
           \/ \E n \in Names, p \in Payload : Write(n, p, "wr_free") \/ Write(n, p, "hex_free")
           \/ MkfsBitmap \/ FreeBlock \/ HexNoMemory \/ TooLarge \/ BeginFill
           \/ AllocBlock \/ WriteData \/ AllocIndex \/ ZeroIndex \/ LinkIndex
           \/ UNCHANGED vars
  <2>1. itable' = itable
    BY <1>8, Zenon
       DEF Boot, PowerLoss, Mount, Unmount, RawWrite, Mkfs, CdRoot, CdUp, CdDown, RmFile,
           Write, MkfsBitmap, FreeBlock, HexNoMemory, TooLarge, BeginFill, AllocBlock,
           WriteData, AllocIndex, ZeroIndex, LinkIndex, vars, disk
  <2> QED BY <1>1, <2>1
<1> QED BY <1>3, <1>4, <1>5, <1>6, <1>7, <1>8, Zenon DEF Next, Command, OpStep

\* No directory ever has two entries of the same name, unless that name is what the
\* disk keeps of a longer one, whatever power losses, failed writes and formats occur
\* in between: the check of touch and mkdir compares the name typed with the names
\* stored, so only a name that is cut can slip past it.
THEOREM NamesUnique == Spec => []UniqueNamesUnlessCut
<1> DEFINE IsCut(m) == \E n \in Names : Stored(n) # n /\ Stored(n) = m
<1>1. Init => UniqueNamesUnlessCut
  BY Constants DEF Init, UniqueNamesUnlessCut, Live, FreeInode
<1>2. ASSUME UniqueNamesUnlessCut, TypeInv, [Next]_vars PROVE UniqueNamesUnlessCut'
  <2>1. CASE \A i \in Ids : itable'[i].id = 0 \/ SameKeys(i)
    <3>1. \A i \in Live' : /\ i \in Live /\ itable'[i].parent = itable[i].parent
                          /\ itable'[i].name = itable[i].name
      BY <2>1 DEF Live, SameKeys
    <3> QED BY <1>2, <3>1 DEF UniqueNamesUnlessCut
  <2>2. CASE \E n \in Names, type \in {1, 2} : Create(type, n)
    <3>1. PICK n \in Names, type \in {1, 2}, c \in Ids :
             /\ Named(n) = {} /\ c \in FreeSlots
             /\ itable' = [itable EXCEPT ![c] = NewInode(c, type, n)]
      BY <2>2 DEF Create, First
    <3>2. /\ itable'[c].parent = cwd /\ itable'[c].name = Stored(n)
          /\ \A i \in Ids \ {c} : itable'[i] = itable[i]
      BY <3>1, <1>2 DEF NewInode, FreeInode, TypeInv, TypeOK
    <3>3. \A i \in Live : itable[i].parent = cwd => itable[i].name # n
      BY <3>1 DEF Named, Children
    <3>4. \A i \in Ids \ {c} : i \in Live' <=> i \in Live
      BY <3>2 DEF Live
    <3>5. \A i \in Live' \ {c} :
             /\ i \in Live /\ itable'[i] = itable[i]
             /\ itable'[i].parent = itable'[c].parent /\ itable'[i].name = itable'[c].name
                  => IsCut(itable'[c].name)
      BY <3>2, <3>3, <3>4 DEF Live
    <3> QED BY <1>2, <3>5 DEF UniqueNamesUnlessCut
  <2> QED BY <1>2, <2>1, <2>2, TableSteps
<1> QED BY <1>1, <1>2, TypeInvariant, PTL DEF Spec
-----------------------------------------------------------------------------
(* The superblock. *)

\* From mount to unmount the disk of a mounted file system is valid and marked
\* dirty, also in the middle of an operation and whatever fails, until mkfs is typed
\* under it; so a power loss at any such step is visible to the next mount.
THEOREM CrashIsVisible == Spec => []DirtyUnlessReformatted
<1>1. Init => DirtyUnlessReformatted
  BY DEF Init, DirtyUnlessReformatted, DirtyWhileMounted
<1>2. ASSUME DirtyUnlessReformatted, TypeInv, [Next]_vars PROVE DirtyUnlessReformatted'
  <2>1. CASE UNCHANGED <<sb, mounted, reformatted>>
    BY <1>2, <2>1 DEF DirtyUnlessReformatted, DirtyWhileMounted
  <2>2. CASE Mount \/ Unmount \/ Boot \/ PowerLoss \/ RawWrite \/ Mkfs
    <3>1. sb \in Superblock
      BY <1>2 DEF TypeInv, TypeOK
    <3>2. MountDisk => sb'.sig = "rexfs" /\ sb'.clean = 0
      BY <3>1 DEF MountDisk, Superblock
    <3>3. ~mounted' \/ reformatted' \/ MountDisk \/ UNCHANGED <<sb, mounted, reformatted>>
      <4>1. CASE Mkfs
        BY <4>1 DEF Mkfs
      <4>2. CASE Mount \/ Unmount \/ Boot \/ PowerLoss \/ RawWrite
        BY <4>2, Zenon DEF Mount, Unmount, Boot, PowerLoss, RawWrite, past
      <4> QED BY <2>2, <4>1, <4>2
    <3> QED BY <2>1, <3>2, <3>3 DEF DirtyUnlessReformatted, DirtyWhileMounted
  <2> QED BY <1>2, <2>1, <2>2, Zenon
          DEF Next, Command, OpStep, vars, disk, past, Create, CdRoot, CdUp, CdDown, RmDir,
              RmFile, Write, MkfsInodes, MkfsBitmap, FreeBlock, RmInode, HexNoMemory,
              TooLarge, BeginFill, AllocBlock, WriteData, AllocIndex, ZeroIndex,
              LinkIndex, CommitInode
<1> QED BY <1>1, <1>2, TypeInvariant, PTL DEF Spec
-----------------------------------------------------------------------------
(* mkfs. *)

\* The sectors of the inode table that mkfs has passed are empty.
MkfsInv == pc = "mkfs" => /\ k <= InodeSectors
                          /\ \A i \in Ids : (i - 1) \div SlotsPerSector < k => i \notin Live

\* The inode sectors hold every slot.
LEMMA SectorsCoverSlots ==
  /\ InodeSectors \in Nat
  /\ \A i \in Ids : (i - 1) \div SlotsPerSector \in Nat
                    /\ (i - 1) \div SlotsPerSector < InodeSectors
<1> DEFINE S == SlotsPerSector
           a == NInodes + S - 1
<1>1. S \in Nat /\ S > 0 /\ NInodes \in Nat /\ a \in Nat
  BY RexFSAssumption
<1>2. InodeSectors \in Nat /\ a < InodeSectors * S + S
  <2>1. ASSUME NEW x \in Nat, NEW y \in Nat, y > 0
        PROVE  x \div y \in Nat /\ x < (x \div y) * y + y
    BY <2>1, SMT
  <2> QED BY <1>1, <2>1 DEF InodeSectors
<1>3. ASSUME NEW i \in Ids
      PROVE  (i - 1) \div S \in Nat /\ (i - 1) \div S < InodeSectors
  <2> DEFINE q == (i - 1) \div S
  <2>1. i - 1 \in Nat /\ i - 1 < NInodes
    BY <1>1 DEF Ids
  <2>2. q \in Nat /\ q * S <= i - 1
    BY <1>1, <2>1, DivBound
  <2>3. q * S + S <= a
    BY <1>1, <2>1, <2>2
  <2>4. ASSUME InodeSectors <= q PROVE FALSE
    <3>1. InodeSectors * S <= q * S /\ InodeSectors * S \in Nat
      BY <1>1, <1>2, <2>2, <2>4, MulMono
    <3>2. q * S \in Nat
      BY <1>1, <2>2
    <3> QED BY <1>1, <1>2, <2>3, <3>1, <3>2
  <2> QED BY <1>2, <2>2, <2>4
<1> QED BY <1>2, <1>3
\* Every action, for steps that only need to be told apart.
LEMMA Steps ==
  ASSUME [Next]_vars
  PROVE  \/ Mkfs \/ MkfsInodes \/ MkfsBitmap \/ PowerLoss \/ Boot
         \/ Mount \/ Unmount \/ RawWrite
         \/ CdRoot \/ CdUp \/ \E n \in Names : CdDown(n)
         \/ \E n \in Names, type \in {1, 2} : Create(type, n)
         \/ \E n \in Names : RmDir(n)
         \/ \E n \in Names : RmFile(n)
         \/ \E n \in Names, p \in Payload : Write(n, p, "wr_free") \/ Write(n, p, "hex_free")
         \/ RmInode \/ CommitInode
         \/ FreeBlock \/ HexNoMemory \/ TooLarge \/ BeginFill \/ AllocBlock
         \/ WriteData \/ AllocIndex \/ ZeroIndex \/ LinkIndex
         \/ UNCHANGED vars
  BY Zenon DEF Next, Command, OpStep

\* Only mkfs itself is in mkfs.
LEMMA OtherPc ==
  ASSUME TypeInv, [Next]_vars
  PROVE  \/ Mkfs \/ MkfsInodes \/ UNCHANGED vars
         \/ pc' # "mkfs" /\ (pc = "mkfs" => MkfsBitmap \/ PowerLoss)
<1>1. CASE MkfsBitmap \/ PowerLoss
  BY <1>1 DEF MkfsBitmap, PowerLoss, Return
<1>2. CASE \/ Boot \/ Mount \/ Unmount \/ RawWrite \/ CdRoot \/ CdUp
           \/ \E n \in Names : CdDown(n) \/ RmDir(n) \/ RmFile(n)
           \/ \E n \in Names, type \in {1, 2} : Create(type, n)
           \/ \E n \in Names, p \in Payload : Write(n, p, "wr_free") \/ Write(n, p, "hex_free")
  <2>1. pc \in {"idle", "off"} /\ pc' \in {"idle", "rm_free", "wr_free", "hex_free"}
    BY <1>2 DEF Boot, Mount, Unmount, RawWrite, CdRoot, CdUp, CdDown, RmDir, RmFile,
                Create, Write, Ready, Idle
  <2> QED BY <2>1
<1>3. CASE \/ RmInode \/ CommitInode \/ FreeBlock \/ HexNoMemory \/ TooLarge
           \/ BeginFill \/ AllocBlock \/ WriteData \/ AllocIndex \/ ZeroIndex \/ LinkIndex
  <2>1. pc # "mkfs"
    BY <1>3 DEF RmInode, CommitInode, FreeBlock, Freeing, HexNoMemory, TooLarge, BeginFill,
                AllocBlock, WriteData, AllocIndex, ZeroIndex, LinkIndex
  <2>2. pc' # "mkfs"
    BY <1>3, <2>1 DEF RmInode, CommitInode, FreeBlock, HexNoMemory, TooLarge, BeginFill,
                AllocBlock, WriteData, AllocIndex, ZeroIndex, LinkIndex, Return, NextBlock
  <2> QED BY <2>1, <2>2
<1> QED BY <1>1, <1>2, <1>3, Steps, Zenon

LEMMA MkfsNext ==
  ASSUME MkfsInv, TypeInv, [Next]_vars
  PROVE  MkfsInv'
<1>1. CASE Mkfs
  <2>1. k = 0 /\ k' = 0
    BY <1>1 DEF Mkfs, Idle, TypeInv, OpOK, AtRest, NoLocals, locals
  <2> QED BY <2>1, SectorsCoverSlots DEF MkfsInv, InodeSectors
<1>2. CASE MkfsInodes
  <2>1. /\ pc = "mkfs" /\ k \in Nat /\ k < InodeSectors /\ k' = k + 1
        /\ itable' = [i \in Ids |-> IF i \in SlotsIn(k) THEN FreeInode ELSE itable[i]]
    BY <1>2 DEF MkfsInodes, TypeInv, TypeOK
  <2>2. ASSUME NEW i \in Ids, (i - 1) \div SlotsPerSector < k + 1
        PROVE  i \notin Live'
    <3>1. CASE (i - 1) \div SlotsPerSector < k
      <4>1. itable[i].id = 0
        BY <2>1, <2>2, <3>1 DEF MkfsInv, Live
      <4> QED BY <2>1, <4>1 DEF Live, FreeInode
    <3>2. CASE (i - 1) \div SlotsPerSector = k
      BY <2>1, <3>2 DEF Live, FreeInode, SlotsIn
    <3> QED BY <2>1, <2>2, <3>1, <3>2, SectorsCoverSlots
  <2>3. k' <= InodeSectors
    BY <2>1, SectorsCoverSlots
  <2> QED BY <2>1, <2>2, <2>3 DEF MkfsInv, InodeSectors
<1>3. CASE UNCHANGED vars
  BY <1>3 DEF vars, MkfsInv, Live, InodeSectors
<1>4. CASE pc' # "mkfs"
  BY <1>4 DEF MkfsInv
<1> QED BY <1>1, <1>2, <1>3, <1>4, OtherPc

\* When mkfs writes the bitmap the inode table is empty.
LEMMA MkfsDone ==
  ASSUME MkfsInv, TypeInv, MkfsBitmap
  PROVE  Live = {} /\ Live' = {}
<1>1. \A i \in Ids : i \notin Live
  BY SectorsCoverSlots DEF MkfsInv, MkfsBitmap
<1>2. itable' = itable
  BY DEF MkfsBitmap
<1> QED BY <1>1, <1>2 DEF Live
-----------------------------------------------------------------------------
(* The directory tree. *)

\* TreeSound is not inductive: mkfs empties the table sector by sector, which leaves
\* the current directory alone only at the root, and rm of a file must know that it is
\* not about to clear the slot of a directory.
TreeInv ==
  /\ pc = "mkfs" => cwd = 0
  /\ pc = "rm_free" => itable[cur].type # 2
  /\ pc # "mkfs" => Rooted
  /\ cwd # 0 => IsDir(cwd)

LEMMA TreeInit == Init => TreeInv
  BY Constants DEF Init, TreeInv, Rooted, IsDir, Live, FreeInode

\* Steps that keep the table, or at least every entry's keys.
LEMMA TreeKept ==
  ASSUME TreeInv, TypeInv, pc' # "mkfs", pc # "mkfs", cwd' = cwd,
         pc' = "rm_free" => itable'[cur'].type # 2,
         \A i \in Ids : SameKeys(i)
  PROVE  TreeInv'
<1>1. Live' = Live
  BY DEF Live, SameKeys
<1>2. \A i \in Ids : IsDir(i)' <=> IsDir(i)
  BY <1>1 DEF IsDir, SameKeys, Live
<1>3. \A i \in Live : itable[i].parent # 0 => itable[i].parent \in Ids
  BY DEF TreeInv, Rooted, IsDir, Live
<1>4. Rooted'
  BY <1>1, <1>2, <1>3 DEF TreeInv, Rooted, SameKeys, Live
<1>5. cwd' # 0 => IsDir(cwd)'
  BY <1>2 DEF TreeInv, IsDir, Live, SameKeys
<1> QED BY <1>4, <1>5 DEF TreeInv
\* Clearing a slot nobody hangs below.
LEMMA TreeRemoved ==
  ASSUME TreeInv, TypeInv, pc # "mkfs", pc' = "idle", cwd' = cwd,
         NEW c \in Ids, itable' = [itable EXCEPT ![c] = FreeInode],
         cwd # c, \A i \in Live : itable[i].parent # c
  PROVE  TreeInv'
<1>1. Live' = Live \ {c} /\ \A i \in Ids \ {c} : itable'[i] = itable[i]
  BY DEF Live, FreeInode, TypeInv, TypeOK
<1>2. \A i \in Ids \ {c} : IsDir(i) => IsDir(i)'
  BY <1>1 DEF IsDir, Live
<1>3. \A i \in Live : itable[i].parent # 0 => itable[i].parent \in Ids \ {c}
  BY DEF TreeInv, Rooted, IsDir, Live
<1>4. Rooted'
  BY <1>1, <1>2, <1>3 DEF TreeInv, Rooted, Live
<1>5. cwd' # 0 => IsDir(cwd)'
  BY <1>1, <1>2 DEF TreeInv, IsDir, Live
<1> QED BY <1>4, <1>5 DEF TreeInv

\* Only mkfs, and a power loss inside it, changes adrift.
LEMMA AdriftSteps ==
  ASSUME [Next]_vars
  PROVE  Mkfs \/ PowerLoss \/ adrift' = adrift
  BY Zenon
     DEF Next, Command, OpStep, vars, past, Boot, Mount, Unmount, RawWrite, Create, CdRoot,
         CdUp, CdDown, RmDir, RmFile, Write, MkfsInodes, MkfsBitmap, FreeBlock, RmInode,
         HexNoMemory, TooLarge, BeginFill, AllocBlock, WriteData, AllocIndex, ZeroIndex,
         LinkIndex, CommitInode

LEMMA TreeNext ==
  ASSUME ~adrift => TreeInv, MkfsInv, TypeInv, [Next]_vars, ~adrift'
  PROVE  TreeInv'
<1>1. CASE Mkfs
  <2>1. cwd = 0 /\ cwd' = cwd /\ pc' = "mkfs"
    BY <1>1 DEF Mkfs
  <2> QED BY <2>1 DEF TreeInv
<1>0. ASSUME ~Mkfs PROVE TreeInv
  BY <1>0, AdriftSteps, Zenon DEF PowerLoss
<1>2. CASE TreeInv /\ MkfsInodes
  BY <1>2 DEF MkfsInodes, TreeInv
<1>3. CASE TreeInv /\ MkfsBitmap
  <2>1. Live' = {} /\ pc' = "idle" /\ cwd' = cwd /\ pc = "mkfs"
    BY <1>3, MkfsDone DEF MkfsBitmap, Return
  <2> QED BY <1>3, <2>1 DEF TreeInv, Rooted
<1>4. CASE TreeInv /\ (PowerLoss \/ Boot \/ Mount \/ Unmount)
  <2>1. pc # "mkfs"
    BY <1>4 DEF PowerLoss, Boot, Mount, Unmount, Idle, Ready
  <2>2. itable' = itable /\ pc' \in {"idle", "off"} /\ cwd' \in {0, cwd}
    <3>1. CASE Boot
      BY <3>1 DEF Boot, MountDisk
    <3>2. CASE PowerLoss
      BY <3>2 DEF PowerLoss, disk
    <3>3. CASE Mount \/ Unmount
      BY <3>3 DEF Mount, Unmount, MountDisk, Ready, Idle
    <3> QED BY <1>4, <3>1, <3>2, <3>3
  <2>3. Live' = Live /\ \A i : IsDir(i)' <=> IsDir(i)
    BY <2>2 DEF Live, IsDir
  <2>4. Rooted'
    BY <1>4, <2>1, <2>2, <2>3 DEF TreeInv, Rooted
  <2>5. cwd' # 0 => IsDir(cwd)'
    BY <1>4, <2>2 DEF TreeInv, IsDir, Live
  <2> QED BY <2>2, <2>4, <2>5 DEF TreeInv
<1>5. CASE /\ TreeInv
           /\ \/ RawWrite
              \/ \E n \in Names, p \in Payload : Write(n, p, "wr_free") \/ Write(n, p, "hex_free")
  <2>1. /\ pc # "mkfs" /\ pc' \notin {"mkfs", "rm_free"} /\ itable' = itable
        /\ cwd' = cwd
    BY <1>5 DEF RawWrite, Write, Ready, Idle, disk
  <2>2. \A i \in Ids : SameKeys(i)
    BY <2>1 DEF SameKeys
  <2> QED BY <1>5, <2>1, <2>2, TreeKept
<1>6. CASE TreeInv /\ (\E n \in Names : RmFile(n))
  <2>1. /\ pc # "mkfs" /\ itable' = itable /\ cwd' = cwd
        /\ pc' = "rm_free" /\ itable[cur'].type # 2
    BY <1>6 DEF RmFile, Ready, Idle, disk
  <2>2. \A i \in Ids : SameKeys(i)
    BY <2>1 DEF SameKeys
  <2> QED BY <1>6, <2>1, <2>2, TreeKept
<1>7. CASE TreeInv /\ (CdRoot \/ CdUp \/ \E n \in Names : CdDown(n))
  <2>1. /\ pc' = pc /\ pc = "idle" /\ itable' = itable
    BY <1>7 DEF CdRoot, CdUp, CdDown, Ready, Idle, disk
  <2>2. Live' = Live /\ \A i : IsDir(i)' <=> IsDir(i)
    BY <2>1 DEF Live, IsDir
  <2>3. cwd' # 0 => IsDir(cwd')
    <3>1. CASE CdRoot
      BY <3>1 DEF CdRoot
    <3>2. CASE CdUp
      BY <1>7, <2>1, <3>2 DEF CdUp, TreeInv, Rooted
    <3>3. CASE \E n \in Names : CdDown(n)
      BY <3>3 DEF CdDown, First, DirsNamed, Named, Children, IsDir
    <3> QED BY <1>7, <3>1, <3>2, <3>3
  <2>4. Rooted'
    BY <1>7, <2>1, <2>2 DEF TreeInv, Rooted
  <2>5. IsDir(cwd)' <=> IsDir(cwd')
    BY <2>1 DEF IsDir, Live
  <2> QED BY <1>7, <2>1, <2>3, <2>4, <2>5 DEF TreeInv
<1>8. CASE TreeInv /\ (\E n \in Names, type \in {1, 2} : Create(type, n))
  <2>1. PICK n \in Names, type \in {1, 2}, c \in Ids :
           /\ c \in FreeSlots /\ itable' = [itable EXCEPT ![c] = NewInode(c, type, n)]
    BY <1>8 DEF Create, First
  <2>2. pc' = pc /\ pc = "idle" /\ cwd' = cwd
    BY <1>8 DEF Create, Ready, Idle
  <2>3. /\ itable'[c].parent = cwd /\ c \notin Live
        /\ \A i \in Ids \ {c} : itable'[i] = itable[i]
    BY <2>1 DEF NewInode, FreeInode, TypeInv, TypeOK, FreeSlots
  <2>4. \A i \in Ids : IsDir(i) => IsDir(i)'
    BY <2>3 DEF IsDir, Live
  <2>5. cwd # 0 => cwd \in Ids /\ IsDir(cwd)'
    BY <1>8, <2>2, <2>3 DEF TreeInv, IsDir, Live
  <2>6. \A i \in Live' \ {c} : i \in Live /\ itable'[i] = itable[i]
    BY <2>3 DEF Live
  <2>7. \A i \in Ids : IsDir(i)' <=> i \in Live' /\ itable'[i].type = 2
    BY DEF IsDir
  <2>8. Rooted'
    <3> SUFFICES ASSUME NEW i \in Live', itable'[i].parent # 0
                 PROVE  IsDir(itable[i].parent)'
      BY DEF Rooted
    <3>1. CASE i = c
      BY <2>2, <2>3, <2>5, <3>1 DEF IsDir, Live
    <3>2. CASE i # c
      <4>1. i \in Live /\ itable'[i].parent = itable[i].parent
        BY <2>6, <3>2
      <4>2. IsDir(itable[i].parent) /\ itable[i].parent \in Ids
        BY <1>8, <2>2, <4>1 DEF TreeInv, Rooted, IsDir, Live
      <4> QED BY <2>3, <2>4, <4>1, <4>2 DEF IsDir, Live
    <3> QED BY <3>1, <3>2
  <2> QED BY <1>8, <2>2, <2>5, <2>8 DEF TreeInv, IsDir
<1>9. CASE TreeInv /\ (\E n \in Names : RmDir(n))
  <2>1. PICK n \in Names, c \in Ids :
           /\ c \in Named(n) /\ Children(c) = {} /\ itable' = [itable EXCEPT ![c] = FreeInode]
    BY <1>9 DEF RmDir, First
  <2>2. pc' = pc /\ pc = "idle" /\ cwd' = cwd
    BY <1>9 DEF RmDir, Ready, Idle
  <2>3. \A i \in Live : itable[i].parent # c
    BY <2>1 DEF Children
  <2>4. cwd # c
    BY <2>1, <2>3 DEF Named, Children
  <2> QED BY <1>9, <2>1, <2>2, <2>3, <2>4, TreeRemoved
<1>10. CASE TreeInv /\ (RmInode)
  <2>1. /\ pc = "rm_free" /\ pc' = "idle" /\ cwd' = cwd
        /\ itable' = [itable EXCEPT ![cur] = FreeInode]
    BY <1>10 DEF RmInode, Return
  <2>2. cur \in Ids /\ ~IsDir(cur) /\ cur # 0
    BY <1>10, <2>1, Constants DEF TreeInv, TypeInv, OpOK, Busy, Live, IsDir
  <2>3. cwd # cur /\ \A i \in Live : itable[i].parent # cur
    BY <1>10, <2>1, <2>2 DEF TreeInv, Rooted
  <2> QED BY <1>10, <2>1, <2>2, <2>3, TreeRemoved
<1>11. CASE TreeInv /\ (CommitInode)
  <2>1. pc = "commit" /\ pc' = "idle" /\ cwd' = cwd
    BY <1>11 DEF CommitInode, Return
  <2>2. /\ cur \in Ids /\ work.id = itable[cur].id /\ work.type = itable[cur].type
        /\ work.parent = itable[cur].parent /\ work.name = itable[cur].name
    BY <2>1 DEF TypeInv, TypeOK, OpOK, Busy, Live
  <2>3. \A i \in Ids : SameKeys(i)
    BY <1>11, <2>2 DEF CommitInode, SameKeys, TypeInv, TypeOK
  <2> QED BY <1>11, <2>1, <2>3, TreeKept
<1>12. CASE /\ TreeInv
            /\ \/ FreeBlock \/ HexNoMemory \/ TooLarge \/ BeginFill \/ AllocBlock
               \/ WriteData \/ AllocIndex \/ ZeroIndex \/ LinkIndex
  <2>1. itable' = itable /\ cwd' = cwd
    BY <1>12, Zenon DEF FreeBlock, HexNoMemory, TooLarge, BeginFill, AllocBlock,
                 WriteData, AllocIndex, ZeroIndex, LinkIndex, disk
  <2>2. pc # "mkfs" /\ pc' # "mkfs" /\ (pc' = "rm_free" => pc = "rm_free" /\ cur' = cur)
    BY <1>12 DEF FreeBlock, Freeing, HexNoMemory, TooLarge, BeginFill, AllocBlock,
                 WriteData, AllocIndex, ZeroIndex, LinkIndex, Return, NextBlock
  <2>3. \A i \in Ids : SameKeys(i)
    BY <2>1 DEF SameKeys
  <2>4. pc' = "rm_free" => itable'[cur'].type # 2
    BY <1>12, <2>1, <2>2 DEF TreeInv
  <2> QED BY <1>12, <2>1, <2>2, <2>3, <2>4, TreeKept
<1>13. CASE TreeInv /\ UNCHANGED vars
  BY <1>13 DEF vars, TreeInv, Rooted, IsDir, Live
<1> QED BY <1>0, <1>1, <1>2, <1>3, <1>4, <1>5, <1>6, <1>7, <1>8, <1>9, <1>10, <1>11, <1>12,
           <1>13, Steps, Zenon

\* Unless the last mkfs was typed below the root or lost power, every entry hangs below
\* the root or below an existing directory, and so does the current directory, through
\* every sequence of mkdir, cd, rm, overwrites, failed writes, formats and power losses
\* at any step of them.
THEOREM TreeIsSound == Spec => []TreeSoundUnlessAdrift
<1> DEFINE Tree == ~adrift => TreeInv
<1>1. Init => Tree /\ MkfsInv
  BY TreeInit DEF Init, MkfsInv
<1>2. Tree /\ MkfsInv /\ TypeInv /\ [Next]_vars => Tree'
  BY TreeNext
<1>3. Tree => TreeSoundUnlessAdrift
  BY DEF TreeInv, TreeSoundUnlessAdrift, TreeSound, AtRest
<1>4. MkfsInv /\ TypeInv /\ [Next]_vars => MkfsInv'
  BY MkfsNext
<1> QED BY <1>1, <1>2, <1>3, <1>4, TypeInvariant, PTL DEF Spec
-----------------------------------------------------------------------------
(* Block ownership. *)

\* The block that slot j of entry i holds.  For the entry being written or removed
\* it is the slot of the copy in memory: while the old blocks are given back only
\* the slots not reached yet count, and a fresh index block counts once it is zeroed.
R(i, j) ==
  IF Busy /\ i = cur
  THEN IF \/ Freeing /\ j < k
          \/ pc = "ind_zero" /\ NDirect <= j /\ j < MaxBlocks
       THEN 0 ELSE Ref(work, j)
  ELSE Ref(itable[i], j)

Marked == \A i \in Live, j \in RefSlots : R(i, j) # 0 => R(i, j) \in bitmap

Distinct == \A i, a \in Live, j, b \in RefSlots :
              R(i, j) # 0 /\ R(i, j) = R(a, b) => i = a /\ j = b

\* A block just allocated is marked and nobody's yet.
Pending == pc \in {"data", "ind_alloc", "ind_zero", "ind_link"} =>
             blk \in bitmap /\ \A i \in Live, j \in RefSlots : R(i, j) # blk

BlockInv == Marked /\ Distinct /\ Pending

LEMMA SlotFacts ==
  /\ RefSlots \subseteq Nat /\ MaxBlocks \in RefSlots
  /\ \A j \in Nat : j < NDirect => j \in RefSlots
  /\ \A j \in RefSlots : j < NDirect => j \in 0 .. (NDirect - 1)
  /\ \A j \in RefSlots : j >= NDirect /\ j # MaxBlocks => j - NDirect \in 0 .. (NIndirect - 1)
  BY Constants DEF RefSlots, MaxBlocks

\* A slot that keeps its block or loses it keeps the invariant.
LEMMA BlocksKept ==
  ASSUME BlockInv, bitmap \subseteq bitmap',
         \A i \in Live', j \in RefSlots :
            R(i, j)' = 0 \/ (i \in Live /\ R(i, j)' = R(i, j))
  PROVE  Marked' /\ Distinct'
<1>1. Marked'
  BY DEF BlockInv, Marked
<1>2. Distinct'
  BY DEF BlockInv, Distinct
<1> QED BY <1>1, <1>2

\* So does a slot that gets a marked block nobody holds.
LEMMA BlocksAdded ==
  ASSUME BlockInv, bitmap \subseteq bitmap', Live' = Live,
         NEW c \in Live, NEW m \in RefSlots, NEW v \in bitmap',
         \A i \in Live, j \in RefSlots : R(i, j) # v,
         R(c, m)' \in {0, v},
         \A i \in Live, j \in RefSlots :
            (i # c \/ j # m) => R(i, j)' = 0 \/ R(i, j)' = R(i, j)
  PROVE  Marked' /\ Distinct'
<1>1. Marked'
  BY DEF BlockInv, Marked
<1>2. Distinct'
  BY DEF BlockInv, Distinct
<1> QED BY <1>1, <1>2

\* An entry nobody works on keeps its blocks when its index block is not written.
LEMMA OtherEntry ==
  ASSUME NEW i \in Ids, ~(Busy /\ i = cur), ~(Busy' /\ i = cur'),
         itable'[i] = itable[i],
         itable[i].indirect # 0 => data'[itable[i].indirect] = data[itable[i].indirect]
  PROVE  \A j \in RefSlots : R(i, j)' = R(i, j)
  BY DEF R, Ref

LEMMA BlockInit == Init => BlockInv
<1> SUFFICES ASSUME Init PROVE BlockInv
  OBVIOUS
<1>1. Live = {} /\ pc = "off"
  BY DEF Init, Live, FreeInode
<1> QED BY <1>1 DEF BlockInv, Marked, Distinct, Pending
\* Commands and mkfs: nothing is being written, no block changes.
LEMMA BlocksIdle ==
  ASSUME BlockInv, TypeInv, ~Busy, ~Busy', data' = data, bitmap' = bitmap,
         \A i \in Live' : \/ i \in Live /\ itable'[i] = itable[i]
                          \/ itable'[i].direct = NoBlocks /\ itable'[i].indirect = 0
  PROVE  BlockInv'
<1>1. ASSUME NEW i \in Live', NEW j \in RefSlots
      PROVE  R(i, j)' = 0 \/ (i \in Live /\ R(i, j)' = R(i, j))
  <2>1. i \in Ids
    BY DEF Live
  <2>2. CASE i \in Live /\ itable'[i] = itable[i]
    BY <2>1, <2>2, OtherEntry
  <2>3. CASE itable'[i].direct = NoBlocks /\ itable'[i].indirect = 0
    <3>1. R(i, j)' = Ref(itable[i], j)'
      BY DEF R
    <3>2. Ref(itable[i], j)' = 0
      BY <2>3, SlotFacts DEF Ref, NoBlocks
    <3> QED BY <3>1, <3>2
  <2> QED BY <1>1, <2>2, <2>3
<1>2. Marked' /\ Distinct'
  BY <1>1, BlocksKept
<1>3. Pending'
  BY DEF Pending, Busy
<1> QED BY <1>2, <1>3 DEF BlockInv

LEMMA BlocksCommand ==
  ASSUME BlockInv, MkfsInv, TypeInv, Interruptible \subseteq {"mkfs"},
         \/ Mkfs \/ MkfsInodes \/ PowerLoss \/ Boot \/ Mount \/ Unmount \/ RawWrite
         \/ CdRoot \/ CdUp \/ \E n \in Names : CdDown(n)
         \/ \E n \in Names, type \in {1, 2} : Create(type, n)
         \/ \E n \in Names : RmDir(n)
  PROVE  BlockInv'
<1>1. ~Busy /\ ~Busy' /\ data' = data /\ bitmap' = bitmap
  <2>1. CASE PowerLoss
    <3>1. Idle \/ Running = "mkfs"
      BY <2>1 DEF PowerLoss
    <3>2. ~Busy
      BY <3>1 DEF Idle, Running, Busy
    <3> QED BY <2>1, <3>2 DEF PowerLoss, Busy, disk
  <2>2. CASE Mkfs \/ MkfsInodes \/ Boot \/ Mount \/ Unmount \/ RawWrite
    BY <2>2 DEF Mkfs, MkfsInodes, Boot, Mount, Unmount, RawWrite, Ready, Idle, Busy
  <2>3. CASE \/ CdRoot \/ CdUp \/ \E n \in Names : CdDown(n)
             \/ \E n \in Names, type \in {1, 2} : Create(type, n)
             \/ \E n \in Names : RmDir(n)
    BY <2>3 DEF CdRoot, CdUp, CdDown, Create, RmDir, Ready, Idle, Busy, disk
  <2> QED BY <2>1, <2>2, <2>3
<1>2. \A i \in Live' : \/ i \in Live /\ itable'[i] = itable[i]
                       \/ itable'[i].direct = NoBlocks /\ itable'[i].indirect = 0
  <2>1. CASE itable' = itable
    BY <2>1 DEF Live
  <2>2. CASE MkfsInodes
    BY <2>2 DEF MkfsInodes, Live, FreeInode
  <2>3. CASE \E n \in Names, type \in {1, 2} : Create(type, n)
    <3>1. PICK n \in Names, type \in {1, 2}, c \in Ids :
             itable' = [itable EXCEPT ![c] = NewInode(c, type, n)]
      BY <2>3 DEF Create
    <3>2. /\ itable'[c].direct = NoBlocks /\ itable'[c].indirect = 0
          /\ \A i \in Ids \ {c} : itable'[i] = itable[i]
      BY <3>1 DEF NewInode, FreeInode, TypeInv, TypeOK
    <3> QED BY <3>2 DEF Live
  <2>4. CASE \E n \in Names : RmDir(n)
    <3>1. PICK n \in Names, c \in Ids : itable' = [itable EXCEPT ![c] = FreeInode]
      BY <2>4 DEF RmDir
    <3>2. itable'[c].id = 0 /\ \A i \in Ids \ {c} : itable'[i] = itable[i]
      BY <3>1 DEF FreeInode, TypeInv, TypeOK
    <3> QED BY <3>2 DEF Live
  <2>5. CASE \/ Mkfs \/ PowerLoss \/ Boot \/ Mount \/ Unmount \/ RawWrite
             \/ CdRoot \/ CdUp \/ \E n \in Names : CdDown(n)
    <3>1. itable' = itable
      BY <2>5, Zenon DEF Mkfs, PowerLoss, Boot, Mount, Unmount, RawWrite, CdRoot, CdUp,
                         CdDown, disk
    <3> QED BY <2>1, <3>1
  <2> QED BY <2>2, <2>3, <2>4, <2>5
<1> QED BY <1>1, <1>2, BlocksIdle

\* rm, write and writehex begin: the copy in memory holds what the disk holds.
LEMMA BlocksBegin ==
  ASSUME BlockInv, TypeInv,
         \/ \E n \in Names : RmFile(n)
         \/ \E n \in Names, p \in Payload : Write(n, p, "wr_free") \/ Write(n, p, "hex_free")
  PROVE  BlockInv'
<1>1. /\ UNCHANGED <<itable, bitmap, data, k>> /\ pc = "idle"
      /\ pc' \in {"rm_free", "wr_free", "hex_free"} /\ cur' \in Live /\ work' = itable[cur']
  BY DEF RmFile, Write, Ready, Idle, First, Named, FilesNamed, Children, disk
<1>2. k' = 0 /\ ~Busy /\ Live' = Live
  BY <1>1 DEF TypeInv, OpOK, AtRest, NoLocals, Busy, Live
<1>3. ASSUME NEW i \in Live, NEW j \in RefSlots
      PROVE  R(i, j)' = R(i, j)
  <2>1. i \in Ids
    BY DEF Live
  <2>2. CASE i # cur'
    BY <1>1, <1>2, <2>1, <2>2, OtherEntry
  <2>3. CASE i = cur'
    <3>1. R(i, j) = Ref(itable[i], j)
      BY <1>2 DEF R
    <3>2. R(i, j)' = Ref(work, j)'
      BY <1>1, <1>2, <2>3, SlotFacts DEF R
    <3>3. Ref(work, j)' = Ref(itable[i], j)
      BY <1>1, <2>3 DEF Ref
    <3> QED BY <3>1, <3>2, <3>3
  <2> QED BY <2>2, <2>3
<1>4. Marked' /\ Distinct'
  BY <1>1, <1>2, <1>3, BlocksKept
<1> QED BY <1>1, <1>4 DEF BlockInv, Pending

\* free_block takes the mark of a block only its slot holds.
LEMMA BlocksFree ==
  ASSUME BlockInv, TypeInv, FreeBlock
  PROVE  BlockInv'
<1>1. /\ UNCHANGED <<itable, data, pc, cur, work, blk>> /\ Freeing /\ k' = k + 1
      /\ k \in RefSlots /\ bitmap' = bitmap \ {Ref(work, k)}
      /\ Live' = Live /\ cur \in Live /\ Busy
  <2>1. /\ UNCHANGED <<itable, data, pc, cur, work, blk>> /\ Freeing /\ k' = k + 1
        /\ bitmap' = bitmap \ {Ref(work, k)} /\ k \in Nat /\ k <= MaxBlocks
    BY DEF FreeBlock, TypeInv, TypeOK
  <2>2. Busy /\ cur \in Live
    BY <2>1 DEF Freeing, Busy, TypeInv, OpOK
  <2>3. k \in RefSlots
    BY <2>1, Constants DEF RefSlots
  <2> QED BY <2>1, <2>2, <2>3 DEF Live
<1>2. PICK c \in Live, m \in RefSlots : c = cur /\ m = k
  BY <1>1
<1>3. R(c, m) = Ref(work, k) /\ R(c, m)' = 0
  BY <1>1, <1>2, SlotFacts DEF R, Freeing, Busy
<1>4. ASSUME NEW i \in Live, NEW j \in RefSlots, i # c \/ j # m
      PROVE  R(i, j)' = R(i, j)
  <2>1. CASE i # c
    BY <1>1, <1>2, <2>1 DEF R, Ref
  <2>2. CASE i = c
    <3>1. j \in Nat /\ m \in Nat /\ j # m
      BY <1>4, <2>2, SlotFacts
    <3>2. (j < m + 1) <=> (j < m)
      BY <3>1
    <3>3. Ref(work, j)' = Ref(work, j) /\ Freeing' /\ Busy' /\ pc' # "ind_zero"
      BY <1>1 DEF Ref, Freeing, Busy
    <3> QED BY <1>1, <1>2, <2>2, <3>2, <3>3 DEF R, Freeing
  <2> QED BY <2>1, <2>2
<1>5. Distinct'
  <2>1. \A i \in Live, j \in RefSlots : R(i, j)' = 0 \/ R(i, j)' = R(i, j)
    BY <1>3, <1>4
  <2> QED BY <1>1, <2>1 DEF BlockInv, Distinct
<1>6. Marked'
  <2> SUFFICES ASSUME NEW i \in Live, NEW j \in RefSlots, R(i, j)' # 0
               PROVE  R(i, j)' \in bitmap'
    BY <1>1 DEF Marked
  <2>1. (i # c \/ j # m) /\ R(i, j)' = R(i, j)
    BY <1>3, <1>4
  <2>2. R(i, j) \in bitmap /\ R(i, j) # R(c, m)
    BY <2>1 DEF BlockInv, Marked, Distinct
  <2> QED BY <1>1, <1>3, <2>1, <2>2
<1> QED BY <1>1, <1>5, <1>6 DEF BlockInv, Pending, Freeing
\* The inode is cleared, rewritten, or its copy forgets the old blocks.
LEMMA BlocksInode ==
  ASSUME BlockInv, TypeInv, RmInode \/ CommitInode \/ BeginFill
  PROVE  BlockInv'
<1>1. bitmap' = bitmap /\ data' = data /\ Busy /\ cur \in Live
  BY DEF RmInode, CommitInode, BeginFill, disk, Busy, TypeInv, OpOK
<1>2. pc' \in {"idle", "commit", "alloc"}
  BY DEF RmInode, CommitInode, BeginFill, Return
<1>3. /\ cur' = cur \/ ~Busy'
      /\ \A i \in Ids \ {cur} : itable'[i] = itable[i]
  BY DEF RmInode, CommitInode, BeginFill, Return, Busy, disk, TypeInv, TypeOK
<1>4. ASSUME NEW i \in Live', NEW j \in RefSlots
      PROVE  R(i, j)' = 0 \/ (i \in Live /\ R(i, j)' = R(i, j))
  <2>1. i \in Ids
    BY DEF Live
  <2>2. CASE i # cur
    <3>1. i \in Live
      BY <1>3, <2>1, <2>2 DEF Live
    <3> QED BY <1>1, <1>3, <2>1, <2>2, <3>1, OtherEntry
  <2>3. CASE i = cur /\ RmInode
    BY <1>1, <2>1, <2>3 DEF RmInode, Live, FreeInode, TypeInv, TypeOK
  <2>4. CASE i = cur /\ CommitInode
    <3>1. R(i, j) = Ref(work, j)
      BY <1>1, <2>4 DEF R, CommitInode, Freeing
    <3>2. ~Busy' /\ itable'[i] = work
      BY <1>1, <2>1, <2>4 DEF CommitInode, Return, Busy, TypeInv, TypeOK
    <3>3. R(i, j)' = Ref(work, j)
      BY <1>1, <3>2 DEF R, Ref
    <3> QED BY <1>1, <2>4, <3>1, <3>3
  <2>5. CASE i = cur /\ BeginFill
    <3>1. Busy' /\ ~Freeing' /\ pc' # "ind_zero" /\ cur' = cur
      BY <2>5 DEF BeginFill, Busy, Freeing
    <3>2. R(i, j)' = Ref(work, j)'
      BY <2>5, <3>1 DEF R
    <3>3. work \in Inode
      BY DEF TypeInv, TypeOK
    <3>4. work'.direct = NoBlocks /\ work'.indirect = 0
      BY <2>5, <3>3 DEF BeginFill, Inode
    <3>5. Ref(work, j)' = 0
      BY <3>4, SlotFacts DEF Ref, NoBlocks
    <3> QED BY <3>2, <3>5
  <2> QED BY <2>2, <2>3, <2>4, <2>5
<1>5. Marked' /\ Distinct'
  BY <1>1, <1>4, BlocksKept
<1> QED BY <1>2, <1>5 DEF BlockInv, Pending

\* allocate_free_block returns a block that nobody holds.
LEMMA FreshBlock ==
  ASSUME BlockInv, TypeInv, NEW b \in Blocks, First(b, FreeBlocks)
  PROVE  /\ b \notin bitmap /\ b # 0
         /\ \A i \in Live, j \in RefSlots : R(i, j) # b
<1>1. b \notin bitmap /\ b # 0
  BY Constants DEF First, FreeBlocks
<1> QED BY <1>1 DEF BlockInv, Marked

LEMMA BlocksAlloc ==
  ASSUME BlockInv, TypeInv, AllocBlock
  PROVE  BlockInv'
<1>1. /\ UNCHANGED <<itable, data, cur, work, k>> /\ pc = "alloc" /\ pc' \in {"data", "commit"}
      /\ Live' = Live /\ bitmap \subseteq bitmap'
  BY DEF AllocBlock, Live
<1>2. \A i \in Live, j \in RefSlots : R(i, j)' = R(i, j)
  BY <1>1 DEF R, Ref, Busy, Freeing
<1>3. Marked' /\ Distinct'
  BY <1>1, <1>2, BlocksKept
<1>4. ASSUME pc' = "data"
      PROVE  blk' \in bitmap' /\ \A i \in Live, j \in RefSlots : R(i, j) # blk'
  <2>1. PICK b \in Blocks : First(b, FreeBlocks) /\ bitmap' = bitmap \cup {b} /\ blk' = b
    BY <1>4 DEF AllocBlock
  <2> QED BY <2>1, FreshBlock
<1>5. Pending'
  BY <1>1, <1>2, <1>4 DEF Pending
<1> QED BY <1>3, <1>5 DEF BlockInv

\* The copy of the inode gets its index block, whose contents do not count yet.
LEMMA BlocksIndex ==
  ASSUME BlockInv, TypeInv, AllocIndex
  PROVE  BlockInv'
<1>1. /\ UNCHANGED <<itable, data, cur, k, blk>> /\ pc = "ind_alloc" /\ Live' = Live
      /\ cur \in Live /\ work \in Inode /\ blk \in bitmap /\ blk # 0
      /\ \A i \in Live, j \in RefSlots : R(i, j) # blk
  <2>1. UNCHANGED <<itable, data, cur, k, blk>> /\ pc = "ind_alloc" /\ Live' = Live
    BY DEF AllocIndex, Live
  <2>2. cur \in Live /\ work \in Inode /\ blk \in Blocks
    BY <2>1 DEF TypeInv, TypeOK, OpOK, Busy, Filling
  <2>3. blk # 0
    BY <2>2, Constants
  <2> QED BY <2>1, <2>2, <2>3 DEF BlockInv, Pending
<1>2. CASE FreeBlocks = {} /\ UNCHANGED <<bitmap, work>> /\ pc' = "commit"
  <2>1. \A i \in Live, j \in RefSlots : R(i, j)' = R(i, j)
    BY <1>1, <1>2 DEF R, Ref, Busy, Freeing
  <2>2. Marked' /\ Distinct'
    BY <1>1, <1>2, <2>1, BlocksKept
  <2> QED BY <1>2, <2>2 DEF BlockInv, Pending
<1>3. CASE \E b \in Blocks : /\ First(b, FreeBlocks) /\ bitmap' = bitmap \cup {b}
                             /\ work' = [work EXCEPT !.indirect = b] /\ pc' = "ind_zero"
  <2>1. PICK b \in Blocks : /\ First(b, FreeBlocks) /\ bitmap' = bitmap \cup {b}
                            /\ work' = [work EXCEPT !.indirect = b] /\ pc' = "ind_zero"
    BY <1>3
  <2>2. b \notin bitmap /\ \A i \in Live, j \in RefSlots : R(i, j) # b
    BY <2>1, FreshBlock
  <2>3. work'.direct = work.direct /\ work'.indirect = b
    BY <1>1, <2>1 DEF Inode
  <2>4. PICK c \in Live : c = cur
    BY <1>1
  <2>5. Busy /\ Busy' /\ ~Freeing /\ ~Freeing' /\ pc # "ind_zero" /\ pc' = "ind_zero" /\ cur' = c
    BY <1>1, <2>1, <2>4 DEF Busy, Freeing
  <2>6. R(c, MaxBlocks)' \in {0, b}
    BY <2>3, <2>4, <2>5, Constants, SlotFacts DEF R, Ref, MaxBlocks
  <2>7. ASSUME NEW i \in Live, NEW j \in RefSlots, i # c \/ j # MaxBlocks
        PROVE  R(i, j)' = 0 \/ R(i, j)' = R(i, j)
    <3>1. CASE i # c
      BY <1>1, <2>4, <2>5, <3>1 DEF R, Ref
    <3>2. CASE i = c /\ j < NDirect
      BY <2>3, <2>4, <2>5, <3>2, SlotFacts DEF R, Ref
    <3>3. CASE i = c /\ NDirect <= j /\ j < MaxBlocks
      BY <2>4, <2>5, <3>3 DEF R
    <3>4. j < NDirect \/ (NDirect <= j /\ j < MaxBlocks) \/ j = MaxBlocks
      BY Constants DEF RefSlots
    <3> QED BY <2>7, <3>1, <3>2, <3>3, <3>4
  <2>8. b \in bitmap' /\ bitmap \subseteq bitmap' /\ MaxBlocks \in RefSlots
    BY <2>1, SlotFacts
  <2>9. Marked' /\ Distinct'
    BY <1>1, <2>2, <2>6, <2>7, <2>8, BlocksAdded
  <2>10. \A i \in Live, j \in RefSlots : R(i, j)' # blk
    BY <1>1, <2>2, <2>6, <2>7
  <2>11. Pending'
    BY <1>1, <2>8, <2>10 DEF Pending
  <2> QED BY <2>9, <2>11 DEF BlockInv
<1> QED BY <1>2, <1>3 DEF AllocIndex
\* The new block is written; nobody reads it as an index block.
LEMMA BlocksData ==
  ASSUME BlockInv, TypeInv, WriteData
  PROVE  BlockInv'
<1>1. /\ UNCHANGED <<itable, bitmap, cur>> /\ pc = "data" /\ Live' = Live
      /\ cur \in Live /\ work \in Inode /\ blk \in bitmap /\ k \in Nat
      /\ \A i \in Live, j \in RefSlots : R(i, j) # blk
  <2>1. UNCHANGED <<itable, bitmap, cur>> /\ pc = "data" /\ Live' = Live
    BY DEF WriteData, Live
  <2>2. cur \in Live /\ work \in Inode /\ k \in Nat
    BY <2>1 DEF TypeInv, TypeOK, OpOK, Busy
  <2> QED BY <2>1, <2>2 DEF BlockInv, Pending
<1>2. PICK c \in Live : c = cur
  BY <1>1
<1>3. Busy /\ ~Freeing /\ pc # "ind_zero"
  BY <1>1 DEF Busy, Freeing
<1>4. pc' \in {"alloc", "commit", "ind_alloc", "ind_link"}
  BY DEF WriteData, NextBlock
<1>5. Busy' /\ ~Freeing' /\ pc' # "ind_zero" /\ cur' = c
  BY <1>1, <1>2, <1>4 DEF Busy, Freeing
<1>6. \A b \in Blocks : b # blk => data'[b] = data[b]
  BY DEF WriteData, TypeInv, TypeOK
<1>7. R(c, MaxBlocks) = work.indirect /\ work.indirect # blk
  BY <1>1, <1>2, <1>3, Constants, SlotFacts DEF R, Ref, MaxBlocks
<1>8. ASSUME NEW i \in Live, i # c, NEW j \in RefSlots
      PROVE  R(i, j)' = R(i, j)
  <2>1. R(i, MaxBlocks) = itable[i].indirect /\ itable[i].indirect # blk
    BY <1>1, <1>2, <1>8, Constants, SlotFacts DEF R, Ref, MaxBlocks
  <2>2. i \in Ids /\ itable[i].indirect \in Blocks \cup {0}
    BY DEF Live, TypeInv, TypeOK, Inode
  <2> QED BY <1>1, <1>2, <1>5, <1>6, <1>8, <2>1, <2>2, OtherEntry
<1>9. CASE k < NDirect
  <2>1. PICK m \in RefSlots : m = k
    BY <1>1, <1>9, SlotFacts
  <2>2. work'.direct = [work.direct EXCEPT ![k] = blk] /\ work'.indirect = work.indirect
    <3> DEFINE d == [work.direct EXCEPT ![k] = blk]
               s == work.size + ChunkSize(pay.len, k)
    <3>1. work' = [work EXCEPT !.size = s, !.direct = d]
      BY <1>1, <1>9, Constants DEF WriteData
    <3> HIDE DEF d, s
    <3>2. work'.direct = d /\ work'.indirect = work.indirect
      BY <1>1, <3>1 DEF Inode
    <3> QED BY <3>2 DEF d
  <2>3. pc' \in {"alloc", "commit"}
    BY <1>1, <1>9, Constants DEF WriteData, NextBlock
  <2>4. R(c, m)' \in {0, blk}
    <3>1. R(c, m)' = work'.direct[m]
      BY <1>2, <1>5, <1>9, <2>1 DEF R, Ref
    <3>2. work'.direct[m] = blk
      BY <1>1, <1>9, <2>1, <2>2, SlotFacts DEF Inode
    <3> QED BY <3>1, <3>2
  <2>5. ASSUME NEW j \in RefSlots, j # m
        PROVE  R(c, j)' = R(c, j)
    <3>1. R(c, j) = Ref(work, j) /\ R(c, j)' = Ref(work, j)'
      BY <1>2, <1>3, <1>5 DEF R
    <3>2. CASE j < NDirect
      BY <1>1, <1>9, <2>1, <2>2, <2>5, <3>1, <3>2, SlotFacts DEF Ref, Inode
    <3>3. CASE ~(j < NDirect)
      BY <1>1, <1>6, <1>7, <2>2, <3>1, <3>3 DEF Ref, Inode
    <3> QED BY <3>2, <3>3
  <2>6. \A i \in Live, j \in RefSlots :
           (i # c \/ j # m) => R(i, j)' = 0 \/ R(i, j)' = R(i, j)
    BY <1>8, <2>5
  <2>7. PICK v \in bitmap' : v = blk
    BY <1>1
  <2>8. Marked' /\ Distinct'
    BY <1>1, <2>4, <2>6, <2>7, BlocksAdded
  <2> QED BY <2>3, <2>8 DEF BlockInv, Pending
<1>10. CASE k >= NDirect
  <2>1. work'.direct = work.direct /\ work'.indirect = work.indirect /\ blk' = blk
    BY <1>1, <1>10, Constants DEF WriteData, Inode
  <2>2. ASSUME NEW j \in RefSlots
        PROVE  R(c, j)' = R(c, j)
    <3>1. R(c, j) = Ref(work, j) /\ R(c, j)' = Ref(work, j)'
      BY <1>2, <1>3, <1>5 DEF R
    <3> QED BY <1>1, <1>6, <1>7, <2>1, <3>1 DEF Ref, Inode
  <2>3. \A i \in Live, j \in RefSlots : R(i, j)' = R(i, j)
    BY <1>8, <2>2
  <2>4. Marked' /\ Distinct'
    BY <1>1, <2>3, BlocksKept
  <2>5. Pending'
    BY <1>1, <2>1, <2>3 DEF Pending
  <2> QED BY <2>4, <2>5 DEF BlockInv
<1> QED BY <1>1, <1>9, <1>10, Constants

\* Facts about the two steps that write the index block: it is the new file's own.
LEMMA IndexBlock ==
  ASSUME BlockInv, TypeInv, ZeroIndex \/ LinkIndex
  PROVE  /\ UNCHANGED <<itable, bitmap, cur, work>> /\ Live' = Live
         /\ pc \in {"ind_zero", "ind_link"} /\ pc' \in {"ind_link", "alloc", "commit"}
         /\ cur \in Live /\ work \in Inode /\ work.indirect \in Blocks /\ work.indirect # 0
         /\ R(cur, MaxBlocks) = work.indirect
         /\ blk \in bitmap /\ \A i \in Live, j \in RefSlots : R(i, j) # blk
         /\ \A b \in Blocks : b # work.indirect => data'[b] = data[b]
         /\ \A i \in Live, j \in RefSlots : i # cur => R(i, j)' = R(i, j)
<1>1. /\ UNCHANGED <<itable, bitmap, cur, work>> /\ Live' = Live
      /\ pc \in {"ind_zero", "ind_link"} /\ pc' \in {"ind_link", "alloc", "commit"}
  BY DEF ZeroIndex, LinkIndex, NextBlock, Live
<1>2. cur \in Live /\ work \in Inode /\ work.indirect \in Blocks /\ work.indirect # 0
  <2>1. cur \in Live /\ work \in Inode /\ work.indirect \in Blocks
    BY <1>1 DEF TypeInv, TypeOK, OpOK, Busy
  <2> QED BY <2>1, Constants
<1>3. R(cur, MaxBlocks) = work.indirect
  BY <1>1, Constants, SlotFacts DEF R, Ref, Busy, Freeing, MaxBlocks
<1>4. blk \in bitmap /\ \A i \in Live, j \in RefSlots : R(i, j) # blk
  BY <1>1 DEF BlockInv, Pending
<1>5. \A b \in Blocks : b # work.indirect => data'[b] = data[b]
  BY DEF ZeroIndex, LinkIndex, TypeInv, TypeOK
<1>6. ASSUME NEW i \in Live, i # cur, NEW j \in RefSlots
      PROVE  R(i, j)' = R(i, j)
  <2>1. R(i, MaxBlocks) = itable[i].indirect
    BY <1>6, Constants, SlotFacts DEF R, Ref, MaxBlocks
  <2>2. itable[i].indirect # work.indirect
    BY <1>2, <1>3, <1>6, <2>1, SlotFacts DEF BlockInv, Distinct
  <2>3. i \in Ids /\ itable[i].indirect \in Blocks \cup {0}
    BY DEF Live, TypeInv, TypeOK, Inode
  <2> QED BY <1>1, <1>5, <1>6, <2>2, <2>3, OtherEntry
<1> QED BY <1>1, <1>2, <1>3, <1>4, <1>5, <1>6

LEMMA BlocksZero ==
  ASSUME BlockInv, TypeInv, ZeroIndex
  PROVE  BlockInv'
<1>1. /\ pc = "ind_zero" /\ pc' = "ind_link" /\ blk' = blk /\ cur' = cur /\ work' = work
      /\ data'[work.indirect].ptrs = NoPtrs
  BY IndexBlock DEF ZeroIndex, TypeInv, TypeOK, ZeroSector
<1>2. PICK c \in Live : c = cur
  BY IndexBlock
<1>3. ASSUME NEW j \in RefSlots
      PROVE  R(c, j)' = R(c, j)
  <2>1. R(c, j)' = Ref(work, j)'
    BY <1>1, <1>2 DEF R, Busy, Freeing
  <2>2. CASE j < NDirect \/ j = MaxBlocks
    BY <1>1, <1>2, <2>1, <2>2, Constants, SlotFacts DEF R, Ref, Busy, Freeing, MaxBlocks
  <2>3. CASE NDirect <= j /\ j < MaxBlocks
    <3>1. R(c, j) = 0
      BY <1>1, <1>2, <2>3 DEF R, Busy
    <3>2. j - NDirect \in 0 .. (NIndirect - 1) /\ ~(j < NDirect) /\ j # MaxBlocks
      BY <2>3, Constants, SlotFacts
    <3>3. Ref(work, j)' = 0
      BY <1>1, <3>2, IndexBlock DEF Ref, NoPtrs
    <3> QED BY <2>1, <3>1, <3>3
  <2>4. j < NDirect \/ (NDirect <= j /\ j < MaxBlocks) \/ j = MaxBlocks
    BY Constants DEF RefSlots
  <2> QED BY <2>2, <2>3, <2>4
<1>4. \A i \in Live, j \in RefSlots : R(i, j)' = R(i, j)
  BY <1>2, <1>3, IndexBlock
<1>5. Marked' /\ Distinct'
  BY <1>4, IndexBlock, BlocksKept
<1>6. Pending'
  BY <1>1, <1>4, IndexBlock DEF Pending
<1> QED BY <1>5, <1>6 DEF BlockInv

LEMMA BlocksLink ==
  ASSUME BlockInv, TypeInv, LinkIndex
  PROVE  BlockInv'
<1>1. /\ pc = "ind_link" /\ pc' \in {"alloc", "commit"} /\ cur' = cur /\ work' = work
      /\ k \in Nat /\ NDirect <= k /\ k < MaxBlocks
  <2>1. /\ pc = "ind_link" /\ pc' \in {"alloc", "commit"} /\ cur' = cur /\ work' = work
    BY DEF LinkIndex, NextBlock
  <2>2. /\ k \in Nat /\ NDirect <= k /\ k < BlocksNeeded(pay.len)
        /\ BlocksNeeded(pay.len) <= MaxBlocks /\ pay \in Payload
    BY <2>1, Constants DEF TypeInv, TypeOK, OpOK, Filling, Writing
  <2>3. BlocksNeeded(pay.len) \in Nat
    BY <2>2, ChunkBounds, Constants DEF Payload
  <2> QED BY <2>1, <2>2, <2>3, Constants
<1>2. PICK c \in Live, m \in RefSlots, v \in bitmap' : c = cur /\ m = k /\ v = blk
  <2>1. k \in RefSlots
    BY <1>1, Constants DEF RefSlots
  <2> QED BY <2>1, IndexBlock
<1>3. k - NDirect \in 0 .. (NIndirect - 1)
  BY <1>1, <1>2, Constants, SlotFacts
<1>4. data'[work.indirect].ptrs = [data[work.indirect].ptrs EXCEPT ![k - NDirect] = blk]
  <2>1. data[work.indirect] \in Sector /\ data \in [Blocks -> Sector] /\ work.indirect \in Blocks
    BY IndexBlock DEF TypeInv, TypeOK
  <2> DEFINE f == [data[work.indirect].ptrs EXCEPT ![k - NDirect] = blk]
  <2>2. data'[work.indirect] = [data[work.indirect] EXCEPT !.ptrs = f]
    BY <2>1 DEF LinkIndex
  <2> HIDE DEF f
  <2>3. data'[work.indirect].ptrs = f
    BY <2>1, <2>2 DEF Sector
  <2> QED BY <2>3 DEF f
<1>5. ASSUME NEW j \in RefSlots
      PROVE  R(c, j) = Ref(work, j) /\ R(c, j)' = Ref(work, j)'
  BY <1>1, <1>2 DEF R, Busy, Freeing
<1>6. R(c, m)' \in {0, v}
  <2>1. ~(m < NDirect) /\ m # MaxBlocks
    BY <1>1, <1>2, Constants
  <2>2. Ref(work, m)' = data'[work.indirect].ptrs[m - NDirect]
    BY <1>1, <2>1, IndexBlock DEF Ref
  <2>3. data[work.indirect].ptrs \in [0 .. (NIndirect - 1) -> Blocks \cup {0}]
    BY IndexBlock DEF TypeInv, TypeOK, Sector
  <2>4. data'[work.indirect].ptrs[m - NDirect] = blk
    BY <1>2, <1>3, <1>4, <2>3
  <2> QED BY <1>2, <1>5, <2>2, <2>4
<1>7. ASSUME NEW j \in RefSlots, j # m
      PROVE  R(c, j)' = R(c, j)
  <2>1. CASE j < NDirect \/ j = MaxBlocks
    BY <1>1, <1>5, <2>1, Constants DEF Ref
  <2>2. CASE ~(j < NDirect) /\ j # MaxBlocks
    <3>1. j - NDirect \in 0 .. (NIndirect - 1) /\ j - NDirect # k - NDirect
      BY <1>1, <1>2, <1>7, <2>2, Constants, SlotFacts
    <3>2. data[work.indirect].ptrs \in [0 .. (NIndirect - 1) -> Blocks \cup {0}]
      BY IndexBlock DEF TypeInv, TypeOK, Sector
    <3>3. data'[work.indirect].ptrs[j - NDirect] = data[work.indirect].ptrs[j - NDirect]
      BY <1>3, <1>4, <3>1, <3>2
    <3> QED BY <1>1, <1>5, <2>2, <3>3 DEF Ref
  <2> QED BY <2>1, <2>2
<1>8. Marked' /\ Distinct'
  <2>1. \A i \in Live, j \in RefSlots :
           (i # c \/ j # m) => R(i, j)' = 0 \/ R(i, j)' = R(i, j)
    BY <1>2, <1>7, IndexBlock
  <2>2. \A i \in Live, j \in RefSlots : R(i, j) # v
    BY <1>2, IndexBlock
  <2> QED BY <1>6, <2>1, <2>2, IndexBlock, BlocksAdded
<1> QED BY <1>1, <1>8 DEF BlockInv, Pending

\* With enough memory and payloads that fit no write stops after it has given the old
\* blocks back.
LEMMA NothingFails ==
  ASSUME NoMemory = FALSE, \A n \in PayloadLens : BlocksNeeded(n) <= MaxBlocks, TypeInv
  PROVE  ~HexNoMemory /\ ~TooLarge
<1>1. ~HexNoMemory
  BY DEF HexNoMemory
<1>2. ASSUME TooLarge PROVE FALSE
  <2>1. pay \in Payload
    BY <1>2 DEF TooLarge, TypeInv, OpOK, Writing
  <2>2. pay.len \in PayloadLens
    BY <2>1 DEF Payload
  <2>3. BlocksNeeded(pay.len) <= MaxBlocks /\ BlocksNeeded(pay.len) > MaxBlocks
    BY <1>2, <2>2 DEF TooLarge
  <2>4. BlocksNeeded(pay.len) \in Nat
    BY <2>2, ChunkBounds, Constants
  <2> QED BY <2>3, <2>4, Constants
<1> QED BY <1>1, <1>2

LEMMA BlockInvariant ==
  ASSUME NoMemory = FALSE, Interruptible \subseteq {"mkfs"},
         \A n \in PayloadLens : BlocksNeeded(n) <= MaxBlocks
  PROVE  Spec => []BlockInv
<1>1. Init => BlockInv /\ MkfsInv
  BY BlockInit DEF Init, MkfsInv
<1>2. ASSUME BlockInv, MkfsInv, TypeInv, [Next]_vars PROVE BlockInv'
  <2>1. CASE MkfsBitmap
    BY <1>2, <2>1, MkfsDone DEF BlockInv, Marked, Distinct, Pending, MkfsBitmap, Return
  <2>2. ~HexNoMemory /\ ~TooLarge
    BY <1>2, NothingFails
  <2>3. CASE UNCHANGED vars
    BY <1>2, <2>3 DEF vars, BlockInv, Marked, Distinct, Pending, R, Ref, Busy, Freeing, Live
  <2> QED BY <1>2, <2>1, <2>2, <2>3, Steps, BlocksCommand, BlocksBegin, BlocksFree,
             BlocksInode, BlocksAlloc, BlocksIndex, BlocksData, BlocksZero, BlocksLink, Zenon
<1> QED BY <1>1, <1>2, MkfsNext, TypeInvariant, PTL DEF Spec

\* With files no larger than the inode can hold, enough heap for writehex and no
\* power loss during rm or write (a power loss at any other moment, mkfs included,
\* is allowed), no block ever belongs to two files or to a file and the free list.
THEOREM BlocksAreExclusive ==
  ASSUME NoMemory = FALSE, Interruptible \subseteq {"mkfs"},
         \A n \in PayloadLens : BlocksNeeded(n) <= MaxBlocks
  PROVE  Spec => []BlocksExclusive
<1>1. BlockInv => BlocksExclusive
  <2> SUFFICES ASSUME BlockInv, AtRest PROVE BlocksExclusive
    BY DEF BlocksExclusive
  <2>1. \A i \in Live, j \in RefSlots : R(i, j) = Ref(itable[i], j)
    BY DEF R, AtRest, Busy
  <2>2. ASSUME NEW o \in Owned
        PROVE  /\ o[1] \in Live /\ o[2] \in RefSlots /\ o = <<o[1], o[2]>>
               /\ BlockOf(o) = R(o[1], o[2]) /\ BlockOf(o) # 0
    BY <2>1 DEF Owned, BlockOf
  <2>3. \A o \in Owned : BlockOf(o) \in bitmap
    BY <2>2 DEF BlockInv, Marked
  <2>4. ASSUME NEW o \in Owned, NEW p \in Owned, BlockOf(p) = BlockOf(o)
        PROVE  p = o
    <3>1. o[1] = p[1] /\ o[2] = p[2]
      BY <2>2, <2>4 DEF BlockInv, Distinct
    <3> QED BY <2>2, <3>1
  <2> QED BY <2>3, <2>4 DEF BlocksExclusive
<1> QED BY <1>1, BlockInvariant, PTL
-----------------------------------------------------------------------------
(* The walk of pwd. *)

Above(i) == IF i \in Live THEN itable[i].parent ELSE 0

\* The walk starts at the current directory and goes up one entry at a time.  (The
\* recursive definition is one of a function that exists: it can be built step by step.)
LEMMA WalkSteps ==
  ASSUME TypeInv
  PROVE  /\ PwdWalk \in [0 .. NInodes -> 0 .. NInodes]
         /\ PwdWalk[0] = cwd
         /\ \A n \in 0 .. (NInodes - 1) : PwdWalk[n + 1] = Above(PwdWalk[n])
<1> DEFINE N == NInodes
           Walks(f, m) == /\ f[0] = cwd
                          /\ \A n \in 0 .. (m - 1) : f[n + 1] = Above(f[n])
           T == {m \in 0 .. N : \E f \in [0 .. m -> 0 .. N] : Walks(f, m)}
           Body(f) == [n \in 0 .. N |-> IF n = 0 THEN cwd
                                        ELSE IF f[n - 1] \in Live THEN itable[f[n - 1]].parent
                                        ELSE 0]
<1>1. N \in Nat /\ cwd \in 0 .. N /\ \A i \in 0 .. N : Above(i) \in 0 .. N
  <2>1. N \in Nat /\ cwd \in 0 .. N
    BY Constants DEF TypeInv, TypeOK
  <2>2. \A i \in Live : itable[i].parent \in 0 .. N
    BY DEF Live, TypeInv, TypeOK, Inode
  <2> QED BY <2>1, <2>2 DEF Above
<1>2. 0 \in T
  <2> DEFINE f == [n \in 0 .. 0 |-> cwd]
  <2>1. f \in [0 .. 0 -> 0 .. N] /\ f[0] = cwd
    BY <1>1
  <2>2. Walks(f, 0) /\ 0 \in 0 .. N
    BY <1>1, <2>1
  <2> HIDE DEF f, Walks
  <2> QED BY <2>1, <2>2
<1>3. ASSUME NEW m \in 0 .. (N - 1), m \in T
      PROVE  m + 1 \in T
  <2>1. PICK f \in [0 .. m -> 0 .. N] : Walks(f, m)
    BY <1>3
  <2> DEFINE g == [n \in 0 .. (m + 1) |-> IF n = m + 1 THEN Above(f[m]) ELSE f[n]]
  <2>2. m \in Nat /\ m + 1 \in 0 .. N /\ m \in 0 .. m
    BY <1>1
  <2>3. g \in [0 .. (m + 1) -> 0 .. N]
    <3>1. ASSUME NEW n \in 0 .. (m + 1) PROVE g[n] \in 0 .. N
      <4>1. n = m + 1 \/ n \in 0 .. m
        BY <2>2
      <4>2. f[m] \in 0 .. N
        BY <2>1, <2>2
      <4> QED BY <1>1, <2>1, <4>1, <4>2
    <3> QED BY <3>1
  <2>4. Walks(g, m + 1)
    <3>1. g[0] = cwd
      BY <2>1, <2>2
    <3>2. ASSUME NEW n \in 0 .. ((m + 1) - 1) PROVE g[n + 1] = Above(g[n])
      <4>1. g[n] = f[n] /\ n \in 0 .. m /\ n + 1 \in 0 .. (m + 1)
        BY <2>2
      <4>2. CASE n = m
        BY <4>1, <4>2
      <4>3. CASE n # m
        <5>1. n \in 0 .. (m - 1) /\ n + 1 # m + 1
          BY <2>2, <4>1, <4>3
        <5> QED BY <2>1, <4>1, <5>1
      <4> QED BY <4>2, <4>3
    <3> QED BY <3>1, <3>2
  <2> HIDE DEF g
  <2> QED BY <2>2, <2>3, <2>4
<1>4. N \in T
  <2> HIDE DEF T
  <2>1. \A n \in 0 .. N : n \in T
    BY <1>1, <1>2, <1>3, Climb
  <2> QED BY <1>1, <2>1
<1>5. PICK f \in [0 .. N -> 0 .. N] : Walks(f, N)
  BY <1>4
<1>6. f = Body(f)
  <2>1. ASSUME NEW n \in 0 .. N PROVE f[n] = Body(f)[n]
    <3>1. CASE n = 0
      BY <1>5, <3>1
    <3>2. CASE n # 0
      <4>1. n - 1 \in 0 .. (N - 1) /\ (n - 1) + 1 = n
        BY <1>1, <3>2
      <4>2. f[n] = Above(f[n - 1])
        BY <1>5, <4>1
      <4> QED BY <3>2, <4>2 DEF Above
    <3> QED BY <3>1, <3>2
  <2> QED BY <1>5, <2>1
<1>7. PwdWalk = Body(PwdWalk)
  <2>1. PwdWalk = CHOOSE up : up = Body(up)
    BY DEF PwdWalk
  <2> HIDE DEF Body
  <2> QED BY <1>6, <2>1
<1>8. PwdWalk[0] = cwd
  BY <1>1, <1>7
<1>9. \A n \in 0 .. (N - 1) : PwdWalk[n + 1] = Above(PwdWalk[n])
  <2> SUFFICES ASSUME NEW n \in 0 .. (N - 1) PROVE PwdWalk[n + 1] = Above(PwdWalk[n])
    OBVIOUS
  <2>1. n + 1 \in 0 .. N /\ n + 1 # 0 /\ (n + 1) - 1 = n
    BY <1>1
  <2> QED BY <1>7, <2>1 DEF Above
<1>10. \A n \in 0 .. N : PwdWalk[n] \in 0 .. N
  <2> DEFINE S == {n \in 0 .. N : PwdWalk[n] \in 0 .. N}
  <2>1. 0 \in S
    <3>1. 0 \in 0 .. N
      BY <1>1
    <3> QED BY <1>1, <1>8, <3>1, Zenon
  <2>2. ASSUME NEW n \in 0 .. (N - 1), n \in S
        PROVE  n + 1 \in S
    <3>1. n + 1 \in 0 .. N
      BY <1>1
    <3>2. PwdWalk[n + 1] = Above(PwdWalk[n]) /\ PwdWalk[n] \in 0 .. N
      BY <1>9, <2>2
    <3>3. PwdWalk[n + 1] \in 0 .. N
      BY <1>1, <3>2, Zenon
    <3> QED BY <3>1, <3>3
  <2> HIDE DEF S
  <2>3. \A n \in 0 .. N : n \in S
    BY <1>1, <2>1, <2>2, Climb
  <2> QED BY <2>3 DEF S
<1>11. PwdWalk \in [0 .. N -> 0 .. N]
  <2> DEFINE h == Body(PwdWalk)
  <2>1. \A n \in 0 .. N : h[n] \in 0 .. N
    BY <1>7, <1>10
  <2>2. h \in [0 .. N -> 0 .. N]
    BY <2>1
  <2> QED BY <1>7, <2>2
<1> QED BY <1>8, <1>9, <1>11

\* Entries can be given numbers that grow on the way down: the tree has no loop.
Descends(r) == \A i \in Live : itable[i].parent # 0 => r[itable[i].parent] < r[i]

Acyclic == \E r \in [Ids -> Nat] : Descends(r)

LEMMA AcyclicInit == Init => Acyclic
<1> SUFFICES ASSUME Init PROVE Acyclic
  OBVIOUS
<1>1. Live = {}
  BY DEF Init, Live, FreeInode
<1>2. [i \in Ids |-> 0] \in [Ids -> Nat]
  OBVIOUS
<1> QED BY <1>1, <1>2 DEF Acyclic, Descends

\* A new entry comes below all others, because nothing hangs below a free slot.
LEMMA AcyclicKept ==
  ASSUME Acyclic, TreeInv, TypeInv, [Next]_vars
  PROVE  Acyclic'
<1>1. PICK r \in [Ids -> Nat] : Descends(r)
  BY DEF Acyclic
<1>2. CASE \A i \in Ids : itable'[i].id = 0 \/ SameKeys(i)
  <2>1. Live' \subseteq Live /\ \A i \in Live' : itable'[i].parent = itable[i].parent
    BY <1>2 DEF Live, SameKeys
  <2>2. Descends(r)'
    BY <1>1, <2>1 DEF Descends
  <2> QED BY <2>2 DEF Acyclic
<1>3. CASE \E n \in Names, type \in {1, 2} : Create(type, n)
  <2>1. PICK n \in Names, type \in {1, 2}, c \in Ids :
          c \in FreeSlots /\ itable' = [itable EXCEPT ![c] = NewInode(c, type, n)]
    BY <1>3 DEF Create, First
  <2>2. pc = "idle" /\ Rooted /\ (cwd # 0 => cwd \in Live)
    BY <1>3 DEF Create, Ready, Idle, TreeInv, IsDir
  <2>3. NewInode(c, type, n).parent = cwd /\ c \notin Live /\ cwd # c
    BY <2>1, <2>2, Constants DEF NewInode, FreeInode, FreeSlots
  <2>4. /\ itable'[c].parent = cwd
        /\ \A i \in Ids \ {c} : itable'[i] = itable[i]
        /\ Live' \subseteq Live \cup {c}
    BY <2>1, <2>3 DEF TypeInv, TypeOK, Live
  <2>5. PICK v \in Nat : cwd # 0 => r[cwd] < v
    <3>1. CASE cwd = 0
      BY <3>1
    <3>2. CASE cwd # 0
      <4>1. r[cwd] \in Nat /\ r[cwd] + 1 \in Nat /\ r[cwd] < r[cwd] + 1
        BY <1>1, <2>2, <3>2 DEF Live
      <4> QED BY <4>1
    <3> QED BY <3>1, <3>2
  <2>6. PICK q \in [Ids -> Nat] : q[c] = v /\ \A i \in Ids \ {c} : q[i] = r[i]
    <3> DEFINE u == [r EXCEPT ![c] = v]
    <3>1. u \in [Ids -> Nat] /\ u[c] = v /\ \A i \in Ids \ {c} : u[i] = r[i]
      BY <1>1
    <3> QED BY <3>1
  <2>7. ASSUME NEW i \in Live', itable'[i].parent # 0
        PROVE  q[itable'[i].parent] < q[i]
    <3>1. CASE i = c
      <4>1. itable'[i].parent = cwd /\ cwd \in Ids \ {c}
        BY <2>2, <2>3, <2>4, <2>7, <3>1 DEF Live
      <4> QED BY <2>5, <2>6, <2>7, <3>1, <4>1
    <3>2. CASE i # c
      <4>1. i \in Live /\ itable'[i].parent = itable[i].parent
        BY <2>4, <3>2 DEF Live
      <4>2. itable[i].parent \in Live
        BY <2>2, <2>7, <4>1 DEF Rooted, IsDir
      <4>3. itable[i].parent \in Ids \ {c} /\ i \in Ids \ {c}
        BY <2>3, <3>2, <4>1, <4>2 DEF Live
      <4>4. r[itable[i].parent] < r[i]
        BY <1>1, <2>7, <4>1 DEF Descends
      <4> QED BY <2>6, <4>1, <4>3, <4>4
    <3> QED BY <3>1, <3>2
  <2>8. Descends(q)'
    BY <2>7 DEF Descends
  <2> QED BY <2>6, <2>8 DEF Acyclic
<1> QED BY <1>2, <1>3, TableSteps

\* mkfs at the root starts the tree anew, whatever it was before.
LEMMA AcyclicNext ==
  ASSUME ~adrift => TreeInv, ~adrift /\ pc # "mkfs" => Acyclic,
         MkfsInv, TypeInv, [Next]_vars, ~adrift', pc' # "mkfs"
  PROVE  Acyclic'
<1>1. CASE MkfsBitmap
  <2>1. Live' = {} /\ [i \in Ids |-> 0] \in [Ids -> Nat]
    BY <1>1, MkfsDone
  <2> QED BY <2>1 DEF Acyclic, Descends
<1>2. CASE ~MkfsBitmap
  <2>1. ~Mkfs /\ ~MkfsInodes
    BY DEF Mkfs, MkfsInodes
  <2>2. ~adrift /\ (PowerLoss => pc # "mkfs")
    <3>1. PowerLoss => ~adrift /\ pc # "mkfs"
      BY Zenon DEF PowerLoss
    <3>2. adrift' = adrift => ~adrift
      OBVIOUS
    <3> QED BY <2>1, <3>1, <3>2, AdriftSteps
  <2>3. pc # "mkfs"
    BY <1>2, <2>1, <2>2, OtherPc DEF vars
  <2> QED BY <2>2, <2>3, AcyclicKept
<1> QED BY <1>1, <1>2

\* Unless the last mkfs was typed below the root or lost power, pwd's walk from the
\* current directory meets only directories that exist and ends at the root within its
\* bound, for any size of the inode table: a longer walk would meet an entry twice,
\* and the tree, slots used over and over included, has no loop.
THEOREM PwdFindsRoot == Spec => []PwdReachesRootUnlessAdrift
<1> DEFINE Tree == ~adrift => TreeInv
           NoLoop == ~adrift /\ pc # "mkfs" => Acyclic
<1>1. Init => Tree /\ MkfsInv /\ NoLoop
  BY TreeInit, AcyclicInit DEF Init, MkfsInv
<1>2. ASSUME TypeInv, TreeInv, Acyclic PROVE PwdReachesRoot
  <2> SUFFICES ASSUME Ready
               PROVE  /\ PwdWalk[NInodes] = 0
                      /\ \A n \in 0 .. NInodes : PwdWalk[n] # 0 => PwdWalk[n] \in Live
    BY DEF PwdReachesRoot
  <2>1. PICK N \in Nat \ {0} : N = NInodes
    BY Constants
  <2>2. PICK w \in [0 .. N -> 0 .. N] : w = PwdWalk
    BY <1>2, <2>1, WalkSteps
  <2>3. w[0] = cwd /\ \A n \in 0 .. (N - 1) : w[n + 1] = Above(w[n])
    BY <1>2, <2>1, <2>2, WalkSteps
  <2>4. Rooted /\ (cwd # 0 => cwd \in Live) /\ 0 \notin Live
    BY <1>2, Constants DEF TreeInv, Ready, Idle, IsDir, Live
  <2>5. \A n \in 0 .. N : w[n] # 0 => w[n] \in Live
    <3> DEFINE S == {n \in 0 .. N : w[n] # 0 => w[n] \in Live}
    <3>1. 0 \in S
      BY <2>1, <2>3, <2>4
    <3>2. ASSUME NEW n \in 0 .. (N - 1), n \in S
          PROVE  n + 1 \in S
      <4>1. n + 1 \in 0 .. N /\ w[n + 1] = Above(w[n])
        BY <2>1, <2>3
      <4> QED BY <2>4, <4>1 DEF Above, Rooted, IsDir
    <3> HIDE DEF S
    <3>3. \A n \in 0 .. N : n \in S
      BY <2>1, <3>1, <3>2, Climb
    <3> QED BY <3>3 DEF S
  <2>6. ASSUME w[N] # 0 PROVE FALSE
    <3>1. \A n \in 0 .. N : w[n] \in Live
      <4> DEFINE S == {d \in 0 .. N : w[N - d] \in Live}
      <4>1. 0 \in S
        BY <2>1, <2>5, <2>6
      <4>2. ASSUME NEW d \in 0 .. (N - 1), d \in S
            PROVE  d + 1 \in S
        <5>1. N - (d + 1) \in 0 .. (N - 1) /\ (N - (d + 1)) + 1 = N - d /\ d + 1 \in 0 .. N
          BY <2>1
        <5>2. w[N - d] = Above(w[N - (d + 1)]) /\ w[N - d] \in Live
          BY <2>3, <4>2, <5>1
        <5>3. w[N - (d + 1)] \in Live
          BY <2>4, <5>2 DEF Above
        <5> QED BY <5>1, <5>3
      <4> HIDE DEF S
      <4>3. \A d \in 0 .. N : d \in S
        BY <2>1, <4>1, <4>2, Climb
      <4>4. ASSUME NEW n \in 0 .. N PROVE w[n] \in Live
        <5>1. N - n \in S /\ N - (N - n) = n
          BY <2>1, <4>3
        <5> QED BY <5>1 DEF S
      <4> QED BY <4>4
    <3>2. PICK r \in [Ids -> Nat] : Descends(r)
      BY <1>2 DEF Acyclic
    <3>3. ASSUME NEW n \in 0 .. (N - 1)
          PROVE  r[w[n + 1]] < r[w[n]]
      <4>1. n \in 0 .. N /\ n + 1 \in 0 .. N
        BY <2>1
      <4>2. w[n] \in Live /\ w[n + 1] \in Live /\ w[n + 1] # 0
        BY <2>4, <3>1, <4>1
      <4>3. w[n + 1] = itable[w[n]].parent
        BY <2>3, <4>2 DEF Above
      <4> QED BY <3>2, <4>2, <4>3 DEF Descends
    <3>4. \A n \in 0 .. N : r[w[n]] \in Nat
      BY <3>1, <3>2 DEF Live
    <3>5. ASSUME NEW x \in 0 .. N, NEW y \in 0 .. N, x < y
          PROVE  w[x] # w[y]
      <4>1. PICK m \in Nat : m = y - (x + 1)
        BY <3>5
      <4> DEFINE S == {d \in 0 .. m : r[w[(x + 1) + d]] < r[w[x]]}
      <4>2. 0 \in S
        <5>1. x \in 0 .. (N - 1) /\ (x + 1) + 0 = x + 1 /\ 0 \in 0 .. m
          BY <2>1, <3>5, <4>1
        <5> QED BY <3>3, <5>1
      <4>3. ASSUME NEW d \in 0 .. (m - 1), d \in S
            PROVE  d + 1 \in S
        <5>1. PICK n \in 0 .. (N - 1) : n = (x + 1) + d
          BY <2>1, <3>5, <4>1
        <5>2. n \in 0 .. N /\ n + 1 \in 0 .. N /\ n + 1 = (x + 1) + (d + 1) /\ d + 1 \in 0 .. m
          BY <2>1, <3>5, <4>1, <5>1
        <5>3. r[w[n]] < r[w[x]] /\ r[w[n + 1]] < r[w[n]]
          BY <3>3, <4>3, <5>1
        <5>4. r[w[n + 1]] < r[w[x]]
          <6>1. PICK a, b, c \in Nat : a = r[w[n + 1]] /\ b = r[w[n]] /\ c = r[w[x]]
            BY <3>4, <5>2
          <6>2. a < b /\ b < c
            BY <5>3, <6>1
          <6>3. a < c
            BY <6>2
          <6> QED BY <6>1, <6>3
        <5> QED BY <5>2, <5>4
      <4> HIDE DEF S
      <4>4. \A d \in 0 .. m : d \in S
        BY <4>2, <4>3, Climb
      <4>5. m \in S /\ (x + 1) + m = y
        BY <2>1, <3>5, <4>1, <4>4
      <4>6. r[w[y]] < r[w[x]] /\ r[w[x]] \in Nat
        BY <3>4, <4>5 DEF S
      <4> QED BY <4>6
    <3>6. /\ IsFiniteSet(0 .. N) /\ Cardinality(0 .. N) = N + 1
          /\ IsFiniteSet(1 .. N) /\ Cardinality(1 .. N) = N
      BY <2>1, FS_Interval
    <3>7. w \in [0 .. N -> 1 .. N]
      <4>1. \A n \in 0 .. N : w[n] \in 1 .. N
        BY <2>1, <3>1 DEF Live, Ids
      <4> QED BY <2>2, <4>1
    <3>8. PICK x, y \in 0 .. N : x # y /\ w[x] = w[y]
      <4>1. Cardinality(1 .. N) < Cardinality(0 .. N)
        BY <2>1, <3>6
      <4> QED BY <3>6, <3>7, <4>1, FS_PigeonHole, SMTT(30)
    <3>9. x < y \/ y < x
      BY <2>1, <3>8
    <3> QED BY <3>5, <3>8, <3>9
  <2> QED BY <2>1, <2>2, <2>5, <2>6
<1>3. Tree /\ NoLoop /\ MkfsInv /\ TypeInv /\ [Next]_vars => Tree' /\ NoLoop'
  BY TreeNext, AcyclicNext
<1>4. TypeInv /\ Tree /\ NoLoop => PwdReachesRootUnlessAdrift
  <2> SUFFICES ASSUME TypeInv, Tree, NoLoop, ~adrift PROVE PwdReachesRoot
    BY DEF PwdReachesRootUnlessAdrift
  <2>1. pc = "mkfs" => PwdReachesRoot
    BY DEF PwdReachesRoot, Ready, Idle
  <2> QED BY <1>2, <2>1
<1>5. MkfsInv /\ TypeInv /\ [Next]_vars => MkfsInv'
  BY MkfsNext
<1> QED BY <1>1, <1>3, <1>4, <1>5, TypeInvariant, PTL DEF Spec
-----------------------------------------------------------------------------
(* No block is lost. *)

Directs == 0 .. (NDirect - 1)

\* The block that direct pointer j of entry i holds, with R's view of an operation.
D(i, j) == IF Busy /\ i = cur
           THEN IF Freeing /\ j < k THEN 0 ELSE work.direct[j]
           ELSE itable[i].direct[j]

\* While every payload fits the direct pointers no inode has an index block,
\* directories have no block at all, and a marked block belongs to an entry, except
\* the one just allocated.  mkfs clears the inodes first and the bitmap last.
NoIndex == /\ \A i \in Ids : itable[i].indirect = 0
           /\ work.indirect = 0
           /\ pc \in {"alloc", "data"} => BlocksNeeded(pay.len) <= NDirect
           /\ pc \notin {"ind_alloc", "ind_zero", "ind_link"}

DirsAreEmpty == /\ \A i \in Live : itable[i].type = 2 => itable[i].direct = NoBlocks
                /\ Busy => work.type # 2

AllOwned == pc # "mkfs" =>
              \A b \in bitmap : \/ pc = "data" /\ b = blk
                                \/ \E i \in Live, j \in Directs : D(i, j) = b

\* While blocks are given back the inode on disk still has them all; later the copy
\* holds the new ones, up to the loop's counter.
CopyInStep == /\ Freeing => work.direct = itable[cur].direct
              /\ pc \in {"alloc", "data"} => \A j \in Directs : j >= k => work.direct[j] = 0

LeakInv == NoIndex /\ DirsAreEmpty /\ CopyInStep /\ (~leaky => AllOwned)

LEMMA LeakInit == Init => LeakInv
<1> SUFFICES ASSUME Init PROVE LeakInv
  OBVIOUS
<1>1. /\ Live = {} /\ pc = "off" /\ bitmap = {} /\ work.indirect = 0
      /\ \A i \in Ids : itable[i].indirect = 0
  BY DEF Init, Live, FreeInode, NoLocals
<1> QED BY <1>1 DEF LeakInv, NoIndex, DirsAreEmpty, AllOwned, CopyInStep, Freeing, Busy

\* Steps that only forget pointers keep the inodes without index block.
LEMMA NoIndexNext ==
  ASSUME NoIndex, TypeInv, [Next]_vars,
         \A n \in PayloadLens : BlocksNeeded(n) <= NDirect \/ BlocksNeeded(n) > MaxBlocks
  PROVE  NoIndex'
<1>1. /\ itable \in [Ids -> Inode] /\ work \in Inode /\ k \in Nat
      /\ FreeInode.indirect = 0
  BY DEF TypeInv, TypeOK, FreeInode
<1>2. \A i \in Ids : itable'[i].indirect = 0
  <2>1. CASE itable' = itable
    BY <2>1 DEF NoIndex
  <2>2. CASE MkfsInodes
    BY <1>1, <2>2 DEF MkfsInodes, NoIndex
  <2>3. CASE \E n \in Names, type \in {1, 2} : Create(type, n)
    <3>1. PICK n \in Names, type \in {1, 2}, c \in Ids :
             itable' = [itable EXCEPT ![c] = NewInode(c, type, n)]
      BY <2>3 DEF Create
    <3>2. NewInode(c, type, n).indirect = 0
      BY DEF NewInode, FreeInode
    <3> QED BY <1>1, <3>1, <3>2 DEF NoIndex
  <2>4. CASE (\E n \in Names : RmDir(n)) \/ RmInode
    <3>1. PICK c : itable' = [itable EXCEPT ![c] = FreeInode]
      BY <2>4 DEF RmDir, RmInode
    <3> QED BY <1>1, <3>1 DEF NoIndex
  <2>5. CASE CommitInode
    BY <1>1, <2>5 DEF CommitInode, NoIndex
  <2>6. CASE \/ Mkfs \/ MkfsBitmap \/ PowerLoss \/ Boot \/ Mount \/ Unmount \/ RawWrite
             \/ CdRoot \/ CdUp \/ \E n \in Names : CdDown(n)
             \/ \E n \in Names : RmFile(n)
             \/ \E n \in Names, p \in Payload : Write(n, p, "wr_free") \/ Write(n, p, "hex_free")
             \/ FreeBlock \/ HexNoMemory \/ TooLarge \/ BeginFill \/ AllocBlock
             \/ WriteData \/ AllocIndex \/ ZeroIndex \/ LinkIndex \/ UNCHANGED vars
    <3>1. itable' = itable
      BY <2>6, Zenon DEF Mkfs, MkfsBitmap, PowerLoss, Boot, Mount, Unmount, RawWrite,
           CdRoot, CdUp, CdDown, RmFile, Write, FreeBlock, HexNoMemory, TooLarge, BeginFill,
           AllocBlock, WriteData, AllocIndex, ZeroIndex, LinkIndex, disk, vars
    <3> QED BY <2>1, <3>1
  <2> QED BY <2>2, <2>3, <2>4, <2>5, <2>6, Steps, Zenon
<1>3. /\ work'.indirect = 0
      /\ pc' \in {"alloc", "data"} => BlocksNeeded(pay.len)' <= NDirect
      /\ pc' \notin {"ind_alloc", "ind_zero", "ind_link"}
  <2>1. CASE work' = FreeInode /\ pc' \in {"idle", "off"}
    BY <1>1, <2>1
  <2>2. CASE work' = work /\ pc' \notin Filling
    BY <2>2 DEF NoIndex, Filling
  <2>3. CASE \/ \E n \in Names : RmFile(n)
             \/ \E n \in Names, p \in Payload : Write(n, p, "wr_free") \/ Write(n, p, "hex_free")
    <3>1. PICK i \in Ids : work' = itable[i] /\ pc' \notin Filling
      BY <2>3 DEF RmFile, Write, Filling
    <3> QED BY <3>1 DEF NoIndex, Filling
  <2>4. CASE BeginFill
    <3>1. work'.indirect = 0 /\ pay' = pay /\ pc' \in {"alloc", "commit"}
      BY <1>1, <2>4 DEF BeginFill, Inode
    <3>2. pay.len \in PayloadLens
      BY <2>4 DEF BeginFill, TypeInv, OpOK, Writing, Payload
    <3>3. BlocksNeeded(pay.len) \in Nat
      BY <3>2, ChunkBounds, Constants
    <3>4. BlocksNeeded(pay.len) <= NDirect
      BY <2>4, <3>2, <3>3, Constants DEF BeginFill
    <3>5. BlocksNeeded(pay.len)' = BlocksNeeded(pay.len)
      BY <3>1 DEF BlocksNeeded
    <3> QED BY <3>1, <3>4, <3>5
  <2>5. CASE AllocBlock
    BY <2>5 DEF AllocBlock, NoIndex, BlocksNeeded
  <2>6. CASE WriteData
    <3>1. pay \in Payload /\ k < BlocksNeeded(pay.len) /\ pc = "data" /\ pay' = pay
      BY <2>6 DEF WriteData, TypeInv, OpOK, Writing, Filling
    <3>2. BlocksNeeded(pay.len) \in Nat /\ BlocksNeeded(pay.len) <= NDirect
      BY <3>1, ChunkBounds, Constants DEF Payload, NoIndex
    <3>3. k < NDirect
      BY <1>1, <3>1, <3>2, Constants
    <3>4. ~(k >= NDirect)
      BY <1>1, <3>3, Constants
    <3>5. pc' \in {"alloc", "commit"}
      BY <2>6, <3>4 DEF WriteData, NextBlock
    <3>6. work'.indirect = work.indirect
      <4> DEFINE n == work.size + ChunkSize(pay.len, k)
                 d == [work.direct EXCEPT ![k] = blk]
      <4>1. work' = [work EXCEPT !.size = n, !.direct = d]
        BY <2>6, <3>4, Zenon DEF WriteData
      <4> HIDE DEF n, d
      <4> QED BY <1>1, <4>1 DEF Inode
    <3>7. BlocksNeeded(pay.len)' = BlocksNeeded(pay.len)
      BY <3>1 DEF BlocksNeeded
    <3> QED BY <3>2, <3>5, <3>6, <3>7 DEF NoIndex
  <2>7. CASE AllocIndex \/ ZeroIndex \/ LinkIndex
    BY <2>7 DEF AllocIndex, ZeroIndex, LinkIndex, NoIndex
  <2>8. CASE MkfsBitmap \/ PowerLoss \/ RmInode \/ HexNoMemory \/ TooLarge \/ CommitInode
    <3>1. work' = FreeInode /\ pc' \in {"idle", "off"}
      BY <2>8 DEF MkfsBitmap, PowerLoss, RmInode, HexNoMemory, TooLarge, CommitInode, Return
    <3> QED BY <2>1, <3>1
  <2>9. CASE \/ Mkfs \/ MkfsInodes \/ Boot \/ Mount \/ Unmount \/ RawWrite
             \/ CdRoot \/ CdUp \/ \E n \in Names : CdDown(n)
             \/ \E n \in Names, type \in {1, 2} : Create(type, n)
             \/ \E n \in Names : RmDir(n)
             \/ FreeBlock
    <3>1. work' = work /\ pc' \notin Filling
      BY <2>9 DEF Mkfs, MkfsInodes, Boot, Mount, Unmount, RawWrite, CdRoot, CdUp, CdDown,
           Create, RmDir, FreeBlock, Freeing, Ready, Idle, Filling, locals, disk
    <3> QED BY <2>2, <3>1
  <2>10. CASE UNCHANGED vars
    BY <2>10 DEF vars, NoIndex, BlocksNeeded
  <2> QED BY <2>3, <2>4, <2>5, <2>6, <2>7, <2>8, <2>9, <2>10, Steps, Zenon
<1> QED BY <1>2, <1>3 DEF NoIndex

\* A step that gives up marks, or keeps them, and lets no marked block go.
LEMMA OwnersKept ==
  ASSUME AllOwned, pc \notin {"mkfs", "data"}, bitmap' \subseteq bitmap,
         \A i \in Live, j \in Directs : D(i, j) \in bitmap' => i \in Live' /\ D(i, j)' = D(i, j)
  PROVE  AllOwned'
<1> SUFFICES ASSUME NEW b \in bitmap'
             PROVE  \E i \in Live', j \in Directs : D(i, j)' = b
  BY DEF AllOwned
<1>1. PICK i \in Live, j \in Directs : D(i, j) = b
  BY DEF AllOwned
<1> QED BY <1>1

\* Directories have no blocks: only files are written, and an entry keeps its type.
LEMMA DirsNext ==
  ASSUME DirsAreEmpty, TypeInv, [Next]_vars
  PROVE  DirsAreEmpty'
<1>1. itable \in [Ids -> Inode] /\ work \in Inode /\ FreeInode.id = 0
  BY DEF TypeInv, TypeOK, FreeInode
<1>2. \A i \in Live' : itable'[i].type = 2 => itable'[i].direct = NoBlocks
  <2>1. CASE itable' = itable
    BY <2>1 DEF DirsAreEmpty, Live
  <2>2. CASE MkfsInodes
    BY <1>1, <2>2 DEF MkfsInodes, DirsAreEmpty, Live
  <2>3. CASE \E n \in Names, type \in {1, 2} : Create(type, n)
    <3>1. PICK n \in Names, type \in {1, 2}, c \in Ids :
             itable' = [itable EXCEPT ![c] = NewInode(c, type, n)]
      BY <2>3 DEF Create
    <3>2. NewInode(c, type, n).direct = NoBlocks
      BY DEF NewInode, FreeInode
    <3> QED BY <1>1, <3>1, <3>2 DEF DirsAreEmpty, Live
  <2>4. CASE (\E n \in Names : RmDir(n)) \/ RmInode
    <3>1. PICK c : itable' = [itable EXCEPT ![c] = FreeInode]
      BY <2>4 DEF RmDir, RmInode
    <3> QED BY <1>1, <3>1 DEF DirsAreEmpty, Live
  <2>5. CASE CommitInode
    <3>1. work.type # 2
      BY <2>5 DEF CommitInode, DirsAreEmpty, Busy
    <3> QED BY <1>1, <2>5, <3>1 DEF CommitInode, DirsAreEmpty, Live
  <2>6. CASE \/ Mkfs \/ MkfsBitmap \/ PowerLoss \/ Boot \/ Mount \/ Unmount \/ RawWrite
             \/ CdRoot \/ CdUp \/ \E n \in Names : CdDown(n)
             \/ \E n \in Names : RmFile(n)
             \/ \E n \in Names, p \in Payload : Write(n, p, "wr_free") \/ Write(n, p, "hex_free")
             \/ FreeBlock \/ HexNoMemory \/ TooLarge \/ BeginFill \/ AllocBlock
             \/ WriteData \/ AllocIndex \/ ZeroIndex \/ LinkIndex \/ UNCHANGED vars
    <3>1. itable' = itable
      BY <2>6, Zenon DEF Mkfs, MkfsBitmap, PowerLoss, Boot, Mount, Unmount, RawWrite,
           CdRoot, CdUp, CdDown, RmFile, Write, FreeBlock, HexNoMemory, TooLarge, BeginFill,
           AllocBlock, WriteData, AllocIndex, ZeroIndex, LinkIndex, disk, vars
    <3> QED BY <2>1, <3>1
  <2> QED BY <2>2, <2>3, <2>4, <2>5, <2>6, Steps, Zenon
<1>3. Busy' => work'.type # 2
  <2>1. CASE Busy /\ work'.type = work.type
    BY <2>1 DEF DirsAreEmpty
  <2>2. CASE \/ \E n \in Names : RmFile(n)
             \/ \E n \in Names, p \in Payload : Write(n, p, "wr_free") \/ Write(n, p, "hex_free")
    <3>1. PICK i \in Ids : work' = itable[i] /\ itable[i].type # 2
      BY <2>2 DEF RmFile, Write, First, FilesNamed
    <3> QED BY <3>1
  <2>3. CASE \/ FreeBlock \/ BeginFill \/ AllocBlock \/ WriteData \/ AllocIndex \/ ZeroIndex
             \/ LinkIndex
    <3>1. Busy
      BY <2>3 DEF FreeBlock, Freeing, BeginFill, AllocBlock, WriteData, AllocIndex, ZeroIndex,
           LinkIndex, Busy
    <3>2. CASE work' = work
      BY <2>1, <3>1, <3>2
    <3>3. CASE BeginFill \/ AllocIndex
      <4>1. work'.type = work.type
        BY <1>1, <3>3 DEF BeginFill, AllocIndex, Inode
      <4> QED BY <2>1, <3>1, <4>1
    <3>4. CASE WriteData
      <4> DEFINE n == work.size + ChunkSize(pay.len, k)
                 d == [work.direct EXCEPT ![k] = blk]
      <4>1. \/ work' = [work EXCEPT !.size = n]
            \/ work' = [work EXCEPT !.size = n, !.direct = d]
        BY <3>4, Zenon DEF WriteData
      <4> HIDE DEF n, d
      <4>2. work'.type = work.type
        BY <1>1, <4>1 DEF Inode
      <4> QED BY <2>1, <3>1, <4>2
    <3> QED BY <2>3, <3>2, <3>3, <3>4 DEF FreeBlock, AllocBlock, ZeroIndex, LinkIndex
  <2>4. CASE \/ Mkfs \/ MkfsInodes \/ MkfsBitmap \/ PowerLoss \/ Boot \/ Mount \/ Unmount
             \/ RawWrite \/ CdRoot \/ CdUp \/ \E n \in Names : CdDown(n)
             \/ \E n \in Names, type \in {1, 2} : Create(type, n)
             \/ \E n \in Names : RmDir(n)
             \/ RmInode \/ HexNoMemory \/ TooLarge \/ CommitInode
    <3>1. pc' \in {"idle", "off", "mkfs"}
      BY <2>4 DEF Mkfs, MkfsInodes, MkfsBitmap, PowerLoss, Boot, Mount, Unmount, RawWrite,
           CdRoot, CdUp, CdDown, Create, RmDir, RmInode, HexNoMemory, TooLarge, CommitInode,
           Ready, Idle, Return
    <3> QED BY <3>1 DEF Busy
  <2>5. CASE UNCHANGED vars
    BY <2>5 DEF vars, DirsAreEmpty, Busy
  <2> QED BY <2>2, <2>3, <2>4, <2>5, Steps, Zenon
<1> QED BY <1>2, <1>3 DEF DirsAreEmpty

\* Only mkfs, when it is done, forgets a power loss.
LEMMA OnlyMkfsForgets ==
  ASSUME [Next]_vars, ~leaky'
  PROVE  ~leaky \/ MkfsBitmap
  BY Zenon
     DEF Next, Command, OpStep, vars, past, Boot, Mount, Unmount, RawWrite, Create, CdRoot,
         CdUp, CdDown, RmDir, RmFile, Write, Mkfs, MkfsInodes, PowerLoss, FreeBlock, RmInode,
         HexNoMemory, TooLarge, BeginFill, AllocBlock, WriteData, AllocIndex, ZeroIndex,
         LinkIndex, CommitInode

\* The commands with one write, and the start of the others.
LEMMA OwnedCommand ==
  ASSUME LeakInv, TypeInv, ~leaky,
         \/ Boot \/ Mount \/ Unmount \/ RawWrite \/ CdRoot \/ CdUp
         \/ \E n \in Names : CdDown(n)
         \/ \E n \in Names : RmFile(n)
         \/ \E n \in Names, type \in {1, 2} : Create(type, n)
         \/ \E n \in Names : RmDir(n)
         \/ \E n \in Names, p \in Payload : Write(n, p, "wr_free") \/ Write(n, p, "hex_free")
  PROVE  AllOwned'
<1>1. AllOwned /\ DirsAreEmpty /\ itable \in [Ids -> Inode] /\ FreeInode.id = 0
  BY DEF LeakInv, TypeInv, TypeOK, FreeInode
<1>2. pc \in {"idle", "off"} /\ bitmap' = bitmap
  BY DEF Boot, Mount, Unmount, RawWrite, CdRoot, CdUp, CdDown, RmFile, Create, RmDir, Write,
         Ready, Idle, disk
<1>3. \A i \in Live, j \in Directs : D(i, j) = itable[i].direct[j]
  BY <1>2 DEF D, Busy
<1>4. ASSUME NEW i \in Live, NEW j \in Directs, D(i, j) \in bitmap'
      PROVE  i \in Live' /\ D(i, j)' = D(i, j)
  <2>1. itable[i].direct[j] \in Blocks /\ itable[i].direct[j] # 0
    BY <1>2, <1>3, <1>4, Constants DEF TypeInv, TypeOK
  <2>2. CASE pc' \in {"idle", "off"} /\ itable' = itable
    BY <1>3, <2>2 DEF Live, D, Busy
  <2>3. CASE \E n \in Names, type \in {1, 2} : Create(type, n)
    <3>1. PICK n \in Names, type \in {1, 2}, c \in Ids :
             c \in FreeSlots /\ itable' = [itable EXCEPT ![c] = NewInode(c, type, n)]
      BY <2>3 DEF Create, First
    <3>2. c # i /\ i \in Ids /\ itable'[i] = itable[i]
      BY <1>1, <3>1 DEF FreeSlots, Live
    <3>3. ~Busy'
      BY <2>3 DEF Create, Ready, Idle, Busy
    <3> QED BY <1>3, <3>2, <3>3 DEF D, Live
  <2>4. CASE \E n \in Names : RmDir(n)
    <3>1. PICK n \in Names, c \in Ids : /\ First(c, Named(n)) /\ itable[c].type = 2
                                        /\ itable' = [itable EXCEPT ![c] = FreeInode]
      BY <2>4 DEF RmDir
    <3>2. c \in Live /\ itable[c].direct = NoBlocks
      BY <1>1, <3>1 DEF First, Named, Children, DirsAreEmpty
    <3>3. c # i
      BY <2>1, <3>2 DEF NoBlocks, Directs
    <3>4. ~Busy' /\ i \in Ids /\ itable'[i] = itable[i]
      BY <1>1, <2>4, <3>1, <3>3 DEF RmDir, Ready, Idle, Busy, Live
    <3> QED BY <1>3, <3>4 DEF D, Live
  <2>5. CASE \/ \E n \in Names : RmFile(n)
             \/ \E n \in Names, p \in Payload : Write(n, p, "wr_free") \/ Write(n, p, "hex_free")
    <3>1. /\ UNCHANGED <<itable, k>> /\ work' = itable[cur'] /\ pc = "idle"
          /\ pc' \in {"rm_free", "wr_free", "hex_free"}
      BY <2>5 DEF RmFile, Write, Ready, Idle, disk
    <3>2. k' = 0 /\ j \in Nat
      BY <3>1 DEF TypeInv, OpOK, AtRest, NoLocals, Directs
    <3>3. D(i, j)' = itable[i].direct[j]
      <4>1. CASE i = cur'
        BY <3>1, <3>2, <4>1 DEF D, Busy
      <4>2. CASE i # cur'
        BY <3>1, <4>2 DEF D
      <4> QED BY <4>1, <4>2
    <3> QED BY <1>3, <3>1, <3>3 DEF Live
  <2>6. CASE \/ Boot \/ Mount \/ Unmount \/ RawWrite \/ CdRoot \/ CdUp
             \/ \E n \in Names : CdDown(n)
    <3>1. pc' \in {"idle", "off"} /\ itable' = itable
      BY <2>6 DEF Boot, Mount, Unmount, RawWrite, CdRoot, CdUp, CdDown, Ready, Idle, disk
    <3> QED BY <2>2, <3>1
  <2> QED BY <2>3, <2>4, <2>5, <2>6, Zenon
<1> QED BY <1>1, <1>2, <1>4, OwnersKept

\* Blocks are given back: a block whose mark goes may lose its owner.  An operation that
\* stops here leaves the old pointers in the inode, and loses nothing.
LEMMA OwnedFree ==
  ASSUME LeakInv, TypeInv, ~leaky, ~leaky',
         FreeBlock \/ RmInode \/ HexNoMemory \/ TooLarge \/ BeginFill \/ PowerLoss
  PROVE  AllOwned'
<1>1. /\ AllOwned /\ NoIndex /\ CopyInStep /\ itable \in [Ids -> Inode] /\ work \in Inode
      /\ k \in Nat /\ bitmap \subseteq Blocks /\ 0 \notin Blocks /\ FreeInode.id = 0
  BY Constants DEF LeakInv, TypeInv, TypeOK, FreeInode
<1>2. CASE FreeBlock
  <2>1. /\ Freeing /\ k' = k + 1 /\ UNCHANGED <<itable, pc, cur, work>>
        /\ bitmap' = bitmap \ {Ref(work, k)} /\ Busy
    BY <1>2 DEF FreeBlock, Freeing, Busy
  <2>2. ASSUME NEW i \in Live, NEW j \in Directs, D(i, j) \in bitmap'
        PROVE  i \in Live' /\ D(i, j)' = D(i, j)
    <3>1. CASE i # cur
      BY <2>1, <3>1 DEF D, Live
    <3>2. CASE i = cur
      <4>1. j \in Nat /\ j < NDirect
        BY Constants DEF Directs
      <4>2. CASE j < k
        <5>1. D(i, j) = 0
          BY <2>1, <3>2, <4>2 DEF D
        <5> QED BY <1>1, <2>1, <2>2, <5>1
      <4>3. CASE j = k
        <5>1. D(i, j) = Ref(work, k)
          BY <1>1, <2>1, <3>2, <4>1, <4>3 DEF D, Ref
        <5> QED BY <2>1, <2>2, <5>1
      <4>4. CASE ~(j < k) /\ j # k
        <5>1. ~(j < k + 1)
          BY <1>1, <4>1, <4>4
        <5> QED BY <2>1, <3>2, <4>4, <5>1 DEF D, Live, Freeing, Busy
      <4> QED BY <4>2, <4>3, <4>4
    <3> QED BY <3>1, <3>2
  <2>3. pc \notin {"mkfs", "data"} /\ bitmap' \subseteq bitmap
    BY <2>1 DEF Freeing
  <2> QED BY <1>1, <2>2, <2>3, OwnersKept
<1>3. CASE \/ RmInode \/ HexNoMemory \/ TooLarge \/ BeginFill
  <2>1. Freeing /\ k > MaxBlocks /\ bitmap' = bitmap /\ Busy
    BY <1>3 DEF RmInode, HexNoMemory, TooLarge, BeginFill, Freeing, Busy, disk
  <2>2. \A j \in Directs : D(cur, j) = 0
    BY <1>1, <2>1, Constants DEF D, Directs, MaxBlocks
  <2>3. ASSUME NEW i \in Live, NEW j \in Directs, D(i, j) \in bitmap'
        PROVE  i \in Live' /\ D(i, j)' = D(i, j)
    <3>1. i # cur /\ i \in Ids /\ D(i, j) = itable[i].direct[j]
      BY <1>1, <2>1, <2>2, <2>3 DEF Live, D
    <3>2. itable'[i] = itable[i] /\ (cur' = cur \/ ~Busy')
      BY <1>1, <1>3, <3>1 DEF RmInode, HexNoMemory, TooLarge, BeginFill, disk, Return, Busy
    <3> QED BY <3>1, <3>2 DEF D, Live
  <2>4. pc \notin {"mkfs", "data"} /\ bitmap' \subseteq bitmap
    BY <2>1 DEF Freeing
  <2> QED BY <1>1, <2>3, <2>4, OwnersKept
<1>4. CASE PowerLoss
  <2>1. UNCHANGED <<itable, bitmap>> /\ ~Busy' /\ (Idle \/ Freeing)
    BY <1>4 DEF PowerLoss, disk, Busy
  <2>2. pc \in {"idle", "rm_free", "wr_free", "hex_free"}
    BY <2>1 DEF Idle, Freeing
  <2>3. ASSUME NEW i \in Live, NEW j \in Directs, D(i, j) \in bitmap'
        PROVE  i \in Live' /\ D(i, j)' = D(i, j)
    <3>1. D(i, j) # 0
      BY <1>1, <2>1, <2>3
    <3>2. D(i, j) = itable[i].direct[j]
      BY <1>1, <2>2, <3>1 DEF D, Busy, CopyInStep, Freeing
    <3> QED BY <2>1, <3>2 DEF D, Live
  <2> QED BY <1>1, <2>1, <2>2, <2>3, OwnersKept
<1> QED BY <1>2, <1>3, <1>4

\* A new block is taken, and becomes the file's when its data is on the disk.
LEMMA OwnedFill ==
  ASSUME LeakInv, TypeInv, ~leaky, AllocBlock \/ WriteData \/ CommitInode
  PROVE  AllOwned'
<1>1. /\ AllOwned /\ NoIndex /\ CopyInStep /\ itable \in [Ids -> Inode] /\ work \in Inode
      /\ k \in Nat
  BY DEF LeakInv, TypeInv, TypeOK
<1>2. CASE AllocBlock
  <2>1. UNCHANGED <<itable, cur, work>> /\ pc = "alloc" /\ pc' \in {"data", "commit"}
    BY <1>2 DEF AllocBlock
  <2>2. Live' = Live /\ \A i \in Live, j \in Directs : D(i, j)' = D(i, j)
    BY <2>1 DEF D, Live, Busy, Freeing
  <2>3. \/ pc' = "data" /\ bitmap' = bitmap \cup {blk'}
        \/ pc' = "commit" /\ bitmap' = bitmap
    BY <1>2 DEF AllocBlock
  <2>4. \A b \in bitmap : \E i \in Live, j \in Directs : D(i, j) = b
    BY <1>1, <2>1 DEF AllOwned
  <2> QED BY <2>2, <2>3, <2>4 DEF AllOwned
<1>3. CASE WriteData
  <2>1. /\ UNCHANGED <<itable, bitmap, cur>> /\ pc = "data"
        /\ pay \in Payload /\ k < BlocksNeeded(pay.len) /\ cur \in Live
    BY <1>3 DEF WriteData, TypeInv, OpOK, Writing, Filling, Busy
  <2>2. BlocksNeeded(pay.len) \in Nat /\ BlocksNeeded(pay.len) <= NDirect
    BY <1>1, <2>1, ChunkBounds, Constants DEF Payload, NoIndex
  <2>3. k \in Directs /\ ~(k >= NDirect)
    BY <1>1, <2>1, <2>2, Constants DEF Directs
  <2>4. pc' \in {"alloc", "commit"}
    BY <1>3, <2>3 DEF WriteData, NextBlock
  <2>5. work'.direct = [work.direct EXCEPT ![k] = blk]
    <3> DEFINE n == work.size + ChunkSize(pay.len, k)
               d == [work.direct EXCEPT ![k] = blk]
    <3>1. work' = [work EXCEPT !.size = n, !.direct = d]
      BY <1>3, <2>3, Zenon DEF WriteData
    <3> HIDE DEF n, d
    <3>2. work'.direct = d
      BY <1>1, <3>1 DEF Inode
    <3> QED BY <3>2 DEF d
  <2>6. PICK c \in Live, m \in Directs : c = cur /\ m = k
    BY <2>1, <2>3
  <2>7. D(c, m)' = blk
    BY <1>1, <2>1, <2>4, <2>5, <2>6 DEF D, Busy, Freeing, Inode, Directs
  <2>8. ASSUME NEW b \in bitmap', b # blk
        PROVE  \E i \in Live', j \in Directs : D(i, j)' = b
    <3>1. PICK i \in Live, j \in Directs : D(i, j) = b
      BY <1>1, <2>1, <2>8 DEF AllOwned
    <3>2. CASE i # c
      <4>1. i \in Live' /\ D(i, j)' = D(i, j)
        BY <2>1, <2>6, <3>2 DEF D, Live
      <4> QED BY <3>1, <4>1
    <3>3. CASE i = c /\ j # m
      <4>1. i \in Live' /\ D(i, j)' = D(i, j)
        BY <1>1, <2>1, <2>4, <2>5, <2>6, <3>3 DEF D, Live, Busy, Freeing, Inode, Directs
      <4> QED BY <3>1, <4>1
    <3>4. CASE i = c /\ j = m
      \* a pointer of the copy is set only once
      <4>1. D(i, j) = 0
        BY <1>1, <2>1, <2>6, <3>4 DEF D, Busy, Freeing, CopyInStep, Directs
      <4>2. b \in Blocks
        BY <2>1 DEF TypeInv, TypeOK
      <4> QED BY <3>1, <4>1, <4>2, Constants
    <3> QED BY <3>2, <3>3, <3>4
  <2> QED BY <2>1, <2>4, <2>6, <2>7, <2>8 DEF AllOwned, Live
<1>4. CASE CommitInode
  <2>1. /\ itable' = [itable EXCEPT ![cur] = work] /\ bitmap' = bitmap /\ pc = "commit"
        /\ pc' = "idle" /\ cur \in Live /\ work.id = cur
    BY <1>4 DEF CommitInode, Return, TypeInv, OpOK, Busy
  <2>2. ASSUME NEW i \in Live, NEW j \in Directs, D(i, j) \in bitmap'
        PROVE  i \in Live' /\ D(i, j)' = D(i, j)
    BY <1>1, <2>1, Constants DEF D, Live, Busy, Freeing
  <2> QED BY <1>1, <2>1, <2>2, OwnersKept
<1> QED BY <1>2, <1>3, <1>4

\* The copy in memory and the inode on disk.
LEMMA ListedNext ==
  ASSUME LeakInv, TypeInv, [Next]_vars
  PROVE  CopyInStep'
<1>1. /\ CopyInStep /\ NoIndex /\ itable \in [Ids -> Inode] /\ work \in Inode /\ k \in Nat
  BY DEF LeakInv, TypeInv, TypeOK
<1>2. CASE \/ \E n \in Names : RmFile(n)
           \/ \E n \in Names, p \in Payload : Write(n, p, "wr_free") \/ Write(n, p, "hex_free")
  <2>1. /\ itable' = itable /\ work' = itable[cur']
        /\ pc' \in {"rm_free", "wr_free", "hex_free"}
    BY <1>2 DEF RmFile, Write, disk
  <2> QED BY <2>1 DEF CopyInStep
<1>3. CASE FreeBlock
  BY <1>1, <1>3 DEF FreeBlock, CopyInStep, Freeing
<1>4. CASE BeginFill
  <2>1. work'.direct = NoBlocks /\ pc' \in {"alloc", "commit"}
    BY <1>1, <1>4 DEF BeginFill, Inode
  <2> QED BY <2>1 DEF CopyInStep, Freeing, NoBlocks, Directs
<1>5. CASE AllocBlock
  <2>1. UNCHANGED <<work, k>> /\ pc = "alloc" /\ pc' \in {"data", "commit"}
    BY <1>5 DEF AllocBlock
  <2> QED BY <1>1, <2>1 DEF CopyInStep, Freeing
<1>6. CASE WriteData
  <2>1. /\ pay \in Payload /\ k < BlocksNeeded(pay.len) /\ pc = "data"
    BY <1>6 DEF WriteData, TypeInv, OpOK, Writing, Filling
  <2>2. BlocksNeeded(pay.len) \in Nat /\ BlocksNeeded(pay.len) <= NDirect
    BY <1>1, <2>1, ChunkBounds, Constants DEF Payload, NoIndex
  <2>3. ~(k >= NDirect)
    BY <1>1, <2>1, <2>2, Constants
  <2>4. pc' \in {"alloc", "commit"} /\ k' = k + 1
    BY <1>6, <2>3 DEF WriteData, NextBlock
  <2>5. work'.direct = [work.direct EXCEPT ![k] = blk]
    <3> DEFINE n == work.size + ChunkSize(pay.len, k)
               d == [work.direct EXCEPT ![k] = blk]
    <3>1. work' = [work EXCEPT !.size = n, !.direct = d]
      BY <1>6, <2>3, Zenon DEF WriteData
    <3> HIDE DEF n, d
    <3>2. work'.direct = d
      BY <1>1, <3>1 DEF Inode
    <3> QED BY <3>2 DEF d
  <2>6. ASSUME NEW j \in Directs, j >= k + 1
        PROVE  work'.direct[j] = 0
    <3>1. j # k /\ j >= k
      BY <1>1, <2>6 DEF Directs
    <3> QED BY <1>1, <2>1, <2>5, <3>1 DEF Inode, Directs, CopyInStep
  <2> QED BY <2>4, <2>6 DEF CopyInStep, Freeing
<1>7. CASE AllocIndex \/ ZeroIndex \/ LinkIndex
  BY <1>1, <1>7 DEF AllocIndex, ZeroIndex, LinkIndex, NoIndex
<1>8. CASE UNCHANGED vars
  BY <1>1, <1>8 DEF vars, CopyInStep, Freeing
<1>9. CASE \/ Mkfs \/ MkfsInodes \/ MkfsBitmap \/ PowerLoss \/ Boot \/ Mount \/ Unmount
           \/ RawWrite \/ CdRoot \/ CdUp \/ \E n \in Names : CdDown(n)
           \/ \E n \in Names, type \in {1, 2} : Create(type, n)
           \/ \E n \in Names : RmDir(n)
           \/ RmInode \/ HexNoMemory \/ TooLarge \/ CommitInode
  <2>1. pc' \in {"idle", "off", "mkfs"}
    BY <1>9 DEF Mkfs, MkfsInodes, MkfsBitmap, PowerLoss, Boot, Mount, Unmount, RawWrite,
         CdRoot, CdUp, CdDown, Create, RmDir, RmInode, HexNoMemory, TooLarge, CommitInode,
         Ready, Idle, Return
  <2> QED BY <2>1 DEF CopyInStep, Freeing
<1> QED BY <1>2, <1>3, <1>4, <1>5, <1>6, <1>7, <1>8, <1>9, Steps, Zenon

\* With payloads that the direct pointers hold, or that are refused (the shell can type
\* no others), every block marked in the bitmap has an owner whenever no operation
\* runs, also after writehex found no memory, after refused payloads and after power losses
\* while blocks are freed.  A power loss later in a write, or in mkfs, does lose blocks, until
\* the next whole mkfs; and so does a disk that is full when the first index block is needed.
THEOREM NoBlockLeaks ==
  ASSUME \A n \in PayloadLens : BlocksNeeded(n) <= NDirect \/ BlocksNeeded(n) > MaxBlocks
  PROVE  Spec => []NoLeakUnlessCutOff
<1>1. ASSUME LeakInv, TypeInv, [Next]_vars PROVE LeakInv'
  <2>1. NoIndex' /\ DirsAreEmpty' /\ CopyInStep'
    BY <1>1, NoIndexNext, DirsNext, ListedNext DEF LeakInv
  <2>2. ASSUME ~leaky' PROVE AllOwned'
    <3>5. ~leaky \/ MkfsBitmap
      BY <1>1, <2>2, OnlyMkfsForgets
    <3>1. CASE Mkfs \/ MkfsInodes
      BY <3>1 DEF Mkfs, MkfsInodes, AllOwned
    <3>2. CASE MkfsBitmap
      BY <3>2 DEF MkfsBitmap, AllOwned
    <3>3. CASE AllocIndex \/ ZeroIndex \/ LinkIndex
      BY <1>1, <3>3 DEF AllocIndex, ZeroIndex, LinkIndex, LeakInv, NoIndex
    <3>4. CASE UNCHANGED vars
      BY <1>1, <2>2, <3>4 DEF vars, LeakInv, AllOwned, D, Live, Busy, Freeing
    <3> QED BY <1>1, <2>2, <3>1, <3>2, <3>3, <3>4, <3>5, Steps, OwnedCommand, OwnedFree,
                OwnedFill, Zenon
  <2> QED BY <2>1, <2>2 DEF LeakInv
<1>2. TypeInv /\ LeakInv => NoLeakUnlessCutOff
  <2> SUFFICES ASSUME TypeInv, LeakInv, ~leaky, AtRest, NEW b \in bitmap
               PROVE  \E o \in Owned : BlockOf(o) = b
    BY DEF NoLeakUnlessCutOff, NoLeak
  <2>1. PICK i \in Live, j \in Directs : itable[i].direct[j] = b
    BY DEF LeakInv, AllOwned, AtRest, D, Busy
  <2>2. Ref(itable[i], j) = b /\ j \in RefSlots /\ b # 0
    BY <2>1, Constants, SlotFacts DEF Ref, Directs, TypeInv, TypeOK
  <2> DEFINE o == <<i, j>>
  <2>3. o \in Owned /\ BlockOf(o) = b
    BY <2>2 DEF Owned, BlockOf
  <2> QED BY <2>3
<1> QED BY <1>1, <1>2, LeakInit, TypeInvariant, PTL DEF Spec
-----------------------------------------------------------------------------
(* How much a write has written. *)

\* A chunk fills its block, except the last, which ends with the payload.
LEMMA ChunkFills ==
  ASSUME NEW n \in Nat, NEW j \in Nat, j < BlocksNeeded(n)
  PROVE  /\ j + 1 < BlocksNeeded(n) => ChunkSize(n, j) = BlockSize
         /\ j + 1 >= BlocksNeeded(n) => j * BlockSize + ChunkSize(n, j) = n
<1> DEFINE a == n + BlockSize - 1
           q == BlocksNeeded(n)
<1>1. BlockSize \in Nat /\ BlockSize > 0 /\ a \in Nat /\ q = a \div BlockSize
  BY RexFSAssumption DEF BlocksNeeded
<1>2. q \in Nat /\ q * BlockSize <= a /\ a < q * BlockSize + BlockSize
  <2>1. ASSUME NEW x \in Nat, NEW y \in Nat, y > 0
        PROVE  x \div y \in Nat /\ (x \div y) * y <= x /\ x < (x \div y) * y + y
    BY <2>1, SMT
  <2> QED BY <1>1, <2>1
<1> DEFINE s == j * BlockSize
<1>3. s \in Nat /\ (j + 1) * BlockSize = s + BlockSize /\ (j + 2) * BlockSize = s + BlockSize + BlockSize
  BY <1>1
<1>4. ASSUME j + 1 < q PROVE ChunkSize(n, j) = BlockSize
  <2>1. (j + 2) * BlockSize <= q * BlockSize
    BY <1>1, <1>2, <1>4, MulMono
  <2> HIDE DEF s
  <2>2. n - s > BlockSize
    BY <1>1, <1>2, <1>3, <2>1
  <2> QED BY <2>2 DEF ChunkSize, s
<1>5. ASSUME j + 1 >= q PROVE s + ChunkSize(n, j) = n
  <2>1. q = j + 1
    BY <1>2, <1>5
  <2>2. q * BlockSize = s + BlockSize
    BY <1>3, <2>1
  <2> HIDE DEF s
  <2>3. n - s <= BlockSize
    BY <1>1, <1>2, <1>3, <2>2
  <2>4. ChunkSize(n, j) = n - s
    BY <1>1, <1>3, <2>3 DEF ChunkSize, s
  <2> QED BY <1>3, <2>4
<1> QED BY <1>4, <1>5

\* bytes_written at each step of the loop; it falls short only on a full disk.
SizeInv ==
  /\ pc \in {"alloc", "data"} => work.size = k * BlockSize
  /\ pc \in {"ind_alloc", "ind_zero", "ind_link"} =>
       work.size = k * BlockSize + ChunkSize(pay.len, k)
  /\ pc = "commit" => work.size = pay.len \/ FreeBlocks = {}

\* The end of the loop's body: size counts block k, and the next is k + 1.
LEMMA SizeAdvances ==
  ASSUME TypeInv, pc \in Filling, NextBlock, pay' = pay,
         work'.size = k * BlockSize + ChunkSize(pay.len, k)
  PROVE  SizeInv'
<1>1. pay.len \in Nat /\ k \in Nat /\ k < BlocksNeeded(pay.len) /\ BlocksNeeded(pay.len) \in Nat
  <2>1. pay \in Payload /\ k \in Nat /\ k < BlocksNeeded(pay.len)
    BY DEF TypeInv, TypeOK, OpOK, Filling, Writing
  <2> QED BY <2>1, Constants, ChunkBounds DEF Payload
<1>2. CASE k + 1 < BlocksNeeded(pay.len)
  <2>1. ChunkSize(pay.len, k) = BlockSize
    BY <1>1, <1>2, ChunkFills
  <2>2. pc' = "alloc" /\ k' = k + 1
    BY <1>2 DEF NextBlock
  <2>3. (k + 1) * BlockSize = k * BlockSize + BlockSize
    BY <1>1, Constants
  <2> QED BY <2>1, <2>2, <2>3 DEF SizeInv
<1>3. CASE ~(k + 1 < BlocksNeeded(pay.len))
  <2>1. k * BlockSize + ChunkSize(pay.len, k) = pay.len
    BY <1>1, <1>3, ChunkFills
  <2>2. pc' = "commit"
    BY <1>3 DEF NextBlock
  <2> QED BY <2>1, <2>2 DEF SizeInv
<1> QED BY <1>2, <1>3

LEMMA SizeNext ==
  ASSUME SizeInv, TypeInv, [Next]_vars
  PROVE  SizeInv'
<1> DEFINE Counted == {"alloc", "data", "ind_alloc", "ind_zero", "ind_link", "commit"}
<1>1. CASE pc' \notin Counted
  BY <1>1 DEF SizeInv
<1>2. CASE UNCHANGED vars
  BY <1>2 DEF vars, SizeInv, FreeBlocks
<1>3. CASE BeginFill
  <2>1. work \in Inode /\ pay' = pay /\ k' = 0
    BY <1>3 DEF BeginFill, TypeInv, TypeOK
  <2>2. work'.size = 0 /\ pc' \in {"commit", "alloc"} /\ (pc' = "commit" => pay.len = 0)
    BY <1>3, <2>1 DEF BeginFill, Inode
  <2>3. 0 * BlockSize = 0
    BY Constants
  <2> QED BY <2>1, <2>2, <2>3 DEF SizeInv
<1>4. CASE AllocBlock
  BY <1>4 DEF AllocBlock, SizeInv, FreeBlocks
<1>5. CASE WriteData
  <2>1. /\ pc = "data" /\ pay' = pay /\ work \in Inode /\ work.size = k * BlockSize
        /\ k \in Nat /\ pc \in Filling
    BY <1>5 DEF WriteData, SizeInv, TypeInv, TypeOK, Filling
  <2>2. work'.size = k * BlockSize + ChunkSize(pay.len, k)
    <3> DEFINE n == work.size + ChunkSize(pay.len, k)
               d == [work.direct EXCEPT ![k] = blk]
    <3>1. \/ work' = [work EXCEPT !.size = n]
          \/ work' = [work EXCEPT !.size = n, !.direct = d]
      BY <1>5, Zenon DEF WriteData
    <3> HIDE DEF n, d
    <3>2. work'.size = n
      BY <2>1, <3>1 DEF Inode
    <3> QED BY <2>1, <3>2 DEF n
  <2>3. CASE NextBlock
    BY <2>1, <2>2, <2>3, SizeAdvances
  <2>4. CASE pc' \in {"ind_alloc", "ind_link"} /\ k' = k
    BY <2>1, <2>2, <2>4 DEF SizeInv
  <2> QED BY <1>5, <2>3, <2>4 DEF WriteData
<1>6. CASE AllocIndex
  <2>1. work'.size = work.size /\ pay' = pay /\ k' = k
    BY <1>6 DEF AllocIndex, TypeInv, TypeOK, Inode
  <2>2. \/ pc' = "ind_zero"
        \/ pc' = "commit" /\ FreeBlocks = {} /\ bitmap' = bitmap
    BY <1>6 DEF AllocIndex
  <2>3. pc = "ind_alloc"
    BY <1>6 DEF AllocIndex
  <2> QED BY <2>1, <2>2, <2>3 DEF SizeInv, FreeBlocks
<1>7. CASE ZeroIndex
  BY <1>7 DEF ZeroIndex, SizeInv
<1>8. CASE LinkIndex
  <2>1. pc \in Filling /\ NextBlock /\ pay' = pay
        /\ work'.size = k * BlockSize + ChunkSize(pay.len, k)
    BY <1>8 DEF LinkIndex, SizeInv, Filling
  <2> QED BY <2>1, SizeAdvances
<1>9. CASE \/ Mkfs \/ MkfsInodes \/ MkfsBitmap \/ PowerLoss \/ Boot
           \/ Mount \/ Unmount \/ RawWrite \/ CdRoot \/ CdUp
           \/ \E n \in Names : CdDown(n) \/ RmDir(n) \/ RmFile(n)
           \/ \E n \in Names, type \in {1, 2} : Create(type, n)
           \/ \E n \in Names, p \in Payload : Write(n, p, "wr_free") \/ Write(n, p, "hex_free")
  BY <1>1, <1>9 DEF Mkfs, MkfsInodes, MkfsBitmap, PowerLoss, Boot, Mount, Unmount, RawWrite,
       CdRoot, CdUp, CdDown, RmDir, RmFile, Create, Write, Ready, Idle, Return
<1>10. CASE RmInode \/ CommitInode \/ FreeBlock \/ HexNoMemory \/ TooLarge
  BY <1>1, <1>10 DEF RmInode, CommitInode, FreeBlock, Freeing, HexNoMemory, TooLarge, Return
<1> QED BY <1>2, <1>3, <1>4, <1>5, <1>6, <1>7, <1>8, <1>9, <1>10, Steps, Zenon

\* Whatever the payload, the pointers of an inode and the state of the disk: a write that
\* stores fewer bytes than it was given, an index block that cannot be had included,
\* has met a disk without a free block.
THEOREM ShortWriteMeansDiskFull == Spec => []ShortWriteMeansFull
<1>1. Init => SizeInv
  BY DEF Init, SizeInv
<1>2. TypeInv /\ SizeInv => ShortWriteMeansFull
  <2> SUFFICES ASSUME TypeInv, SizeInv PROVE ShortWriteMeansFull
    OBVIOUS
  <2>1. pc = "commit" => pay.len \in Nat
    BY Constants DEF TypeInv, OpOK, Writing, Payload
  <2> QED BY <2>1 DEF SizeInv, ShortWriteMeansFull
<1> QED BY <1>1, <1>2, SizeNext, TypeInvariant, PTL DEF Spec
-----------------------------------------------------------------------------
(* RexFS implements FileStore. *)

\* Block j of the payload is where the inode's copy says.
Laid(j) == /\ Ref(work, j) # 0
           /\ data[Ref(work, j)].text = pay.text
           /\ data[Ref(work, j)].at = j

\* What the copy is worth when it is written to the disk: all blocks were stored,
\* or none was left for block k, or none for the index block, in which case the bytes of
\* block k are counted although no pointer leads to it.
Committed ==
  \/ k = BlocksNeeded(pay.len) /\ work.size = pay.len
  \/ k < BlocksNeeded(pay.len) /\ work.size = k * BlockSize
  \/ /\ k < BlocksNeeded(pay.len) /\ work.size = k * BlockSize + ChunkSize(pay.len, k)
     /\ Ref(work, k) = 0

\* The blocks before k lie where the copy says, the current one has been written, and
\* the index block comes with block NDirect.
FillInv ==
  /\ pc \in Filling \cup {"commit"} =>
       /\ k <= BlocksNeeded(pay.len) /\ BlocksNeeded(pay.len) <= MaxBlocks
       /\ \A j \in 0 .. (k - 1) : Laid(j)
  /\ pc \in {"ind_alloc", "ind_zero", "ind_link"} =>
       data[blk].text = pay.text /\ data[blk].at = k
  /\ pc \in {"alloc", "data"} => (k <= NDirect <=> work.indirect = 0)
  /\ pc \in {"ind_alloc", "ind_zero"} => k = NDirect
  /\ pc = "ind_alloc" => work.indirect = 0
  /\ pc = "commit" => Committed

\* The locals of a write that is filling blocks.
LEMMA FillFacts ==
  ASSUME TypeInv, pc \in Filling
  PROVE  /\ k \in Nat /\ pay \in Payload /\ pay.len \in Nat /\ work \in Inode /\ cur \in Live
         /\ BlocksNeeded(pay.len) \in Nat /\ k < BlocksNeeded(pay.len)
         /\ BlocksNeeded(pay.len) <= MaxBlocks
         /\ k < MaxBlocks /\ k \in RefSlots
         /\ \A j \in 0 .. (k - 1) : j \in RefSlots /\ j < k /\ j < MaxBlocks
<1>1. /\ k \in Nat /\ pay \in Payload /\ work \in Inode /\ cur \in Live
      /\ k < BlocksNeeded(pay.len) /\ BlocksNeeded(pay.len) <= MaxBlocks
  BY DEF TypeInv, TypeOK, OpOK, Filling, Writing, Busy
<1>2. pay.len \in Nat /\ BlocksNeeded(pay.len) \in Nat
  BY <1>1, ChunkBounds, Constants DEF Payload
<1> QED BY <1>1, <1>2, Constants DEF RefSlots

\* The next block: the ones up to k are laid, and nothing else is asked of an "alloc".
LEMMA FillAdvances ==
  ASSUME TypeInv, pc \in Filling, NextBlock, pay' = pay,
         \A j \in 0 .. k : Laid(j)',
         work'.size = k * BlockSize + ChunkSize(pay.len, k),
         k + 1 <= NDirect <=> work'.indirect = 0
  PROVE  FillInv'
<1>1. /\ k' = k + 1 /\ pc' \in {"alloc", "commit"}
      /\ pc' = "commit" => ~(k + 1 < BlocksNeeded(pay.len))
  BY DEF NextBlock
<1>2. /\ k + 1 <= BlocksNeeded(pay.len) /\ 0 .. ((k + 1) - 1) = 0 .. k
      /\ BlocksNeeded(pay.len)' = BlocksNeeded(pay.len)
  BY FillFacts DEF BlocksNeeded
<1>3. pc' = "commit" => Committed'
  <2> SUFFICES ASSUME pc' = "commit" PROVE Committed'
    OBVIOUS
  <2>1. k + 1 = BlocksNeeded(pay.len)
    BY <1>1, <1>2, FillFacts
  <2>2. k * BlockSize + ChunkSize(pay.len, k) = pay.len
    BY <2>1, FillFacts, ChunkFills
  <2> QED BY <1>1, <1>2, <2>1, <2>2 DEF Committed
<1>4. \A j \in 0 .. (k' - 1) : Laid(j)'
  BY <1>1, <1>2
<1> QED BY <1>1, <1>2, <1>3, <1>4, FillFacts DEF FillInv

LEMMA FillBegin ==
  ASSUME TypeInv, BeginFill
  PROVE  FillInv'
<1>1. /\ work \in Inode /\ pay \in Payload /\ pay' = pay /\ k' = 0
      /\ pc' \in {"alloc", "commit"} /\ (pc' = "commit" => pay.len = 0)
      /\ BlocksNeeded(pay.len) <= MaxBlocks
  BY DEF BeginFill, TypeInv, TypeOK, OpOK, Writing
<1>2. work'.indirect = 0 /\ work'.size = 0
  BY <1>1 DEF BeginFill, Inode
<1>3. BlocksNeeded(pay.len) \in Nat /\ BlocksNeeded(pay.len)' = BlocksNeeded(pay.len)
  BY <1>1, ChunkBounds, Constants DEF Payload, BlocksNeeded
<1>4. BlocksNeeded(0) = 0
  BY Constants DEF BlocksNeeded
<1>5. pc' = "commit" => Committed'
  BY <1>1, <1>2, <1>3, <1>4 DEF Committed
<1>6. \A j \in 0 .. (0 - 1) : FALSE
  OBVIOUS
<1> QED BY <1>1, <1>2, <1>3, <1>5, <1>6, Constants DEF FillInv

LEMMA FillAlloc ==
  ASSUME FillInv, SizeInv, TypeInv, AllocBlock \/ AllocIndex
  PROVE  FillInv'
<1>1. /\ UNCHANGED <<data, pay, k>> /\ pc \in {"alloc", "ind_alloc"} /\ pc \in Filling
      /\ BlocksNeeded(pay.len)' = BlocksNeeded(pay.len)
  BY DEF AllocBlock, AllocIndex, Filling, BlocksNeeded
<1>2. CASE AllocBlock
  <2>1. work' = work /\ pc = "alloc" /\ pc' \in {"data", "commit"}
    BY <1>2 DEF AllocBlock
  <2>2. \A j \in 0 .. (k' - 1) : Laid(j)'
    BY <1>1, <2>1 DEF Laid, Ref, FillInv, Filling
  <2>3. Committed'
    BY <1>1, <2>1, FillFacts DEF Committed, SizeInv
  <2> QED BY <1>1, <2>1, <2>2, <2>3, FillFacts DEF FillInv
<1>3. CASE AllocIndex
  <2>1. /\ pc = "ind_alloc" /\ pc' \in {"ind_zero", "commit"} /\ blk' = blk
        /\ work'.direct = work.direct /\ work'.size = work.size
        /\ pc' = "commit" => work' = work
    BY <1>3, FillFacts, <1>1 DEF AllocIndex, Inode
  <2>2. k = NDirect /\ work.indirect = 0
    BY <2>1 DEF FillInv
  <2>3. ASSUME NEW j \in 0 .. (k' - 1)
        PROVE  Laid(j)'
    <3>1. j < NDirect /\ Laid(j) /\ j \in 0 .. (k - 1)
      BY <1>1, <2>2, Constants DEF FillInv
    <3>2. Ref(work, j)' = Ref(work, j)
      BY <2>1, <3>1 DEF Ref
    <3> QED BY <1>1, <3>1, <3>2 DEF Laid
  <2>4. pc' = "commit" => Committed'
    <3> SUFFICES ASSUME pc' = "commit" PROVE Committed'
      OBVIOUS
    <3>1. Ref(work, k) = 0
      BY <2>2, Constants DEF Ref
    <3>2. Ref(work, k)' = 0
      BY <1>1, <2>1, <3>1 DEF Ref
    <3>3. work'.size = k * BlockSize + ChunkSize(pay.len, k)
      BY <2>1 DEF SizeInv
    <3> QED BY <1>1, <3>2, <3>3, FillFacts DEF Committed
  <2>5. data'[blk'].text = pay'.text /\ data'[blk'].at = k'
    BY <1>1, <2>1 DEF FillInv
  <2> QED BY <1>1, <2>1, <2>2, <2>3, <2>4, <2>5, FillFacts DEF FillInv
<1> QED BY <1>2, <1>3

\* While blocks are filled R is what the copy says, the part of a fresh index block apart.
LEMMA OwnRefs ==
  ASSUME TypeInv, pc \in Filling, NEW j \in RefSlots,
         pc = "ind_zero" => j < NDirect \/ j = MaxBlocks
  PROVE  R(cur, j) = Ref(work, j)
<1>1. Busy /\ ~Freeing
  BY DEF Filling, Busy, Freeing
<1>2. ~(pc = "ind_zero" /\ NDirect <= j /\ j < MaxBlocks)
  BY Constants, SlotFacts
<1> QED BY <1>1, <1>2 DEF R

LEMMA FillData ==
  ASSUME FillInv, SizeInv, BlockInv, TypeInv, WriteData
  PROVE  FillInv'
<1>1. /\ UNCHANGED <<itable, bitmap, cur, pay>> /\ pc = "data" /\ pc \in Filling
      /\ blk \in Blocks /\ data \in [Blocks -> Sector] /\ work.size = k * BlockSize
      /\ \A i \in Live, j \in RefSlots : R(i, j) # blk
      /\ BlocksNeeded(pay.len)' = BlocksNeeded(pay.len)
  BY DEF WriteData, TypeInv, TypeOK, OpOK, Filling, BlockInv, Pending, SizeInv, BlocksNeeded
<1>2. data' = [data EXCEPT ![blk] = ChunkSector(pay, k)]
  BY DEF WriteData
<1>3. /\ data'[blk].text = pay.text /\ data'[blk].at = k
      /\ \A b \in Blocks \ {blk} : data'[b] = data[b]
  BY <1>1, <1>2 DEF ChunkSector, ZeroSector
<1>4. \A j \in RefSlots : Ref(work, j) # blk
  BY <1>1, FillFacts, OwnRefs
<1>5. work.indirect # blk /\ work.indirect \in Blocks \cup {0}
  <2>1. Ref(work, MaxBlocks) = work.indirect
    BY Constants DEF Ref, MaxBlocks
  <2> QED BY <1>1, <1>4, <2>1, FillFacts, SlotFacts DEF Inode
<1> DEFINE n == work.size + ChunkSize(pay.len, k)
           d == [work.direct EXCEPT ![k] = blk]
<1>6. ASSUME NEW j \in 0 .. (k - 1), work'.indirect = work.indirect,
             j < NDirect => work'.direct[j] = work.direct[j]
      PROVE  Laid(j)'
  <2>1. Laid(j) /\ j \in RefSlots
    BY <1>1, FillFacts DEF FillInv
  <2>2. data'[work.indirect] = data[work.indirect] \/ work.indirect = 0
    BY <1>3, <1>5
  <2>3. Ref(work, j)' = Ref(work, j)
    BY <1>6, <2>2 DEF Ref
  <2>4. Ref(work, j) \in Blocks \ {blk}
    <3>1. Ref(work, j) \in Blocks \cup {0}
      <4>1. data[work.indirect] \in Sector \/ work.indirect = 0
        BY <1>1, <1>5
      <4>2. CASE j < NDirect
        BY <2>1, <4>2, FillFacts, <1>1, SlotFacts DEF Ref, Inode
      <4>3. CASE ~(j < NDirect)
        <5>1. j # MaxBlocks
          BY <1>1, FillFacts, Constants
        <5>2. j - NDirect \in 0 .. (NIndirect - 1)
          BY <2>1, <4>3, <5>1, SlotFacts, Constants
        <5> QED BY <1>5, <4>1, <4>3, <5>1, <5>2 DEF Ref, Sector
      <4> QED BY <4>2, <4>3
    <3> QED BY <1>4, <2>1, <3>1 DEF Laid
  <2> QED BY <1>1, <1>3, <2>1, <2>3, <2>4 DEF Laid
<1>7. CASE k < NDirect
  <2>1. work' = [work EXCEPT !.size = n, !.direct = d] /\ NextBlock
    BY <1>7, FillFacts, <1>1, Constants DEF WriteData
  <2>2. work'.size = n /\ work'.direct = d /\ work'.indirect = work.indirect
    <3> HIDE DEF n, d
    <3> QED BY <1>1, <2>1, FillFacts DEF Inode
  <2>3. work.indirect = 0 /\ k + 1 <= NDirect
    BY <1>1, <1>7, FillFacts, Constants DEF FillInv
  <2>4. ASSUME NEW j \in 0 .. k PROVE Laid(j)'
    <3>1. k \in 0 .. (NDirect - 1) /\ work.direct \in [0 .. (NDirect - 1) -> Blocks \cup {0}]
      BY <1>1, <1>7, FillFacts, Constants, SMTT(30) DEF Inode
    <3>2. CASE j = k
      <4>1. Ref(work, j)' = blk
        BY <1>7, <2>2, <3>1, <3>2 DEF Ref
      <4> QED BY <1>1, <1>3, <3>2, <4>1, Constants DEF Laid
    <3>3. CASE j # k
      <4>1. j \in 0 .. (k - 1) /\ j < NDirect /\ j \in 0 .. (NDirect - 1)
        BY <1>1, <1>7, <3>3, FillFacts, Constants
      <4>2. work'.direct[j] = work.direct[j]
        BY <2>2, <3>1, <3>3, <4>1
      <4> QED BY <1>6, <2>2, <4>1, <4>2
    <3> QED BY <3>2, <3>3
  <2>5. work'.size = k * BlockSize + ChunkSize(pay.len, k)
    BY <1>1, <2>2
  <2> QED BY <1>1, <2>1, <2>2, <2>3, <2>4, <2>5, FillAdvances
<1>8. CASE k >= NDirect
  <2>1. /\ work' = [work EXCEPT !.size = n] /\ UNCHANGED <<k, blk>>
        /\ pc' = IF work.indirect = 0 THEN "ind_alloc" ELSE "ind_link"
    BY <1>1, <1>8, FillFacts, Constants DEF WriteData
  <2>2. work'.direct = work.direct /\ work'.indirect = work.indirect
    <3> HIDE DEF n
    <3> QED BY <1>1, <2>1, FillFacts DEF Inode
  <2>3. \A j \in 0 .. (k - 1) : Laid(j)'
    BY <1>6, <2>2
  <2>4. work.indirect = 0 => k = NDirect
    BY <1>1, <1>8, FillFacts, Constants DEF FillInv
  <2> QED BY <1>1, <1>3, <2>1, <2>2, <2>3, <2>4, FillFacts DEF FillInv, Filling
<1> QED BY <1>1, <1>7, <1>8, FillFacts, Constants

LEMMA FillIndex ==
  ASSUME FillInv, SizeInv, BlockInv, TypeInv, ZeroIndex \/ LinkIndex
  PROVE  FillInv'
<1>1. /\ UNCHANGED <<cur, pay, work>> /\ pc \in {"ind_zero", "ind_link"} /\ pc \in Filling
      /\ blk \in Blocks /\ data \in [Blocks -> Sector] /\ work.indirect \in Blocks
      /\ BlocksNeeded(pay.len)' = BlocksNeeded(pay.len)
      /\ data[blk].text = pay.text /\ data[blk].at = k
  BY DEF ZeroIndex, LinkIndex, TypeInv, TypeOK, OpOK, Filling, BlocksNeeded, FillInv
<1>2. blk # work.indirect /\ cur \in Live /\ work.indirect # 0
  BY IndexBlock, SlotFacts
<1>3. ASSUME NEW j \in 0 .. (k - 1), pc = "ind_zero" => j < NDirect
      PROVE  /\ Laid(j) /\ j \in RefSlots /\ j # MaxBlocks
             /\ Ref(work, j) \in Blocks \ {work.indirect}
  <2>1. Laid(j) /\ j \in RefSlots /\ j # MaxBlocks
    BY <1>1, FillFacts DEF FillInv, Filling
  <2>2. R(cur, j) = Ref(work, j) /\ R(cur, MaxBlocks) = work.indirect
    BY <1>1, <1>3, <2>1, OwnRefs, IndexBlock
  <2>3. Ref(work, j) # work.indirect
    BY <1>2, <2>1, <2>2, SlotFacts DEF BlockInv, Distinct
  <2>4. Ref(work, j) \in bitmap
    BY <1>2, <2>1, <2>2 DEF BlockInv, Marked, Laid
  <2> QED BY <2>1, <2>3, <2>4 DEF TypeInv, TypeOK
<1>4. \A b \in Blocks : b # work.indirect => data'[b] = data[b]
  BY IndexBlock
<1>5. CASE ZeroIndex
  <2>1. pc = "ind_zero" /\ pc' = "ind_link" /\ UNCHANGED <<k, blk>> /\ k = NDirect
    BY <1>5 DEF ZeroIndex, FillInv
  <2>2. ASSUME NEW j \in 0 .. (k - 1) PROVE Laid(j)'
    <3>1. j < NDirect
      BY <2>1, Constants
    <3>2. Ref(work, j)' = Ref(work, j)
      BY <1>1, <3>1 DEF Ref
    <3> QED BY <1>1, <1>3, <1>4, <3>1, <3>2 DEF Laid
  <2>3. data'[blk] = data[blk]
    BY <1>1, <1>2, <1>4
  <2> QED BY <1>1, <2>1, <2>2, <2>3, FillFacts DEF FillInv, Filling
<1>6. CASE LinkIndex
  <2>1. pc = "ind_link" /\ NextBlock /\ k >= NDirect
    BY <1>6 DEF LinkIndex, TypeInv, OpOK
  <2>2. k - NDirect \in 0 .. (NIndirect - 1)
    BY <1>1, <2>1, FillFacts, SlotFacts, Constants
  <2>3. data[work.indirect].ptrs \in [0 .. (NIndirect - 1) -> Blocks \cup {0}]
    BY <1>1 DEF Sector
  <2>4. data'[work.indirect].ptrs = [data[work.indirect].ptrs EXCEPT ![k - NDirect] = blk]
    <3> DEFINE f == [data[work.indirect].ptrs EXCEPT ![k - NDirect] = blk]
    <3>1. data'[work.indirect] = [data[work.indirect] EXCEPT !.ptrs = f]
      BY <1>1, <1>6 DEF LinkIndex
    <3>2. data[work.indirect] \in Sector
      BY <1>1
    <3> HIDE DEF f
    <3>3. data'[work.indirect].ptrs = f
      BY <3>1, <3>2 DEF Sector
    <3> QED BY <3>3 DEF f
  <2>5. ASSUME NEW j \in 0 .. k PROVE Laid(j)'
    <3>1. CASE j = k
      <4>1. ~(j < NDirect) /\ j # MaxBlocks
        BY <1>1, <2>1, <3>1, FillFacts, Constants
      <4>2. Ref(work, j)' = blk
        BY <1>1, <1>2, <2>2, <2>3, <2>4, <3>1, <4>1 DEF Ref
      <4>3. data'[blk] = data[blk] /\ blk # 0
        BY <1>1, <1>2, <1>4, Constants
      <4> QED BY <1>1, <3>1, <4>2, <4>3 DEF Laid
    <3>2. CASE j # k
      <4>1. j \in 0 .. (k - 1)
        BY <1>1, <3>2, FillFacts
      <4>2. Laid(j) /\ j \in RefSlots /\ j # MaxBlocks /\ Ref(work, j) \in Blocks \ {work.indirect}
        BY <1>3, <2>1, <4>1
      <4>3. Ref(work, j)' = Ref(work, j)
        <5>1. CASE j < NDirect
          BY <1>1, <5>1 DEF Ref
        <5>2. CASE ~(j < NDirect)
          <6>1. j - NDirect \in 0 .. (NIndirect - 1) /\ j - NDirect # k - NDirect
            BY <1>1, <3>2, <4>2, <5>2, FillFacts, SlotFacts, Constants
          <6>2. data'[work.indirect].ptrs[j - NDirect] = data[work.indirect].ptrs[j - NDirect]
            BY <2>2, <2>3, <2>4, <6>1
          <6> QED BY <1>1, <1>2, <4>2, <5>2, <6>2 DEF Ref
        <5> QED BY <5>1, <5>2
      <4> QED BY <1>1, <1>4, <4>2, <4>3 DEF Laid
    <3> QED BY <3>1, <3>2
  <2>6. work'.size = k * BlockSize + ChunkSize(pay.len, k)
    BY <1>1, <2>1 DEF SizeInv
  <2>7. ~(k + 1 <= NDirect) /\ work'.indirect # 0
    BY <1>1, <1>2, <2>1, FillFacts, Constants
  <2> QED BY <1>1, <2>1, <2>5, <2>6, <2>7, FillAdvances
<1> QED BY <1>5, <1>6

LEMMA FillNext ==
  ASSUME FillInv, SizeInv, BlockInv, TypeInv, [Next]_vars
  PROVE  FillInv'
<1>1. CASE pc' \notin Filling \cup {"commit"}
  BY <1>1 DEF FillInv, Filling
<1>2. CASE UNCHANGED vars
  BY <1>2 DEF vars, FillInv, Committed, Laid, Ref, BlocksNeeded
<1>3. CASE \/ Mkfs \/ MkfsInodes \/ MkfsBitmap \/ PowerLoss \/ Boot
           \/ Mount \/ Unmount \/ RawWrite \/ CdRoot \/ CdUp
           \/ \E n \in Names : CdDown(n) \/ RmDir(n) \/ RmFile(n)
           \/ \E n \in Names, type \in {1, 2} : Create(type, n)
           \/ \E n \in Names, p \in Payload : Write(n, p, "wr_free") \/ Write(n, p, "hex_free")
  <2>1. pc' \notin Filling \cup {"commit"}
    BY <1>3 DEF Mkfs, MkfsInodes, MkfsBitmap, PowerLoss, Boot, Mount, Unmount, RawWrite,
         CdRoot, CdUp, CdDown, RmDir, RmFile, Create, Write, Ready, Idle, Return, Filling
  <2> QED BY <1>1, <2>1
<1>4. CASE RmInode \/ CommitInode \/ FreeBlock \/ HexNoMemory \/ TooLarge
  <2>1. pc' \notin Filling \cup {"commit"}
    BY <1>4 DEF RmInode, CommitInode, FreeBlock, Freeing, HexNoMemory, TooLarge, Return,
         Filling
  <2> QED BY <1>1, <2>1
<1> QED BY <1>2, <1>3, <1>4, Steps, FillBegin, FillAlloc, FillData, FillIndex, Zenon

\* A number of whole blocks, and one more that is not empty.
LEMMA NeededExact ==
  ASSUME NEW q \in Nat, NEW c \in 1 .. BlockSize
  PROVE  BlocksNeeded(q * BlockSize) = q /\ BlocksNeeded(q * BlockSize + c) = q + 1
<1>1. PICK B \in Nat \ {0} : B = BlockSize
  BY Constants
<1>2. ASSUME NEW e \in Nat, NEW p \in Nat, e < B
      PROVE  (p * B + e) \div B = p
  <2>1. PICK s \in Nat : s = p * B
    OBVIOUS
  <2>2. PICK x \in Nat : x = s + e
    OBVIOUS
  <2>3. x \div B \in Nat /\ (x \div B) * B <= x /\ x < (x \div B) * B + B
    <3>1. ASSUME NEW y \in Nat, NEW z \in Nat, z > 0
          PROVE  y \div z \in Nat /\ (y \div z) * z <= y /\ y < (y \div z) * z + z
      BY <3>1, SMT
    <3> QED BY <1>1, <2>2, <3>1
  <2>4. PICK t \in Nat : t = x \div B
    BY <2>3
  <2>5. ASSUME t < p PROVE FALSE
    <3>1. (t + 1) * B <= p * B
      BY <2>5, MulMono
    <3>2. (t + 1) * B = t * B + B
      OBVIOUS
    <3>3. PICK u \in Nat : u = t * B
      OBVIOUS
    <3> QED BY <2>1, <2>2, <2>3, <2>4, <3>1, <3>2, <3>3
  <2>6. ASSUME p < t PROVE FALSE
    <3>1. (p + 1) * B <= t * B
      BY <2>6, MulMono
    <3>2. (p + 1) * B = p * B + B
      OBVIOUS
    <3>3. PICK u \in Nat : u = t * B
      OBVIOUS
    <3> QED BY <1>2, <2>1, <2>2, <2>3, <2>4, <3>1, <3>2, <3>3
  <2> QED BY <2>1, <2>2, <2>4, <2>5, <2>6
<1>3. PICK s \in Nat : s = q * B
  OBVIOUS
<1>4. BlocksNeeded(q * BlockSize) = q
  <2>1. s + B - 1 = s + (B - 1) /\ B - 1 \in Nat /\ B - 1 < B
    OBVIOUS
  <2>2. (s + (B - 1)) \div B = q
    BY <1>2, <1>3, <2>1
  <2> QED BY <1>1, <1>3, <2>1, <2>2 DEF BlocksNeeded
<1>5. BlocksNeeded(q * BlockSize + c) = q + 1
  <2>1. (s + c) + B - 1 = (s + B) + (c - 1) /\ c - 1 \in Nat /\ c - 1 < B
    BY <1>1
  <2>2. (q + 1) * B = s + B
    BY <1>3
  <2>3. ((s + B) + (c - 1)) \div B = q + 1
    BY <1>2, <2>1, <2>2
  <2> QED BY <1>1, <1>3, <2>1, <2>3 DEF BlocksNeeded
<1> QED BY <1>4, <1>5

\* A chunk is no larger than a block.
LEMMA ChunkInBlock ==
  ASSUME NEW n \in Nat, NEW j \in Nat, j < BlocksNeeded(n)
  PROVE  ChunkSize(n, j) \in 1 .. BlockSize
<1>1. ChunkSize(n, j) \in Nat \ {0}
  BY ChunkBounds
<1>2. PICK d \in Int : d = n - j * BlockSize
  BY Constants
<1>3. ChunkSize(n, j) <= BlockSize
  BY <1>2, Constants DEF ChunkSize
<1> QED BY <1>1, <1>3, Constants

\* What is committed fits the inode's pointers, and cat finds its first k blocks.
LEMMA CommitFacts ==
  ASSUME FillInv, TypeInv, pc = "commit"
  PROVE  /\ k \in Nat /\ k <= BlocksNeeded(pay.len) /\ BlocksNeeded(pay.len) <= MaxBlocks
         /\ BlocksNeeded(work.size) <= MaxBlocks
         /\ CatBlocks(work) = 0 .. (k - 1)
         /\ \A j \in 0 .. (k - 1) : ChunkSize(work.size, j) = ChunkSize(pay.len, j)
<1>1. /\ k \in Nat /\ pay.len \in Nat /\ pay \in Payload /\ Committed
      /\ k <= BlocksNeeded(pay.len) /\ BlocksNeeded(pay.len) <= MaxBlocks
      /\ BlocksNeeded(pay.len) \in Nat /\ \A j \in 0 .. (k - 1) : Laid(j)
  <2>1. k \in Nat /\ pay \in Payload
    BY DEF TypeInv, TypeOK, OpOK, Writing
  <2>2. pay.len \in Nat /\ BlocksNeeded(pay.len) \in Nat
    BY <2>1, ChunkBounds, Constants DEF Payload
  <2> QED BY <2>1, <2>2 DEF FillInv
<1>2. PICK B \in Nat \ {0}, s \in Nat : B = BlockSize /\ s = k * B
  BY <1>1, Constants
<1>3. ASSUME NEW j \in 0 .. (k - 1), NEW e \in Nat, k < BlocksNeeded(pay.len)
      PROVE  ChunkSize(s + e, j) = B /\ ChunkSize(pay.len, j) = B
  <2>1. j \in Nat /\ j + 1 <= k /\ j + 1 < BlocksNeeded(pay.len)
    BY <1>1, <1>3
  <2>2. PICK t \in Nat : t = j * B
    BY <2>1
  <2>3. (j + 1) * B <= k * B /\ (j + 1) * B = t + B
    BY <1>1, <2>1, <2>2, MulMono
  <2>4. (s + e) - t >= B
    BY <1>2, <2>3
  <2>5. ChunkSize(s + e, j) = B
    BY <1>2, <2>2, <2>4 DEF ChunkSize
  <2>6. ChunkSize(pay.len, j) = B
    BY <1>1, <1>2, <2>1, ChunkFills
  <2> QED BY <2>5, <2>6
<1>4. CASE k = BlocksNeeded(pay.len) /\ work.size = pay.len
  <2>1. CatBlocks(work) = 0 .. (k - 1)
    BY <1>1, <1>4 DEF CatBlocks, Laid
  <2> QED BY <1>1, <1>4, <2>1
<1>5. CASE k < BlocksNeeded(pay.len) /\ work.size = k * BlockSize
  <2>1. 1 \in 1 .. BlockSize
    BY Constants
  <2>2. BlocksNeeded(work.size) = k
    BY <1>1, <1>5, <2>1, NeededExact
  <2>3. CatBlocks(work) = 0 .. (k - 1)
    BY <1>1, <2>2 DEF CatBlocks, Laid
  <2>4. work.size = s + 0
    BY <1>2, <1>5
  <2>5. \A j \in 0 .. (k - 1) : ChunkSize(work.size, j) = ChunkSize(pay.len, j)
    BY <1>3, <1>5, <2>4
  <2> QED BY <1>1, <1>5, <2>2, <2>3, <2>5, Constants
<1>6. CASE /\ k < BlocksNeeded(pay.len) /\ work.size = k * BlockSize + ChunkSize(pay.len, k)
           /\ Ref(work, k) = 0
  <2>1. PICK c \in 1 .. BlockSize : c = ChunkSize(pay.len, k)
    BY <1>1, <1>6, ChunkInBlock
  <2>2. BlocksNeeded(work.size) = k + 1
    BY <1>1, <1>6, <2>1, NeededExact
  <2>3. CatBlocks(work) = 0 .. (k - 1)
    <3>1. ASSUME NEW j \in 0 .. ((k + 1) - 1), \A m \in 0 .. j : Ref(work, m) # 0
          PROVE  j \in 0 .. (k - 1)
      BY <1>1, <1>6, <3>1
    <3>2. ASSUME NEW j \in 0 .. (k - 1)
          PROVE  j \in 0 .. ((k + 1) - 1) /\ \A m \in 0 .. j : Ref(work, m) # 0
      BY <1>1 DEF Laid
    <3> QED BY <2>2, <3>1, <3>2 DEF CatBlocks
  <2>4. work.size = s + c /\ c \in Nat
    BY <1>2, <1>6, <2>1, Constants
  <2>5. \A j \in 0 .. (k - 1) : ChunkSize(work.size, j) = ChunkSize(pay.len, j)
    BY <1>3, <1>6, <2>4
  <2> QED BY <1>1, <1>6, <2>2, <2>3, <2>5, Constants
<1> QED BY <1>1, <1>4, <1>5, <1>6 DEF Committed

\* The pointers of an inode are enough for its size.
SizesFit == \A i \in Live : BlocksNeeded(itable[i].size) <= MaxBlocks

\* Only a write has a payload.
JobInv == pc \in {"mkfs", "rm_free"} => pay = NoPayload

\* The operation on the abstract store.
Job == [id |-> cur, pay |-> pay]
StoreStep == [Store!Next]_<<Contents, Job>>

LEMMA JobNext ==
  ASSUME JobInv, TypeInv, [Next]_vars
  PROVE  JobInv'
<1>1. CASE Mkfs \/ \E n \in Names : RmFile(n)
  <2>1. pc = "idle" /\ pay' = pay
    BY <1>1 DEF Mkfs, RmFile, Idle, Ready, locals
  <2>2. pay = NoPayload
    BY <2>1 DEF TypeInv, OpOK, AtRest, NoLocals
  <2> QED BY <2>1, <2>2 DEF JobInv
<1>2. CASE MkfsInodes \/ FreeBlock \/ UNCHANGED vars
  BY <1>2 DEF MkfsInodes, FreeBlock, vars, JobInv
<1>3. CASE \/ MkfsBitmap \/ PowerLoss \/ Boot \/ Mount \/ Unmount \/ RawWrite
           \/ CdRoot \/ CdUp \/ \E n \in Names : CdDown(n) \/ RmDir(n)
           \/ \E n \in Names, type \in {1, 2} : Create(type, n)
           \/ \E n \in Names, p \in Payload : Write(n, p, "wr_free") \/ Write(n, p, "hex_free")
  <2>1. pc' \notin {"mkfs", "rm_free"}
    BY <1>3 DEF MkfsBitmap, PowerLoss, Boot, Mount, Unmount, RawWrite, CdRoot, CdUp, CdDown,
         RmDir, Create, Write, Ready, Idle, Return
  <2> QED BY <2>1 DEF JobInv
<1>4. CASE \/ RmInode \/ CommitInode \/ HexNoMemory \/ TooLarge \/ BeginFill \/ AllocBlock
           \/ WriteData \/ AllocIndex \/ ZeroIndex \/ LinkIndex
  <2>1. pc' \notin {"mkfs", "rm_free"}
    BY <1>4 DEF RmInode, CommitInode, HexNoMemory, TooLarge, BeginFill, AllocBlock, WriteData,
         AllocIndex, ZeroIndex, LinkIndex, NextBlock, Return
  <2> QED BY <2>1 DEF JobInv
<1> QED BY <1>1, <1>2, <1>3, <1>4, Steps, Zenon

LEMMA SizesNext ==
  ASSUME SizesFit, FillInv, TypeInv, [Next]_vars
  PROVE  SizesFit'
<1>1. itable \in [Ids -> Inode] /\ FreeInode.id = 0 /\ FreeInode.size = 0
  BY DEF TypeInv, TypeOK, FreeInode
<1>2. BlocksNeeded(0) <= MaxBlocks
  BY Constants DEF BlocksNeeded
<1>3. CASE itable' = itable
  BY <1>3 DEF SizesFit, Live, BlocksNeeded
<1>4. CASE MkfsInodes
  <2>1. \A i \in Live' : i \in Live /\ itable'[i] = itable[i]
    BY <1>1, <1>4 DEF MkfsInodes, Live
  <2> QED BY <2>1 DEF SizesFit, BlocksNeeded
<1>5. CASE \E n \in Names, type \in {1, 2} : Create(type, n)
  <2>1. PICK n \in Names, type \in {1, 2}, c \in Ids :
           itable' = [itable EXCEPT ![c] = NewInode(c, type, n)]
    BY <1>5 DEF Create
  <2>2. NewInode(c, type, n).size = 0
    BY DEF NewInode, FreeInode
  <2>3. \A i \in Live' : itable'[i].size = 0 \/ (i \in Live /\ itable'[i] = itable[i])
    BY <1>1, <2>1, <2>2 DEF Live
  <2> QED BY <1>2, <2>3 DEF SizesFit, BlocksNeeded
<1>6. CASE (\E n \in Names : RmDir(n)) \/ RmInode
  <2>1. PICK c : itable' = [itable EXCEPT ![c] = FreeInode]
    BY <1>6 DEF RmDir, RmInode
  <2>2. \A i \in Live' : i \in Live /\ itable'[i] = itable[i]
    BY <1>1, <2>1 DEF Live
  <2> QED BY <2>2 DEF SizesFit, BlocksNeeded
<1>7. CASE CommitInode
  <2>1. pc = "commit" /\ itable' = [itable EXCEPT ![cur] = work]
    BY <1>7 DEF CommitInode
  <2>2. BlocksNeeded(work.size) <= MaxBlocks
    BY <2>1, CommitFacts
  <2>3. \A i \in Live' : itable'[i] = work \/ (i \in Live /\ itable'[i] = itable[i])
    BY <1>1, <2>1 DEF Live
  <2> QED BY <2>2, <2>3 DEF SizesFit, BlocksNeeded
<1>8. CASE \/ Mkfs \/ MkfsBitmap \/ PowerLoss \/ Boot \/ Mount \/ Unmount \/ RawWrite
           \/ CdRoot \/ CdUp \/ \E n \in Names : CdDown(n)
           \/ \E n \in Names : RmFile(n)
           \/ \E n \in Names, p \in Payload : Write(n, p, "wr_free") \/ Write(n, p, "hex_free")
           \/ FreeBlock \/ HexNoMemory \/ TooLarge \/ BeginFill \/ AllocBlock
           \/ WriteData \/ AllocIndex \/ ZeroIndex \/ LinkIndex \/ UNCHANGED vars
  <2>1. itable' = itable
    BY <1>8, Zenon DEF Mkfs, MkfsBitmap, PowerLoss, Boot, Mount, Unmount, RawWrite,
         CdRoot, CdUp, CdDown, RmFile, Write, FreeBlock, HexNoMemory, TooLarge, BeginFill,
         AllocBlock, WriteData, AllocIndex, ZeroIndex, LinkIndex, disk, vars
  <2> QED BY <1>3, <2>1
<1> QED BY <1>4, <1>5, <1>6, <1>7, <1>8, Steps, Zenon

LEMMA StoreInit == Init => Store!Init
<1> SUFFICES ASSUME Init PROVE Store!Init
  OBVIOUS
<1>1. \A i \in Ids : itable[i].id = 0
  BY DEF Init, FreeInode
<1>2. Contents = [i \in Ids |-> Store!Absent]
  BY <1>1 DEF Contents, Store!Absent, Store!Nothing, NoPieces
<1>3. cur = 0 /\ pay = NoPayload
  BY DEF Init, NoLocals
<1> QED BY <1>2, <1>3 DEF Store!Init, Store!NoJob

\* What cat reads of an entry is not changed by a write to a block that is not its own.
LEMMA CatKept ==
  ASSUME TypeInv, SizesFit, NEW i \in Live, ~(Busy /\ i = cur), itable'[i] = itable[i],
         NEW b, \A j \in RefSlots : R(i, j) # b,
         \A x \in Blocks : x # b => data'[x] = data[x]
  PROVE  Cat(itable[i])' = Cat(itable[i])
<1>1. PICK ino \in Inode : ino = itable[i] /\ ino = itable'[i]
  BY DEF Live, TypeInv, TypeOK
<1>2. data \in [Blocks -> Sector] /\ ino.indirect \in Blocks \cup {0} /\ ino.size \in Nat
  BY <1>1 DEF TypeInv, TypeOK, Inode
<1>3. \A j \in RefSlots : Ref(ino, j) # b
  BY <1>1 DEF R
<1>4. ino.indirect # b
  <2>1. Ref(ino, MaxBlocks) = ino.indirect
    BY Constants DEF Ref, MaxBlocks
  <2> QED BY <1>3, <2>1, SlotFacts
<1>5. PICK n \in Nat : n = BlocksNeeded(ino.size) /\ n <= MaxBlocks
  BY <1>1, <1>2, ChunkBounds DEF SizesFit
<1>6. ASSUME NEW j \in 0 .. (n - 1)
      PROVE  /\ Ref(ino, j)' = Ref(ino, j)
             /\ Ref(ino, j) # 0 => data'[Ref(ino, j)] = data[Ref(ino, j)]
  <2>1. j \in RefSlots /\ j # MaxBlocks
    BY <1>5, Constants DEF RefSlots
  <2>2. ino.indirect # 0 => data'[ino.indirect] = data[ino.indirect]
    BY <1>2, <1>4
  <2>3. Ref(ino, j)' = Ref(ino, j)
    BY <2>2 DEF Ref
  <2>4. Ref(ino, j) \in Blocks \cup {0}
    <3>1. CASE j < NDirect
      BY <2>1, <3>1, SlotFacts DEF Ref, Inode
    <3>2. CASE ~(j < NDirect)
      <4>1. j - NDirect \in 0 .. (NIndirect - 1)
        BY <2>1, <3>2, SlotFacts, Constants
      <4>2. ino.indirect # 0 => data[ino.indirect].ptrs \in [0 .. (NIndirect - 1) -> Blocks \cup {0}]
        BY <1>2 DEF Sector
      <4> QED BY <2>1, <3>2, <4>1, <4>2 DEF Ref
    <3> QED BY <3>1, <3>2
  <2> QED BY <1>3, <2>1, <2>3, <2>4
<1>7. CatBlocks(ino)' = CatBlocks(ino)
  <2>1. ASSUME NEW j \in 0 .. (n - 1)
        PROVE  (\A m \in 0 .. j : Ref(ino, m)' # 0) <=> (\A m \in 0 .. j : Ref(ino, m) # 0)
    <3>1. \A m \in 0 .. j : m \in 0 .. (n - 1)
      OBVIOUS
    <3> QED BY <1>6, <3>1
  <2>2. CatBlocks(ino) = {j \in 0 .. (n - 1) : \A m \in 0 .. j : Ref(ino, m) # 0}
    BY <1>5 DEF CatBlocks
  <2>3. CatBlocks(ino)' = {j \in 0 .. (n - 1) : \A m \in 0 .. j : Ref(ino, m)' # 0}
    BY <1>5 DEF CatBlocks, BlocksNeeded
  <2> QED BY <2>1, <2>2, <2>3
<1>8. \A j \in CatBlocks(ino) : j \in 0 .. (n - 1) /\ Ref(ino, j) # 0
  BY <1>5 DEF CatBlocks
<1>9. Cat(ino)' = Cat(ino)
  <2>1. \A j \in CatBlocks(ino) : /\ data'[Ref(ino, j)'].text = data[Ref(ino, j)].text
                                  /\ data'[Ref(ino, j)'].at = data[Ref(ino, j)].at
    BY <1>6, <1>8
  <2> QED BY <1>7, <2>1 DEF Cat, ChunkSize
<1>10. Cat(itable[i])' = Cat(ino)'
  BY <1>1
<1> QED BY <1>1, <1>9, <1>10

\* Reading depends only on the inode and the data blocks.
LEMMA CatSame ==
  ASSUME data' = data, NEW i \in Ids, itable'[i] = itable[i]
  PROVE  Cat(itable[i])' = Cat(itable[i])
  BY DEF Cat, CatBlocks, Ref, BlocksNeeded, ChunkSize

\* The content of an entry that nobody works on.
LEMMA ContentSame ==
  ASSUME NEW i \in Ids, itable'[i].id = itable[i].id,
         (Busy' /\ i = cur') <=> (Busy /\ i = cur),
         itable[i].id # 0 /\ ~(Busy /\ i = cur) => Cat(itable[i])' = Cat(itable[i])
  PROVE  Contents'[i] = Contents[i]
<1>1. CASE itable[i].id = 0
  BY <1>1 DEF Contents, NoPieces, NoPayload
<1>2. CASE itable[i].id # 0 /\ (Busy /\ i = cur)
  BY <1>2 DEF Contents, NoPieces, NoPayload
<1>3. CASE itable[i].id # 0 /\ ~(Busy /\ i = cur)
  BY <1>3 DEF Contents
<1> QED BY <1>1, <1>2, <1>3

\* Contents is a function on the slots.
LEMMA ContentFcn ==
  /\ Contents = [i \in Ids |-> Contents[i]]
  /\ Contents' = [i \in Ids |-> Contents'[i]]
  BY DEF Contents

LEMMA ContentsSame ==
  ASSUME \A i \in Ids : Contents'[i] = Contents[i]
  PROVE  Contents' = Contents
<1>1. [i \in Ids |-> Contents'[i]] = [i \in Ids |-> Contents[i]]
  OBVIOUS
<1> QED BY <1>1, ContentFcn, Zenon

\* One entry changes.
LEMMA ContentChanged ==
  ASSUME NEW c \in Ids, NEW v, Contents'[c] = v,
         \A i \in Ids \ {c} : Contents'[i] = Contents[i]
  PROVE  Contents' = [Contents EXCEPT ![c] = v]
<1>1. PICK f, g : f = Contents /\ g = Contents'
  OBVIOUS
<1>2. f = [i \in Ids |-> f[i]] /\ g = [i \in Ids |-> g[i]]
  BY <1>1, ContentFcn, Zenon
<1>3. g[c] = v /\ \A i \in Ids \ {c} : g[i] = f[i]
  BY <1>1
<1>4. g = [f EXCEPT ![c] = v]
  BY <1>2, <1>3
<1> QED BY <1>1, <1>4, Zenon

\* Commands that leave inodes and data alone, and mkfs's last step.
LEMMA StoreIdle ==
  ASSUME TypeInv, JobInv, Interruptible \subseteq {"mkfs"},
         \/ Mkfs \/ MkfsBitmap \/ PowerLoss \/ Boot \/ Mount \/ Unmount \/ RawWrite
         \/ CdRoot \/ CdUp \/ \E n \in Names : CdDown(n)
  PROVE  StoreStep
<1>1. /\ UNCHANGED <<itable, data>> /\ ~Busy /\ ~Busy' /\ cur' = cur /\ pay' = pay
  <2>1. CASE PowerLoss
    <3>1. Idle \/ Running = "mkfs"
      BY <2>1 DEF PowerLoss
    <3>2. pc \in {"idle", "mkfs"}
      BY <3>1 DEF Idle, Running
    <3>3. cur = 0 /\ pay = NoPayload
      BY <3>2 DEF TypeInv, OpOK, AtRest, NoLocals, JobInv, Busy
    <3> QED BY <2>1, <3>2, <3>3 DEF PowerLoss, Busy, disk
  <2>2. CASE MkfsBitmap
    <3>1. cur = 0 /\ pay = NoPayload
      BY <2>2 DEF MkfsBitmap, TypeInv, OpOK, JobInv, Busy
    <3> QED BY <2>2, <3>1 DEF MkfsBitmap, Return, Busy
  <2>3. CASE Mkfs \/ Boot \/ Mount \/ Unmount \/ RawWrite
    BY <2>3 DEF Mkfs, Boot, Mount, Unmount, RawWrite, Ready, Idle, Busy, locals
  <2>4. CASE CdRoot \/ CdUp \/ \E n \in Names : CdDown(n)
    BY <2>4 DEF CdRoot, CdUp, CdDown, Ready, Idle, Busy, disk, locals
  <2> QED BY <2>1, <2>2, <2>3, <2>4
<1>2. \A i \in Ids : Contents'[i] = Contents[i]
  BY <1>1, CatSame, ContentSame
<1> QED BY <1>1, <1>2, ContentsSame DEF StoreStep, Job

\* A new entry is empty.
LEMMA StoreCreate ==
  ASSUME TypeInv, \E n \in Names, type \in {1, 2} : Create(type, n)
  PROVE  StoreStep
<1>1. PICK n \in Names, type \in {1, 2}, c \in Ids :
         c \in FreeSlots /\ itable' = [itable EXCEPT ![c] = NewInode(c, type, n)]
  BY DEF Create, First
<1>2. data' = data /\ ~Busy /\ ~Busy' /\ cur' = cur /\ pay' = pay
  BY DEF Create, Ready, Idle, Busy, locals
<1>3. itable'[c] = NewInode(c, type, n) /\ \A i \in Ids \ {c} : itable'[i] = itable[i]
  BY <1>1 DEF TypeInv, TypeOK
<1>4. \A i \in Ids \ {c} : Contents'[i] = Contents[i]
  BY <1>2, <1>3, CatSame, ContentSame
<1>5. Contents[c] = Store!Absent
  BY <1>1 DEF FreeSlots, Live, Contents, Store!Absent, Store!Nothing, NoPieces
<1>6. Contents'[c] = Store!Empty
  <2>1. itable'[c].size = 0 /\ itable'[c].id # 0
    BY <1>3, Constants DEF NewInode, FreeInode
  <2>2. BlocksNeeded(0) = 0 /\ 0 .. (0 - 1) = {}
    BY Constants DEF BlocksNeeded
  <2>3. CatBlocks(itable[c])' = {}
    BY <2>1, <2>2 DEF CatBlocks, BlocksNeeded
  <2>4. Cat(itable[c])' = Store!Nothing
    BY <2>3 DEF Cat, Store!Nothing
  <2> QED BY <1>2, <2>1, <2>4 DEF Contents, Store!Empty
<1>7. Store!Create(c)
  BY <1>2, <1>4, <1>5, <1>6, ContentChanged DEF Store!Create
<1> QED BY <1>7 DEF StoreStep, Store!Next

LEMMA StoreRmDir ==
  ASSUME TypeInv, \E n \in Names : RmDir(n)
  PROVE  StoreStep
<1>1. PICK n \in Names, c \in Ids : c \in Live /\ itable' = [itable EXCEPT ![c] = FreeInode]
  BY DEF RmDir, First, Named, Children
<1>2. data' = data /\ ~Busy /\ ~Busy' /\ cur' = cur /\ pay' = pay
  BY DEF RmDir, Ready, Idle, Busy, locals
<1>3. itable'[c] = FreeInode /\ \A i \in Ids \ {c} : itable'[i] = itable[i]
  BY <1>1 DEF TypeInv, TypeOK
<1>4. \A i \in Ids \ {c} : Contents'[i] = Contents[i]
  BY <1>2, <1>3, CatSame, ContentSame
<1>5. Contents[c].is = "there"
  BY <1>1, <1>2 DEF Contents, Live
<1>6. Contents'[c] = Store!Absent
  BY <1>3 DEF FreeInode, Contents, Store!Absent, Store!Nothing, NoPieces, NoPayload
<1>7. Store!Remove(c)
  BY <1>2, <1>4, <1>5, <1>6, ContentChanged DEF Store!Remove, Store!Readable
<1> QED BY <1>7 DEF StoreStep, Store!Next

\* A removal or a write makes its entry unreadable.
LEMMA StoreBegin ==
  ASSUME TypeInv,
         \/ \E n \in Names : RmFile(n)
         \/ \E n \in Names, p \in Payload : Write(n, p, "wr_free") \/ Write(n, p, "hex_free")
  PROVE  StoreStep
<1>1. PICK c \in Ids : c \in Live /\ cur' = c
  BY DEF RmFile, Write, First, Named, FilesNamed, Children
<1>2. /\ UNCHANGED <<itable, data>> /\ pc = "idle" /\ ~Busy
      /\ pc' \in {"rm_free", "wr_free", "hex_free"}
  BY DEF RmFile, Write, Ready, Idle, Busy, disk
<1>3. cur = 0 /\ pay = NoPayload /\ Busy'
  BY <1>2 DEF TypeInv, OpOK, AtRest, NoLocals, Busy
<1>4. PICK p \in Payload \cup {NoPayload} : pay' = p
  BY <1>3 DEF RmFile, Write
<1>5. \A i \in Ids \ {c} : Contents'[i] = Contents[i]
  BY <1>1, <1>2, <1>3, CatSame, ContentSame
<1>6. Contents[c].is = "there"
  BY <1>1, <1>2 DEF Contents, Live
<1>7. Contents'[c] = Store!Torn
  BY <1>1, <1>2, <1>3 DEF Contents, Live, Store!Torn, Store!Nothing, NoPieces, NoPayload
<1>8. Store!Begin(c, p)
  BY <1>1, <1>3, <1>4, <1>5, <1>6, <1>7, ContentChanged DEF Store!Begin, Store!Readable, Store!NoJob
<1> QED BY <1>8 DEF StoreStep, Store!Next

\* Giving blocks back and taking new ones changes no content.
LEMMA StoreFill ==
  ASSUME TypeInv, SizesFit, BlockInv,
         \/ FreeBlock \/ BeginFill \/ AllocBlock \/ AllocIndex
         \/ WriteData \/ ZeroIndex \/ LinkIndex
  PROVE  StoreStep
<1>1. UNCHANGED <<itable, cur, pay>> /\ Busy /\ Busy'
  <2>1. UNCHANGED <<itable, cur, pay>>
    BY DEF FreeBlock, BeginFill, AllocBlock, AllocIndex, WriteData, ZeroIndex, LinkIndex, disk
  <2>2. Busy
    BY DEF FreeBlock, Freeing, BeginFill, AllocBlock, AllocIndex, WriteData, ZeroIndex,
           LinkIndex, Busy
  <2>3. Busy'
    BY <2>2 DEF FreeBlock, BeginFill, AllocBlock, AllocIndex, WriteData, ZeroIndex,
           LinkIndex, Busy, NextBlock
  <2> QED BY <2>1, <2>2, <2>3
<1>2. \A i \in Live : i # cur => Cat(itable[i])' = Cat(itable[i])
  <2>1. CASE data' = data
    BY <1>1, <2>1, CatSame DEF Live
  <2>2. CASE WriteData
    <3>1. \A i \in Live, j \in RefSlots : R(i, j) # blk
      BY <2>2 DEF WriteData, BlockInv, Pending
    <3>2. \A x \in Blocks : x # blk => data'[x] = data[x]
      BY <2>2 DEF WriteData, TypeInv, TypeOK
    <3> QED BY <1>1, <3>1, <3>2, CatKept
  <2>3. CASE ZeroIndex \/ LinkIndex
    <3>1. /\ \A x \in Blocks : x # work.indirect => data'[x] = data[x]
          /\ R(cur, MaxBlocks) = work.indirect /\ cur \in Live /\ work.indirect # 0
      BY <2>3, IndexBlock
    <3>2. \A i \in Live, j \in RefSlots : i # cur => R(i, j) # work.indirect
      BY <3>1, SlotFacts DEF BlockInv, Distinct
    <3> QED BY <1>1, <3>1, <3>2, CatKept
  <2> QED BY <2>1, <2>2, <2>3 DEF FreeBlock, BeginFill, AllocBlock, AllocIndex, disk
<1>3. \A i \in Ids : Contents'[i] = Contents[i]
  BY <1>1, <1>2, ContentSame DEF Live
<1> QED BY <1>1, <1>3, ContentsSame DEF StoreStep, Job

\* mkfs clears the entries of one sector.
LEMMA StoreFormat ==
  ASSUME TypeInv, JobInv, MkfsInodes
  PROVE  StoreStep
<1>1. PICK S \in SUBSET Ids : S = SlotsIn(k)
  BY DEF SlotsIn
<1>2. /\ itable' = [i \in Ids |-> IF i \in S THEN FreeInode ELSE itable[i]]
      /\ UNCHANGED <<data, cur, pay>> /\ pc = "mkfs" /\ ~Busy /\ ~Busy'
  BY <1>1 DEF MkfsInodes, Busy
<1>3. cur = 0 /\ pay = NoPayload
  BY <1>2 DEF TypeInv, OpOK, JobInv
<1>4. \A i \in S : Contents'[i] = Store!Absent
  BY <1>2 DEF FreeInode, Contents, Store!Absent, Store!Nothing, NoPieces, NoPayload
<1>5. \A i \in Ids \ S : Contents'[i] = Contents[i]
  BY <1>2, CatSame, ContentSame
<1>6. Contents' = [i \in Ids |-> IF i \in S THEN Store!Absent ELSE Contents[i]]
  <2>1. PICK f, g : f = Contents /\ g = Contents'
    OBVIOUS
  <2>2. g = [i \in Ids |-> g[i]]
    BY <2>1, ContentFcn, Zenon
  <2>3. \A i \in Ids : g[i] = IF i \in S THEN Store!Absent ELSE f[i]
    BY <1>4, <1>5, <2>1
  <2>4. g = [i \in Ids |-> IF i \in S THEN Store!Absent ELSE f[i]]
    BY <2>2, <2>3, Zenon
  <2> QED BY <2>1, <2>4, Zenon
<1>7. Store!Format(S)
  BY <1>2, <1>3, <1>6 DEF Store!Format, Store!NoJob
<1> QED BY <1>7 DEF StoreStep, Store!Next

\* The inode of a removed file goes last.
LEMMA StoreRmInode ==
  ASSUME TypeInv, JobInv, RmInode
  PROVE  StoreStep
<1>1. PICK c \in Ids : c \in Live /\ cur = c
  BY DEF RmInode, TypeInv, OpOK, Busy, Live
<1>2. /\ itable' = [itable EXCEPT ![c] = FreeInode] /\ data' = data /\ Busy /\ ~Busy'
      /\ cur' = 0 /\ pay' = NoPayload /\ pay = NoPayload
  BY <1>1 DEF RmInode, Return, Busy, JobInv
<1>3. itable'[c] = FreeInode /\ \A i \in Ids \ {c} : itable'[i] = itable[i]
  BY <1>2 DEF TypeInv, TypeOK
<1>4. \A i \in Ids \ {c} : Contents'[i] = Contents[i]
  BY <1>1, <1>2, <1>3, CatSame, ContentSame
<1>5. Contents[c].is # "there"
  BY <1>1, <1>2 DEF Contents, Live
<1>6. Contents'[c] = Store!Absent
  BY <1>3 DEF FreeInode, Contents, Store!Absent, Store!Nothing, NoPieces, NoPayload
<1>7. Store!Remove(c)
  BY <1>1, <1>2, <1>4, <1>5, <1>6, ContentChanged DEF Store!Remove, Store!Readable, Store!NoJob
<1> QED BY <1>7 DEF StoreStep, Store!Next

\* The new inode shows the first k pieces of the payload.
LEMMA StoreCommit ==
  ASSUME TypeInv, FillInv, CommitInode
  PROVE  StoreStep
<1>1. PICK c \in Ids : c \in Live /\ cur = c
  BY DEF CommitInode, TypeInv, OpOK, Busy, Live
<1>2. /\ itable' = [itable EXCEPT ![c] = work] /\ data' = data /\ Busy /\ ~Busy'
      /\ cur' = 0 /\ pay' = NoPayload /\ pay \in Payload /\ pc = "commit"
      /\ work.id = c /\ c # 0
  BY <1>1, Constants DEF CommitInode, Return, Busy, TypeInv, OpOK, Writing
<1>3. itable'[c] = work /\ \A i \in Ids \ {c} : itable'[i] = itable[i]
  BY <1>2 DEF TypeInv, TypeOK
<1>4. \A i \in Ids \ {c} : Contents'[i] = Contents[i]
  BY <1>1, <1>2, <1>3, CatSame, ContentSame
<1>5. PICK m \in 0 .. BlocksNeeded(pay.len) : m = k
  <2>1. BlocksNeeded(pay.len) \in Nat
    BY <1>2, ChunkBounds, Constants DEF Payload
  <2> QED BY <1>2, <2>1, CommitFacts
<1>6. Cat(work) = [j \in 0 .. (m - 1) |-> [text |-> pay.text, at |-> j,
                                           len |-> ChunkSize(pay.len, j)]]
  <2>1. CatBlocks(work) = 0 .. (m - 1)
    BY <1>2, <1>5, CommitFacts
  <2>2. \A j \in 0 .. (m - 1) : /\ data[Ref(work, j)].text = pay.text
                                /\ data[Ref(work, j)].at = j
                                /\ ChunkSize(work.size, j) = ChunkSize(pay.len, j)
    BY <1>2, <1>5, CommitFacts DEF FillInv, Laid
  <2> QED BY <2>1, <2>2 DEF Cat
<1>7. Cat(itable[c])' = Cat(work)
  BY <1>2, <1>3 DEF Cat, CatBlocks, Ref, BlocksNeeded, ChunkSize
<1>8. Contents'[c] = [is |-> "there", pieces |-> Cat(work)]
  BY <1>2, <1>3, <1>7 DEF Contents
<1>9. Store!EndWrite(m)
  BY <1>1, <1>2, <1>4, <1>6, <1>8, ContentChanged DEF Store!EndWrite, Store!NoJob, Store!FirstPart
<1>10. [id |-> cur, pay |-> pay] # Store!NoJob
  BY <1>1, <1>2 DEF Store!NoJob
<1> QED BY <1>5, <1>9, <1>10 DEF StoreStep, Store!Next

\* With files no larger than the inode can hold, enough heap for writehex and no power
\* loss during rm or write, RexFS is a FileStore: cat shows of a file what was last
\* written to it, or a first part of that, whatever happened to other files.
THEOREM RexFSIsAFileStore ==
  ASSUME NoMemory = FALSE, Interruptible \subseteq {"mkfs"},
         \A n \in PayloadLens : BlocksNeeded(n) <= MaxBlocks
  PROVE  Spec => ImplementsFileStore
<1>1. Init => FillInv /\ SizeInv /\ JobInv /\ SizesFit
  <2> SUFFICES ASSUME Init PROVE FillInv /\ SizeInv /\ JobInv /\ SizesFit
    OBVIOUS
  <2>1. pc = "off" /\ Live = {}
    BY DEF Init, Live, FreeInode
  <2> QED BY <2>1 DEF FillInv, SizeInv, JobInv, SizesFit, Filling
<1>2. ASSUME TypeInv, JobInv, SizesFit, FillInv, BlockInv, [Next]_vars PROVE StoreStep
  <2>1. ~HexNoMemory /\ ~TooLarge
    BY <1>2, NothingFails
  <2>2. CASE UNCHANGED vars
    <3>1. UNCHANGED <<itable, data, cur, pay>> /\ (Busy' <=> Busy)
      BY <2>2 DEF vars, Busy
    <3>2. \A i \in Ids : Contents'[i] = Contents[i]
      BY <3>1, CatSame, ContentSame
    <3> QED BY <3>1, <3>2, ContentsSame DEF StoreStep, Job
  <2> QED BY <1>2, <2>1, <2>2, Steps, StoreIdle, StoreCreate, StoreRmDir, StoreBegin, StoreFill,
             StoreFormat, StoreRmInode, StoreCommit, Zenon
<1>3. Spec => []BlockInv
  BY BlockInvariant
<1>4. ImplementsFileStore <=> Store!Init /\ [][Store!Next]_<<Contents, Job>>
  BY DEF ImplementsFileStore, Store!Spec, Job
<1>5. StoreStep <=> [Store!Next]_<<Contents, Job>>
  BY DEF StoreStep
<1> QED BY <1>1, <1>2, <1>3, <1>4, <1>5, StoreInit, FillNext, SizeNext, JobNext, SizesNext,
           TypeInvariant, PTL DEF Spec
=============================================================================
