------------------------------- MODULE RexFS -------------------------------
(***************************************************************************)
(* RexFS, the disk file system of NewrexOS (kernel/rexfs.c).               *)
(*                                                                         *)
(* The disk is sector 1 (superblock), sectors 2-9 (inode table), sector 10 *)
(* (block bitmap) and the data blocks from LBA 11 on.  Every operation     *)
(* reads sectors into the stack, changes them and writes them back; there  *)
(* is no cache and no journal.  The shell runs one operation at a time, so *)
(* operations do not interleave with each other, but the machine can lose  *)
(* power between any two sector writes of one operation.  An operation     *)
(* with a single write is therefore one action, and mkfs, rm, write and    *)
(* writehex are one action per write.                                      *)
(***************************************************************************)
EXTENDS Integers, FiniteSets

CONSTANTS
  NInodes,         \* REXFS_MAX_INODES (64)
  SlotsPerSector,  \* inodes in a sector of the table (8)
  NDirect,         \* direct pointers of an inode (10)
  NIndirect,       \* pointers in the indirect block (256)
  BlockSize,       \* REXFS_BLOCK_SIZE (512)
  TotalBlocks,     \* sectors of the disk, as ATA IDENTIFY reports them
  Names,           \* names a user may type
  Stored(_),       \* the name kept on disk: the first 27 characters
  NoName,
  Texts,           \* payloads, told apart only by identity
  NoText,
  PayloadLens,     \* lengths, in bytes, of the payloads that get written
  Interruptible,   \* operations during which a run admits a power loss
  NoMemory         \* whether the kernel heap may be exhausted

DataOffset == 11
Ids        == 1 .. NInodes
Blocks     == DataOffset .. (TotalBlocks - 1)
MaxBlocks  == NDirect + NIndirect
StoredNames == {Stored(n) : n \in Names}

ASSUME RexFSAssumption ==
  /\ NInodes \in Nat \ {0} /\ SlotsPerSector \in Nat \ {0}
  /\ NDirect \in Nat \ {0} /\ NIndirect \in Nat /\ BlockSize \in Nat \ {0}
  /\ TotalBlocks \in Nat /\ TotalBlocks > DataOffset
  /\ PayloadLens \subseteq Nat
  /\ NoName \notin StoredNames /\ NoText \notin Texts
  /\ Interruptible \subseteq {"mkfs", "rm", "write"}
  /\ NoMemory \in BOOLEAN

(***************************************************************************)
(* A power loss, or a write that stops half-way, can leave a text block    *)
(* where an inode expects its index block, and the code would then use the *)
(* text as block numbers.  Runs that admit such faults keep to payloads    *)
(* that need no index block, or are too large to be stored.  The shell can *)
(* produce no other: its command line is 256 bytes, half a block.          *)
(***************************************************************************)
ASSUME FaultsAssumption ==
  (\/ NoMemory
   \/ Interruptible \cap {"rm", "write"} # {}
   \/ \E n \in PayloadLens : n > MaxBlocks * BlockSize)
     => \A n \in PayloadLens : \/ n <= NDirect * BlockSize
                               \/ n > MaxBlocks * BlockSize

VARIABLES
  \* on disk
  sb,        \* superblock: its signature (magic, version) and clean_shutdown
  itable,    \* inode table
  bitmap,    \* blocks whose bit is set
  data,      \* contents of the data blocks
  \* in memory
  mounted,   \* fs_mounted
  cwd,       \* current_dir_id
  \* the operation in progress: where it stands and its local variables
  pc,
  cur,       \* slot of the inode it works on (found_sector, found_idx)
  work,      \* its copy of that inode
  pay,       \* the payload it writes
  k,         \* its loop counter
  blk,       \* block_lba, allocated but not yet recorded
  \* history of formats and power losses; no operation looks at it
  reformatted,  \* mkfs was typed since the file system was mounted
  adrift,       \* the last mkfs was typed below the root, or lost power
  leaky         \* since the last whole mkfs, one lost power, or a write past its freeing

disk   == <<sb, itable, bitmap, data>>
locals == <<cur, work, pay, k, blk>>
past   == <<reformatted, adrift, leaky>>
vars   == <<sb, itable, bitmap, data, mounted, cwd, pc, cur, work, pay, k, blk,
            reformatted, adrift, leaky>>
-----------------------------------------------------------------------------
(* The on-disk records. *)

\* "rexfs": REXFS_MAGIC and REXFS_VERSION; "other": the magic, another version
Superblock == [sig : {"none", "other", "rexfs"}, clean : {0, 1}]

NoBlocks == [j \in 0 .. (NDirect - 1) |-> 0]
NoPtrs   == [j \in 0 .. (NIndirect - 1) |-> 0]

\* A slot is free when its id is 0; creation clears the rest of the slot.
FreeInode == [id |-> 0, type |-> 0, parent |-> 0, name |-> NoName,
              size |-> 0, direct |-> NoBlocks, indirect |-> 0]

\* Mutant: the slot number is off by one.
NewInodeOffByOne(i, type, name) ==
  [FreeInode EXCEPT !.id = i + 1, !.type = type, !.parent = cwd, !.name = Stored(name)]

NewInode(i, type, name) ==
  [FreeInode EXCEPT !.id = i, !.type = type, !.parent = cwd, !.name = Stored(name)]

Inode == [id : 0 .. NInodes, type : {0, 1, 2}, parent : 0 .. NInodes,
          name : StoredNames \cup {NoName}, size : Nat,
          direct : [0 .. (NDirect - 1) -> Blocks \cup {0}],
          indirect : Blocks \cup {0}]

\* A sector holds either part of a payload (the bytes from block `at' on) or an
\* index of block numbers.
Payload   == [text : Texts, len : PayloadLens]
NoPayload == [text |-> NoText, len |-> 0]

Sector == [text : Texts \cup {NoText}, at : Nat, len : Nat,
           ptrs : [0 .. (NIndirect - 1) -> Blocks \cup {0}]]

ZeroSector == [text |-> NoText, at |-> 0, len |-> 0, ptrs |-> NoPtrs]

\* chunk_size of block j of a file of n bytes
ChunkSize(n, j) == IF n - j * BlockSize > BlockSize THEN BlockSize
                                                    ELSE n - j * BlockSize

\* Mutant: bytes_written is not advanced, every block gets the first chunk.
ChunkSectorFirst(p, j) ==
  [ZeroSector EXCEPT !.text = p.text, !.at = 0, !.len = ChunkSize(p.len, j)]

ChunkSector(p, j) ==
  [ZeroSector EXCEPT !.text = p.text, !.at = j, !.len = ChunkSize(p.len, j)]

BlocksNeeded(n) == (n + BlockSize - 1) \div BlockSize

\* Every block an inode points to, in the order in which rm and write free
\* them: the direct ones, the ones the index block names, the index block.
RefSlots == 0 .. MaxBlocks

Ref(ino, j) ==
  IF j < NDirect THEN ino.direct[j]
  ELSE IF j = MaxBlocks \/ ino.indirect = 0 THEN ino.indirect
  ELSE data[ino.indirect].ptrs[j - NDirect]
-----------------------------------------------------------------------------
(* Searches of the inode table and of the bitmap: the first match wins. *)

First(x, S) == x \in S /\ \A y \in S : x <= y

Live == {i \in Ids : itable[i].id # 0}

Children(d) == {i \in Live : itable[i].parent = d}

Named(name) == {i \in Children(cwd) : itable[i].name = name}

FilesNamed(name) == {i \in Named(name) : itable[i].type = 1}

DirsNamed(name) == {i \in Named(name) : itable[i].type = 2}

\* Mutant: a slot is taken for free when its size is 0.
FreeSlotsBySize == {i \in Ids : itable[i].size = 0}

FreeSlots == Ids \ Live

FreeBlocks == Blocks \ bitmap
-----------------------------------------------------------------------------
(* The start and the end of an operation. *)

Idle == pc = "idle"

Ready == Idle /\ mounted

NoLocals == /\ cur = 0 /\ work = FreeInode /\ pay = NoPayload
            /\ k = 0 /\ blk = 0

Return == /\ pc' = "idle"
          /\ cur' = 0 /\ work' = FreeInode /\ pay' = NoPayload
          /\ k' = 0 /\ blk' = 0

Init ==
  /\ sb = [sig |-> "none", clean |-> 0]
  /\ itable = [i \in Ids |-> FreeInode]
  /\ bitmap = {}
  /\ data = [b \in Blocks |-> ZeroSector]
  /\ mounted = FALSE /\ cwd = 0
  /\ pc = "off" /\ NoLocals
  /\ reformatted = FALSE /\ adrift = FALSE /\ leaky = FALSE
-----------------------------------------------------------------------------
(* mount, unmount, boot and power loss. *)

\* Mutant: mount does not mark the disk dirty.
MountDiskClean ==
  /\ sb.sig = "rexfs" /\ UNCHANGED sb
  /\ mounted' = TRUE /\ cwd' = 0 /\ reformatted' = FALSE

MountDisk ==
  /\ sb.sig = "rexfs"
  /\ sb' = [sb EXCEPT !.clean = 0]
  /\ mounted' = TRUE /\ cwd' = 0 /\ reformatted' = FALSE

\* rexfs_mount
Mount == /\ Idle /\ MountDisk
         /\ UNCHANGED <<itable, bitmap, data, pc, locals, adrift, leaky>>

\* rexfs_unmount
Unmount == /\ Ready
           /\ sb' = [sb EXCEPT !.clean = 1]
           /\ mounted' = FALSE /\ cwd' = 0 /\ reformatted' = FALSE
           /\ UNCHANGED <<itable, bitmap, data, pc, locals, adrift, leaky>>

\* rexfs_init: a disk with the signature is mounted at boot.
Boot ==
  /\ pc = "off" /\ pc' = "idle"
  /\ \/ MountDisk
     \/ sb.sig # "rexfs" /\ UNCHANGED <<sb, mounted, cwd, reformatted>>
  /\ UNCHANGED <<itable, bitmap, data, locals, adrift, leaky>>

\* rm, write and writehex first free the blocks that the file has.
Freeing == pc \in {"rm_free", "wr_free", "hex_free"}

\* The operation a power loss would interrupt.
Running == CASE pc = "mkfs" -> "mkfs"
             [] pc = "rm_free" -> "rm"
             [] OTHER -> "write"

\* The machine stops: between two commands, or in the middle of one.
PowerLoss ==
  /\ pc # "off"
  /\ Idle \/ Running \in Interruptible
  /\ pc' = "off" /\ mounted' = FALSE /\ cwd' = 0
  /\ cur' = 0 /\ work' = FreeInode /\ pay' = NoPayload /\ k' = 0 /\ blk' = 0
  /\ reformatted' = FALSE /\ adrift' = (adrift \/ pc = "mkfs")
  /\ leaky' = (leaky \/ ~(Idle \/ Freeing))
  /\ UNCHANGED disk

\* The shell's `write' without a mounted file system puts the text into
\* sector 1: the superblock is gone, or, if the text starts with the magic
\* bytes, it is left with a version no text can spell.
RawWrite ==
  /\ Idle /\ ~mounted
  /\ \E s \in {"none", "other"} : sb' = [sig |-> s, clean |-> 0]
  /\ UNCHANGED <<itable, bitmap, data, mounted, cwd, pc, locals, past>>
-----------------------------------------------------------------------------
(* rexfs_mkfs writes the superblock, the inode table sector by sector, and *)
(* last the bitmap.  It does not ask whether a file system is mounted and  *)
(* leaves fs_mounted and current_dir_id alone.                             *)

Mkfs ==
  /\ Idle
  /\ sb' = [sig |-> "rexfs", clean |-> 1]
  /\ pc' = "mkfs"
  /\ reformatted' = mounted /\ adrift' = (cwd # 0)
  /\ UNCHANGED <<itable, bitmap, data, mounted, cwd, locals, leaky>>

InodeSectors == (NInodes + SlotsPerSector - 1) \div SlotsPerSector

SlotsIn(s) == {i \in Ids : (i - 1) \div SlotsPerSector = s}

MkfsInodes ==
  /\ pc = "mkfs" /\ k < InodeSectors
  /\ itable' = [i \in Ids |-> IF i \in SlotsIn(k) THEN FreeInode ELSE itable[i]]
  /\ k' = k + 1
  /\ UNCHANGED <<sb, bitmap, data, mounted, cwd, pc, cur, work, pay, blk, past>>

MkfsBitmap ==
  /\ pc = "mkfs" /\ k = InodeSectors
  /\ bitmap' = {} /\ leaky' = FALSE /\ Return
  /\ UNCHANGED <<sb, itable, data, mounted, cwd, reformatted, adrift>>
-----------------------------------------------------------------------------
(* Names: touch, mkdir, cd and the part of rm that checks. *)

\* Mutant: the check for the name looks at files only.
CreateFilesChecked(type, name) ==
  /\ Ready /\ FilesNamed(name) = {}
  /\ \E i \in Ids :
       /\ First(i, FreeSlots)
       /\ itable' = [itable EXCEPT ![i] = NewInode(i, type, name)]
  /\ UNCHANGED <<sb, bitmap, data, mounted, cwd, pc, locals, past>>

\* rexfs_mkdir (type 2) and rexfs_touch (type 1)
Create(type, name) ==
  /\ Ready /\ Named(name) = {}
  /\ \E i \in Ids :
       /\ First(i, FreeSlots)
       /\ itable' = [itable EXCEPT ![i] = NewInode(i, type, name)]
  /\ UNCHANGED <<sb, bitmap, data, mounted, cwd, pc, locals, past>>

\* rexfs_cd to the root, to the parent and to a subdirectory
CdRoot == /\ Ready /\ cwd' = 0
          /\ UNCHANGED <<disk, mounted, pc, locals, past>>

CdUp == /\ Ready /\ cwd \in Live
        /\ cwd' = itable[cwd].parent
        /\ UNCHANGED <<disk, mounted, pc, locals, past>>

CdDown(name) ==
  /\ Ready
  /\ \E i \in Ids : First(i, DirsNamed(name)) /\ cwd' = i
  /\ UNCHANGED <<disk, mounted, pc, locals, past>>

\* Mutant: the directory need not be empty.
RmDirNotEmpty(name) ==
  /\ Ready
  /\ \E i \in Ids :
       /\ First(i, Named(name)) /\ itable[i].type = 2
       /\ itable' = [itable EXCEPT ![i] = FreeInode]
  /\ UNCHANGED <<sb, bitmap, data, mounted, cwd, pc, locals, past>>

\* rexfs_rm of a directory, which must be empty
RmDir(name) ==
  /\ Ready
  /\ \E i \in Ids :
       /\ First(i, Named(name)) /\ itable[i].type = 2 /\ Children(i) = {}
       /\ itable' = [itable EXCEPT ![i] = FreeInode]
  /\ UNCHANGED <<sb, bitmap, data, mounted, cwd, pc, locals, past>>

\* rexfs_rm of a file first frees its blocks
RmFile(name) ==
  /\ Ready
  /\ \E i \in Ids :
       /\ First(i, Named(name)) /\ itable[i].type # 2
       /\ pc' = "rm_free" /\ cur' = i /\ work' = itable[i]
  /\ UNCHANGED <<disk, mounted, cwd, pay, k, blk, past>>
-----------------------------------------------------------------------------
(* Freeing the blocks of a file, one bitmap write each. *)

\* Mutant: free_block returns early for every block of the data area.
FreeBlockInverted ==
  /\ Freeing /\ k <= MaxBlocks
  /\ k' = k + 1
  /\ UNCHANGED <<disk, mounted, cwd, pc, cur, work, pay, blk, past>>

\* Mutant: the loop does not advance.
FreeBlockStuck ==
  /\ Freeing /\ k <= MaxBlocks
  /\ bitmap' = bitmap \ {Ref(work, k)}
  /\ UNCHANGED <<sb, itable, data, mounted, cwd, pc, cur, work, pay, k, blk, past>>

\* free_block, for the next pointer of the inode's copy
FreeBlock ==
  /\ Freeing /\ k <= MaxBlocks
  /\ bitmap' = bitmap \ {Ref(work, k)}
  /\ k' = k + 1
  /\ UNCHANGED <<sb, itable, data, mounted, cwd, pc, cur, work, pay, blk, past>>

RmInode ==
  /\ pc = "rm_free" /\ k > MaxBlocks
  /\ itable' = [itable EXCEPT ![cur] = FreeInode]
  /\ Return
  /\ UNCHANGED <<sb, bitmap, data, mounted, cwd, past>>
-----------------------------------------------------------------------------
(* rexfs_write and rexfs_writehex: free the old blocks, write the new ones *)
(* and only then the inode.                                                *)

Write(name, p, start) ==
  /\ Ready
  /\ \E i \in Ids :
       /\ First(i, FilesNamed(name))
       /\ cur' = i /\ work' = itable[i]
  /\ pc' = start /\ pay' = p
  /\ UNCHANGED <<disk, mounted, cwd, k, blk, past>>

\* writehex gives up when it gets no buffer for the bytes
HexNoMemory ==
  /\ pc = "hex_free" /\ k > MaxBlocks /\ NoMemory
  /\ Return
  /\ UNCHANGED <<disk, mounted, cwd, past>>

TooLarge ==
  /\ pc \in {"wr_free", "hex_free"} /\ k > MaxBlocks
  /\ BlocksNeeded(pay.len) > MaxBlocks
  /\ Return
  /\ UNCHANGED <<disk, mounted, cwd, past>>

\* The blocks are free; the inode's copy forgets them.  work.size counts
\* bytes_written from here on; an empty payload needs no block.
BeginFill ==
  /\ pc \in {"wr_free", "hex_free"} /\ k > MaxBlocks
  /\ BlocksNeeded(pay.len) <= MaxBlocks
  /\ work' = [work EXCEPT !.direct = NoBlocks, !.indirect = 0, !.size = 0]
  /\ pc' = IF pay.len = 0 THEN "commit" ELSE "alloc"
  /\ k' = 0
  /\ UNCHANGED <<disk, mounted, cwd, cur, pay, blk, past>>

\* Mutant: the last block of the disk is never given out.
AllocBlockOffByOne ==
  /\ pc = "alloc"
  /\ \/ \E b \in Blocks :
          /\ First(b, FreeBlocks) /\ b < TotalBlocks - 1
          /\ bitmap' = bitmap \cup {b} /\ blk' = b /\ pc' = "data"
     \/ /\ FreeBlocks \subseteq {TotalBlocks - 1}
        /\ pc' = "commit" /\ UNCHANGED <<bitmap, blk>>
  /\ UNCHANGED <<sb, itable, data, mounted, cwd, cur, work, pay, k, past>>

\* allocate_free_block for block k of the file
AllocBlock ==
  /\ pc = "alloc"
  /\ \/ \E b \in Blocks :
          /\ First(b, FreeBlocks)
          /\ bitmap' = bitmap \cup {b} /\ blk' = b /\ pc' = "data"
     \/ /\ FreeBlocks = {}
        /\ pc' = "commit" /\ UNCHANGED <<bitmap, blk>>
  /\ UNCHANGED <<sb, itable, data, mounted, cwd, cur, work, pay, k, past>>

\* The loop goes on with block k + 1 or is done.
NextBlock ==
  /\ k' = k + 1 /\ blk' = 0
  /\ pc' = IF k + 1 < BlocksNeeded(pay.len) THEN "alloc" ELSE "commit"

\* The chunk is written; a direct pointer is recorded in the inode's copy, a
\* later one waits for the index block.
WriteData ==
  /\ pc = "data"
  /\ data' = [data EXCEPT ![blk] = ChunkSector(pay, k)]
  /\ \/ /\ k < NDirect
        /\ work' = [work EXCEPT !.size = @ + ChunkSize(pay.len, k), !.direct[k] = blk]
        /\ NextBlock
     \/ /\ k >= NDirect
        /\ work' = [work EXCEPT !.size = @ + ChunkSize(pay.len, k)]
        /\ pc' = IF work.indirect = 0 THEN "ind_alloc" ELSE "ind_link"
        /\ UNCHANGED <<k, blk>>
  /\ UNCHANGED <<sb, itable, bitmap, mounted, cwd, cur, pay, past>>

\* allocate_free_block for the index block.  When the disk is full the block
\* just written stays allocated and its bytes stay counted.
AllocIndex ==
  /\ pc = "ind_alloc"
  /\ \/ \E b \in Blocks :
          /\ First(b, FreeBlocks)
          /\ bitmap' = bitmap \cup {b}
          /\ work' = [work EXCEPT !.indirect = b] /\ pc' = "ind_zero"
     \/ /\ FreeBlocks = {}
        /\ pc' = "commit" /\ UNCHANGED <<bitmap, work>>
  /\ UNCHANGED <<sb, itable, data, mounted, cwd, cur, pay, k, blk, past>>

\* Mutant: a fresh index block is not zeroed.
ZeroIndexSkipped ==
  /\ pc = "ind_zero" /\ pc' = "ind_link"
  /\ UNCHANGED <<disk, mounted, cwd, cur, work, pay, k, blk, past>>

ZeroIndex ==
  /\ pc = "ind_zero"
  /\ data' = [data EXCEPT ![work.indirect] = ZeroSector]
  /\ pc' = "ind_link"
  /\ UNCHANGED <<sb, itable, bitmap, mounted, cwd, cur, work, pay, k, blk, past>>

LinkIndex ==
  /\ pc = "ind_link"
  /\ data' = [data EXCEPT ![work.indirect].ptrs[k - NDirect] = blk]
  /\ NextBlock
  /\ UNCHANGED <<sb, itable, bitmap, mounted, cwd, cur, work, pay, past>>

CommitInode ==
  /\ pc = "commit"
  /\ itable' = [itable EXCEPT ![cur] = work]
  /\ Return
  /\ UNCHANGED <<sb, bitmap, data, mounted, cwd, past>>
-----------------------------------------------------------------------------
\* The next step of the operation in progress.
OpStep ==
  \/ MkfsInodes \/ MkfsBitmap
  \/ FreeBlock \/ RmInode
  \/ HexNoMemory \/ TooLarge \/ BeginFill
  \/ AllocBlock \/ WriteData \/ AllocIndex \/ ZeroIndex \/ LinkIndex
  \/ CommitInode

\* A command of the shell.
Command ==
  \/ Mount \/ Unmount \/ RawWrite \/ Mkfs
  \/ CdRoot \/ CdUp
  \/ \E n \in Names :
       \/ CdDown(n) \/ RmDir(n) \/ RmFile(n)
       \/ \E type \in {1, 2} : Create(type, n)
       \/ \E p \in Payload : Write(n, p, "wr_free") \/ Write(n, p, "hex_free")

Next == Boot \/ PowerLoss \/ Command \/ OpStep

\* An operation runs on the kernel's only thread and waits for nothing but the
\* disk, so once started it takes its next step.
Spec == Init /\ [][Next]_vars /\ WF_vars(OpStep)
-----------------------------------------------------------------------------
(* What the read-only commands print. *)

\* rexfs_cat (and the loader of rexfs_exec) reads block after block and stops
\* at the first one that is missing.
CatBlocks(ino) ==
  {j \in 0 .. (BlocksNeeded(ino.size) - 1) : \A m \in 0 .. j : Ref(ino, m) # 0}

Cat(ino) ==
  [j \in CatBlocks(ino) |->
     [text |-> data[Ref(ino, j)].text, at |-> data[Ref(ino, j)].at,
      len |-> ChunkSize(ino.size, j)]]

\* rexfs_pwd walks up at most 64 parents; an id that is in no slot ends the walk.
PwdWalk ==
  LET up[n \in 0 .. NInodes] ==
        IF n = 0 THEN cwd
        ELSE IF up[n - 1] \in Live THEN itable[up[n - 1]].parent
        ELSE 0
  IN up
-----------------------------------------------------------------------------
(* Properties. *)

Phases == {"off", "idle", "mkfs", "rm_free", "wr_free", "hex_free", "alloc",
           "data", "ind_alloc", "ind_zero", "ind_link", "commit"}

\* The superblock, the inode table, the bitmap and the locals of the running
\* operation have the types of rexfs.h, and an inode sits in the slot of its id.
TypeOK ==
  /\ sb \in Superblock
  /\ itable \in [Ids -> Inode] /\ \A i \in Ids : itable[i].id \in {0, i}
  /\ bitmap \subseteq Blocks /\ data \in [Blocks -> Sector]
  /\ mounted \in BOOLEAN /\ cwd \in 0 .. NInodes
  /\ pc \in Phases /\ cur \in 0 .. NInodes /\ work \in Inode
  /\ pay \in Payload \cup {NoPayload} /\ k \in Nat /\ blk \in Blocks \cup {0}
  /\ reformatted \in BOOLEAN /\ adrift \in BOOLEAN /\ leaky \in BOOLEAN

AtRest == pc \in {"idle", "off"}

Owned == {o \in Live \X RefSlots : Ref(itable[o[1]], o[2]) # 0}
BlockOf(o) == Ref(itable[o[1]], o[2])

\* Between operations every block an inode points to is marked in the bitmap and
\* no block has two owners: free_block and allocate_free_block, called over and
\* over by rm, write and writehex, never give a block in use to a second file.
BlocksExclusive ==
  AtRest => \A o \in Owned : /\ BlockOf(o) \in bitmap
                             /\ \A p \in Owned : BlockOf(p) = BlockOf(o) => p = o

\* Between operations every block marked in the bitmap has an owner: overwriting
\* and removing a file gives all its blocks back.
NoLeak == AtRest => \A b \in bitmap : \E o \in Owned : BlockOf(o) = b

\* No block is lost through any series of commands, refused payloads and failed
\* allocations, nor through power losses between two commands and while blocks are
\* freed.  Power losses elsewhere in write or in mkfs do lose blocks, and the next
\* whole mkfs gives them back.
NoLeakUnlessCutOff == ~leaky => NoLeak

IsDir(i) == i \in Live /\ itable[i].type = 2

\* Every entry hangs below the root or below a directory that exists.
Rooted == \A i \in Live : itable[i].parent # 0 => IsDir(itable[i].parent)

\* Every entry hangs below the root or below a directory that exists, and the
\* current directory exists: rm never removes a directory in use.
TreeSound == AtRest => Rooted /\ (cwd # 0 => IsDir(cwd))

\* The tree is sound through every series of commands and of power losses inside rm,
\* write and writehex.  Only mkfs can upset it, when it is typed in a directory
\* other than the root or loses power, and the next mkfs at the root repairs it.
TreeSoundUnlessAdrift == ~adrift => TreeSound

\* pwd's walk from the current directory ends at the root within its bound of 64
\* steps and meets only directories that exist.
PwdReachesRoot ==
  Ready => /\ PwdWalk[NInodes] = 0
           /\ \A n \in 0 .. NInodes : PwdWalk[n] # 0 => PwdWalk[n] \in Live

\* pwd reaches the root, whatever was done since the last mkfs, unless that mkfs was
\* typed in a directory other than the root or lost power.
PwdReachesRootUnlessAdrift == ~adrift => PwdReachesRoot

\* A disk that mount accepts holds a tree: its consistency check refuses a table
\* with entries whose directory is gone.
MountFindsTree == [][mounted' /\ ~mounted => Rooted]_vars

\* Two entries of one directory never have the same name: what the comment and the
\* message of the check in touch and mkdir say.
UniqueNames ==
  \A i, j \in Live :
     itable[i].parent = itable[j].parent /\ itable[i].name = itable[j].name => i = j

\* Two entries of one directory have the same name only if that name is what the
\* disk keeps of a longer one: for every other name the check of touch and mkdir
\* holds through removals, overwrites, formats and power losses.
UniqueNamesUnlessCut ==
  \A i, j \in Live :
     itable[i].parent = itable[j].parent /\ itable[i].name = itable[j].name =>
       i = j \/ \E n \in Names : Stored(n) # n /\ Stored(n) = itable[i].name

\* While a file system is mounted the disk carries its signature and is marked
\* dirty, so that a power loss shows at the next mount.
DirtyWhileMounted == mounted => sb.sig = "rexfs" /\ sb.clean = 0

\* A mounted disk carries the signature and is marked dirty, at every step of every
\* operation and whatever fails, until mkfs is typed under it.
DirtyUnlessReformatted == ~reformatted => DirtyWhileMounted

\* A write that stores fewer bytes than it was given has met a full disk.
ShortWriteMeansFull ==
  pc = "commit" /\ work.size < pay.len => FreeBlocks = {}

\* An operation that has begun ends.
OpTerminates == ~AtRest ~> AtRest

(* The refinement mapping to FileStore. *)
Busy == pc \notin {"idle", "off", "mkfs"}

NoPieces == [j \in {} |-> NoPayload]
Contents ==
  [i \in Ids |-> IF itable[i].id = 0 THEN [is |-> "absent", pieces |-> NoPieces]
                 ELSE IF Busy /\ i = cur THEN [is |-> "torn", pieces |-> NoPieces]
                 ELSE [is |-> "there", pieces |-> Cat(itable[i])]]

Store == INSTANCE FileStore WITH
  Payloads <- Payload,
  Pieces <- LAMBDA p : BlocksNeeded(p.len),
  Piece <- LAMBDA p, j : [text |-> p.text, at |-> j, len |-> ChunkSize(p.len, j)],
  content <- Contents,
  job <- [id |-> cur, pay |-> pay]

\* RexFS implements FileStore: cat returns what was written, whatever happened to
\* other files in the meantime.
ImplementsFileStore == Store!Spec
=============================================================================
