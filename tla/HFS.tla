---------------------------------- MODULE HFS ----------------------------------
(***************************************************************************)
(* The hierarchical file system of src/filesys/hfs.c on a block device:    *)
(* block 1 holds the block bitmap, block 2 the inode bitmap, the inode    *)
(* table follows, and data blocks start at DATA_START.  Every hfs_* call  *)
(* is one step: the file system is not re-entrant and its callers run    *)
(* it with interrupts disabled.                                            *)
(*                                                                         *)
(* The disk is the two bitmaps (bbm, ibm as sets of used numbers), the    *)
(* inode table itab and the data blocks blk.  A data block is seen as     *)
(* directory slots (ent), indirect pointers (ptr) or bytes (dat), the     *)
(* three members of union block; each block has one use at a time, which *)
(* AllocationExact checks, so the views never alias.  mb and mi are the  *)
(* bitmaps cached in struct hfs_data.  A path is a sequence of names;     *)
(* the root "/" is <<>>.                                                   *)
(*                                                                         *)
(* Every blkread and blkwrite may fail (the device is not in the          *)
(* repository): an operation runs on s = [disk, io, fail, ret, nd, buf], *)
(* io counts the calls made so far and the call numbered fail returns -1. *)
(* nd is the struct inode the C code keeps in a local and passes by       *)
(* pointer; buf is what hfs_read copies out.                               *)
(***************************************************************************)
EXTENDS Integers, Sequences, FiniteSets, FiniteSetsExt

CONSTANTS
  NBLOCKS,         \* s_blocks_count
  NINODES,         \* s_inodes_count
  INODE_BLOCKS,    \* blocks of the inode table
  BLOCK_SIZE,      \* bytes per block
  DIR_ENTRY_SIZE,  \* sizeof(struct directory_entry)
  N_DIRECT,        \* INODE_DIRECT_POINTERS
  N_INDIRECT,      \* INODE_INDIRECT_POINTERS_PER_BLOCK
  Names,           \* the names paths are made of
  Data,            \* the non-zero byte values a write may carry
  Handles,         \* the vnodes a caller may hold at once
  MaxDepth,        \* longest path, in names
  Offsets, Sizes,  \* the offsets and lengths of hfs_write calls
  RemoveOpen,      \* may a caller remove a file it still has open?
  MaxFaults,       \* bound on failed block I/O calls in a behaviour
  MaxIO            \* a failing call is one of the first MaxIO of its operation

DATA_START == 3 + INODE_BLOCKS
EPB == BLOCK_SIZE \div DIR_ENTRY_SIZE        \* DIRECTORY_ENTRIES_PER_BLOCK
MaxFile == (N_DIRECT + N_INDIRECT) * BLOCK_SIZE

ASSUME /\ DATA_START < NBLOCKS /\ NINODES >= 2 /\ EPB >= 1
       /\ N_DIRECT >= 1 /\ N_INDIRECT >= 1 /\ MaxFaults \in Nat /\ MaxIO \in Nat

VARIABLES
  bbm, ibm,    \* the block and inode bitmaps on disk
  mb, mi,      \* the copies in struct hfs_data
  itab,        \* inode number -> struct inode on disk
  blk,         \* data block -> its contents on disk
  vnodes,      \* handle -> the inode number and type hfs_open put in it
  shadow,      \* inode -> the size and bytes its writes reported (history)
  faults,      \* block I/O calls that have failed so far
  mounted      \* hfs_mount returned a vfs that hfs_unmount has not freed

vars == <<bbm, ibm, mb, mi, itab, blk, vnodes, shadow, faults, mounted>>

Blocks == 0..(NBLOCKS - 1)
DataBlocks == DATA_START..(NBLOCKS - 1)
Inodes == 0..(NINODES - 1)
Slots == 0..(EPB - 1)
Bytes == {0} \cup Data
Offs == 0..(MaxFile - 1)
NoName == "."

Inode == [dir: BOOLEAN, size: 0..MaxFile, dp: [0..(N_DIRECT - 1) -> Blocks],
          ind: Blocks]
Entry == [name: Names \cup {NoName}, inum: Inodes]
Block == [ent: [Slots -> Entry], ptr: [0..(N_INDIRECT - 1) -> Blocks],
          dat: [0..(BLOCK_SIZE - 1) -> Bytes]]

FreeEntry == [name |-> NoName, inum |-> 0]
ZeroBlock == [ent |-> [j \in Slots |-> FreeEntry],
              ptr |-> [k \in 0..(N_INDIRECT - 1) |-> 0],
              dat |-> [k \in 0..(BLOCK_SIZE - 1) |-> 0]]
ZeroInode == [dir |-> FALSE, size |-> 0, dp |-> [k \in 0..(N_DIRECT - 1) |-> 0],
              ind |-> 0]
Closed == [inum |-> -1, dir |-> FALSE]
EmptyFile == [size |-> 0, bytes |-> [k \in Offs |-> 0]]

(***************************************************************************)
(* Block I/O and the bitmaps                                               *)
(***************************************************************************)
Fails(s) == s.io + 1 = s.fail
Tick(s) == [s EXCEPT !.io = @ + 1]
Err(s) == [s EXCEPT !.ret = -1]

\* blkwrite of a data block; a negative block number, from a failed
\* get_block_for_offset, is refused by the device
blkwrite(s, b, c) ==
  IF Fails(s) \/ b \notin DataBlocks THEN Err(Tick(s))
  ELSE [Tick(s) EXCEPT !.blk[b] = c, !.ret = 0]

\* mutant: the search runs up to and including max_bits
find_free_bit_past(bm, start, max) ==
  IF \E i \in start..max : i \notin bm THEN Min({i \in start..max : i \notin bm}) ELSE -1

find_free_bit_from(bm, start, max) ==
  IF \E i \in start..(max - 1) : i \notin bm
  THEN Min({i \in start..(max - 1) : i \notin bm}) ELSE -1

\* set_bit, then the whole cached bitmap written back over the disk copy;
\* when that write fails the bit is cleared again
Claim(s, mem, disk, b) ==
  IF b < 0 THEN Err(s)
  ELSE IF Fails(s) THEN Err(Tick(s))
  ELSE [Tick(s) EXCEPT ![mem] = s[mem] \cup {b}, ![disk] = s[mem] \cup {b},
                       !.ret = b]

ClaimFirst(s, mem, disk, lo, hi) ==
  Claim(s, mem, disk, find_free_bit_from(s[mem], lo, hi))

\* alloc_block and alloc_inode: search the cache; when it is full, reload
\* the bitmap from disk and search once more
AllocBit(s, mem, disk, lo, hi) ==
  IF find_free_bit_from(s[mem], lo, hi) >= 0 THEN ClaimFirst(s, mem, disk, lo, hi)
  ELSE IF Fails(s) THEN Err(Tick(s))
  ELSE ClaimFirst([Tick(s) EXCEPT ![mem] = s[disk]], mem, disk, lo, hi)

alloc_block(s) == AllocBit(s, "mb", "bbm", DATA_START, NBLOCKS)
alloc_inode(s) == AllocBit(s, "mi", "ibm", 1, NINODES)

\* clear_bit and write back; a failed write is ignored
Release(s, mem, disk, b) ==
  [Tick(s) EXCEPT ![mem] = s[mem] \ {b},
                  ![disk] = IF Fails(s) THEN s[disk] ELSE s[mem] \ {b}]

free_block(s, b) == IF b \in DataBlocks THEN Release(s, "mb", "bbm", b) ELSE s
free_inode(s, i) == IF i \in Inodes \ {0} THEN Release(s, "mi", "ibm", i) ELSE s

\* sync_bitmaps_from_disk: each bitmap reloaded unless its read fails
Reload(s, mem, disk) == IF Fails(s) THEN Tick(s) ELSE [Tick(s) EXCEPT ![mem] = s[disk]]

sync_bitmaps_from_disk(s) == Reload(Reload(s, "mb", "bbm"), "mi", "ibm")

(***************************************************************************)
(* Inodes and block addressing                                             *)
(***************************************************************************)
read_inode(s, i) ==
  IF Fails(s) THEN Err(Tick(s)) ELSE [Tick(s) EXCEPT !.nd = s.itab[i], !.ret = 0]

\* write_inode reads the inode table block, then writes it back
PutInode(s, i, n) ==
  IF Fails(s) THEN Err(Tick(s)) ELSE [Tick(s) EXCEPT !.itab[i] = n, !.ret = 0]

write_inode(s, i, n) == IF Fails(s) THEN Err(Tick(s)) ELSE PutInode(Tick(s), i, n)

BlockIndex(off) == off \div BLOCK_SIZE

\* 0 for a hole, -1 when the indirect block cannot be read
get_block_for_offset(s, n, off) ==
  IF BlockIndex(off) < N_DIRECT THEN [s EXCEPT !.ret = n.dp[BlockIndex(off)]]
  ELSE IF n.ind = 0 \/ BlockIndex(off) - N_DIRECT >= N_INDIRECT
    THEN [s EXCEPT !.ret = 0]
  ELSE IF Fails(s) THEN Err(Tick(s))
  ELSE [Tick(s) EXCEPT !.ret = s.blk[n.ind].ptr[BlockIndex(off) - N_DIRECT]]

\* alloc_block_for_offset: the new block b is zeroed, then installed in a
\* direct slot or, through the indirect block (allocated on first use), in
\* an indirect one.  s.nd is the caller's inode afterwards.
\* (b is freed again on every failure after it was allocated)
Undo(s, n, b) == [free_block(s, b) EXCEPT !.ret = -1, !.nd = n]

StorePointer(s, n, off, b) ==
  IF Fails(s) THEN Undo(Tick(s), n, b)
  ELSE [Tick(s) EXCEPT !.blk[n.ind].ptr[BlockIndex(off) - N_DIRECT] = b,
                       !.ret = b, !.nd = n]

\* read the indirect block, set the pointer, write it back
LinkIndirect(s, n, off, b) ==
  IF Fails(s) THEN Undo(Tick(s), n, b) ELSE StorePointer(Tick(s), n, off, b)

ZeroIndirect(w, n, off, b) ==
  IF w.ret < 0 THEN Undo(free_block(w, n.ind), [n EXCEPT !.ind = 0], b)
  ELSE LinkIndirect(w, n, off, b)

NewIndirect(a, n, off, b) ==
  IF a.ret < 0 THEN Undo(a, n, b)
  ELSE ZeroIndirect(blkwrite(a, a.ret, ZeroBlock), [n EXCEPT !.ind = a.ret], off, b)

Install(w, n, off, b) ==
  IF w.ret < 0 THEN Undo(w, n, b)
  ELSE IF BlockIndex(off) < N_DIRECT
    THEN [w EXCEPT !.ret = b, !.nd = [n EXCEPT !.dp[BlockIndex(off)] = b]]
  ELSE IF BlockIndex(off) - N_DIRECT >= N_INDIRECT THEN Undo(w, n, b)
  ELSE IF n.ind = 0 THEN NewIndirect(alloc_block(w), n, off, b)
  ELSE LinkIndirect(w, n, off, b)

ZeroNew(a, n, off) ==
  IF a.ret < 0 THEN [a EXCEPT !.nd = n]
  ELSE Install(blkwrite(a, a.ret, ZeroBlock), n, off, a.ret)

alloc_block_for_offset(s, n, off) == ZeroNew(alloc_block(s), n, off)

(***************************************************************************)
(* Directories                                                             *)
(***************************************************************************)
NBlocks(n) == (n.size + BLOCK_SIZE - 1) \div BLOCK_SIZE

Named(c, name) == {j \in Slots : c.ent[j].inum # 0 /\ c.ent[j].name = name}
FreeSlots(c) == {j \in Slots : c.ent[j].inum = 0}

\* find_dir_entry: the inode number of the live slot called name, or -1;
\* a hole or an unreadable block is skipped
RECURSIVE FindFrom(_, _, _, _), FindIn(_, _, _, _), FindFrom_short(_, _, _, _)
\* mutant: the last block of the directory is not searched
FindFrom_short(s, n, name, i) ==
  IF i >= NBlocks(n) - 1 THEN Err(s)
  ELSE FindIn(get_block_for_offset(s, n, i * BLOCK_SIZE), n, name, i)

FindFrom(s, n, name, i) ==
  IF i >= NBlocks(n) THEN Err(s)
  ELSE FindIn(get_block_for_offset(s, n, i * BLOCK_SIZE), n, name, i)

FindIn(g, n, name, i) ==
  IF g.ret <= 0 THEN FindFrom(g, n, name, i + 1)
  ELSE IF Fails(g) THEN FindFrom(Tick(g), n, name, i + 1)
  ELSE IF Named(g.blk[g.ret], name) = {} THEN FindFrom(Tick(g), n, name, i + 1)
  ELSE [Tick(g) EXCEPT !.ret = g.blk[g.ret].ent[Min(Named(g.blk[g.ret], name))].inum]

find_dir_entry(s, n, name) == IF n.dir THEN FindFrom(s, n, name, 0) ELSE Err(s)

\* add_dir_entry: the first free slot of the directory's blocks (a hole is
\* allocated first), else a new block after the last; s.nd is the
\* directory's inode with its pointers and size updated
AddBlocks(n) == Max({1, NBlocks(n)})

PutEntry(s, n, name, inum, i, b, j) ==
  IF Fails(s) THEN [Err(Tick(s)) EXCEPT !.nd = n]
  ELSE [Tick(s) EXCEPT
          !.blk[b].ent[j] = [name |-> name, inum |-> inum], !.ret = 0,
          !.nd = [n EXCEPT !.size = Max({@, i * BLOCK_SIZE + (j + 1) * DIR_ENTRY_SIZE})]]

AppendBlock(a, name, inum, off) ==
  IF a.ret < 0 THEN a
  ELSE IF Fails(a) THEN Err(Tick(a))
  ELSE [Tick(a) EXCEPT
          !.blk[a.ret] = [ZeroBlock EXCEPT !.ent[0] = [name |-> name, inum |-> inum]],
          !.ret = 0, !.nd = [a.nd EXCEPT !.size = off + DIR_ENTRY_SIZE]]

RECURSIVE AddFrom(_, _, _, _, _), AddAt(_, _, _, _, _), AddHole(_, _, _, _),
          AddIn(_, _, _, _, _, _)
AddFrom(s, n, name, inum, i) ==
  IF i >= AddBlocks(n)
  THEN AppendBlock(alloc_block_for_offset(s, n, AddBlocks(n) * BLOCK_SIZE),
                   name, inum, AddBlocks(n) * BLOCK_SIZE)
  ELSE AddAt(get_block_for_offset(s, n, i * BLOCK_SIZE), n, name, inum, i)

AddAt(g, n, name, inum, i) ==
  IF g.ret = 0 THEN AddHole(alloc_block_for_offset(g, n, i * BLOCK_SIZE), name, inum, i)
  ELSE AddIn(g, n, name, inum, i, g.ret)

AddHole(a, name, inum, i) == IF a.ret < 0 THEN a ELSE AddIn(a, a.nd, name, inum, i, a.ret)

AddIn(s, n, name, inum, i, b) ==
  IF Fails(s) \/ b < 0 \/ FreeSlots(s.blk[b]) = {}
  THEN AddFrom(Tick(s), n, name, inum, i + 1)
  ELSE PutEntry(Tick(s), n, name, inum, i, b, Min(FreeSlots(s.blk[b])))

add_dir_entry(s, n, name, inum) ==
  IF n.dir THEN AddFrom(s, n, name, inum, 0) ELSE [Err(s) EXCEPT !.nd = n]

\* remove_dir_entry: the slot called name is zeroed and its block written
\* back (a failed write is ignored); the size does not shrink
RECURSIVE UnlinkFrom(_, _, _, _), UnlinkIn(_, _, _, _)
UnlinkFrom(s, n, name, i) ==
  IF i >= NBlocks(n) THEN Err(s)
  ELSE UnlinkIn(get_block_for_offset(s, n, i * BLOCK_SIZE), n, name, i)

UnlinkIn(g, n, name, i) ==
  IF g.ret <= 0 THEN UnlinkFrom(g, n, name, i + 1)
  ELSE IF Fails(g) THEN UnlinkFrom(Tick(g), n, name, i + 1)
  ELSE IF Named(g.blk[g.ret], name) = {} THEN UnlinkFrom(Tick(g), n, name, i + 1)
  ELSE [blkwrite(Tick(g), g.ret, [g.blk[g.ret] EXCEPT
          !.ent[Min(Named(g.blk[g.ret], name))] = FreeEntry]) EXCEPT !.ret = 0]

remove_dir_entry(s, n, name) == IF n.dir THEN UnlinkFrom(s, n, name, 0) ELSE Err(s)

\* resolve_path: from inode 0, read each inode, require a directory and
\* look the next name up
RECURSIVE Walk(_, _, _, _), WalkIn(_, _, _), WalkNext(_, _, _)
Walk(s, p, k, cur) ==
  IF k > Len(p) THEN [s EXCEPT !.ret = cur] ELSE WalkIn(read_inode(s, cur), p, k)

WalkIn(r, p, k) ==
  IF r.ret < 0 \/ ~r.nd.dir THEN Err(r)
  ELSE WalkNext(find_dir_entry(r, r.nd, p[k]), p, k)

WalkNext(f, p, k) == IF f.ret < 0 THEN f ELSE Walk(f, p, k + 1, f.ret)

resolve_path(s, p) == IF p = <<>> THEN [s EXCEPT !.ret = 0] ELSE Walk(s, p, 1, 0)

\* free_inode_blocks: the direct blocks, then those the indirect block
\* lists (when it can be read), then the indirect block itself
RECURSIVE FreeDirect(_, _, _), FreeListed(_, _, _)
FreeDirect(s, n, k) ==
  IF k >= N_DIRECT THEN s
  ELSE FreeDirect(IF n.dp[k] # 0 THEN free_block(s, n.dp[k]) ELSE s, n, k + 1)

FreeListed(s, ptrs, k) ==
  IF k >= N_INDIRECT THEN s
  ELSE FreeListed(IF ptrs[k] # 0 THEN free_block(s, ptrs[k]) ELSE s, ptrs, k + 1)

\* mutant: the blocks the indirect block lists are freed, the indirect block is not
FreeIndirect_keeps(s, n) ==
  IF n.ind = 0 THEN s
  ELSE IF Fails(s) THEN Tick(s) ELSE FreeListed(Tick(s), s.blk[n.ind].ptr, 0)

FreeIndirect(s, n) ==
  IF n.ind = 0 THEN s
  ELSE free_block(IF Fails(s) THEN Tick(s) ELSE FreeListed(Tick(s), s.blk[n.ind].ptr, 0),
                  n.ind)

free_inode_blocks(s, n) == FreeIndirect(FreeDirect(s, n, 0), n)

(***************************************************************************)
(* The VFS operations                                                      *)
(***************************************************************************)
\* split_path: the parent's path and the last name
ParentOf(p) == SubSeq(p, 1, Len(p) - 1)
NameOf(p) == p[Len(p)]

\* hfs_create and hfs_mkdir: resolve the parent, require a directory without
\* the name, allocate and write the inode, add the entry, rewrite the
\* parent; the inode is freed again when the write or the entry fails
CreateLinked(d, pi, i) == IF d.ret < 0 THEN Err(free_inode(d, i)) ELSE write_inode(d, pi, d.nd)

CreateWritten(w, pn, pi, name, i) ==
  IF w.ret < 0 THEN Err(free_inode(w, i))
  ELSE CreateLinked(add_dir_entry(w, pn, name, i), pi, i)

CreateInode(a, pn, pi, name, isdir) ==
  IF a.ret < 0 THEN a
  ELSE CreateWritten(write_inode(a, a.ret, [ZeroInode EXCEPT !.dir = isdir]),
                     pn, pi, name, a.ret)

CreateUnique(f, pn, pi, name, isdir) ==
  IF f.ret >= 0 THEN Err(f) ELSE CreateInode(alloc_inode(f), pn, pi, name, isdir)

CreateParent(r, pi, name, isdir) ==
  IF r.ret < 0 \/ ~r.nd.dir THEN Err(r)
  ELSE CreateUnique(find_dir_entry(r, r.nd, name), r.nd, pi, name, isdir)

CreateIn(r, name, isdir) ==
  IF r.ret < 0 THEN r ELSE CreateParent(read_inode(r, r.ret), r.ret, name, isdir)

CreateNode(s, p, isdir) ==
  IF p = <<>> THEN Err(s) ELSE CreateIn(resolve_path(s, ParentOf(p)), NameOf(p), isdir)

hfs_create(s, p) == CreateNode(sync_bitmaps_from_disk(s), p, FALSE)
hfs_mkdir(s, p) == CreateNode(sync_bitmaps_from_disk(s), p, TRUE)

\* the end of hfs_remove: free the target's blocks and inode, then take
\* its entry out of the parent and rewrite the parent; it returns 0 even
\* when the parent cannot be found or read
UnlinkRead(t, pi, name) ==
  IF t.ret < 0 THEN [t EXCEPT !.ret = 0]
  ELSE [write_inode(remove_dir_entry(t, t.nd, name), pi, t.nd) EXCEPT !.ret = 0]

UnlinkParent(r, name) ==
  IF r.ret < 0 THEN [r EXCEPT !.ret = 0] ELSE UnlinkRead(read_inode(r, r.ret), r.ret, name)

RemoveSelf(s, p, i, n) ==
  UnlinkParent(resolve_path(free_inode(free_inode_blocks(s, n), i), ParentOf(p)), NameOf(p))

\* hfs_remove: refuse inode 0; a directory first has every live slot of
\* its blocks removed, recursively, from a copy of each block read before
\* the slot's removal; n is the target's inode as read at the start
RECURSIVE hfs_remove(_, _), RemoveResolved(_, _), RemoveTarget(_, _, _),
          RemoveChildren(_, _, _, _), ChildrenIn(_, _, _, _),
          RemoveEach(_, _, _, _, _, _)
hfs_remove(s, p) == RemoveResolved(resolve_path(s, p), p)

RemoveResolved(r, p) == IF r.ret <= 0 THEN Err(r) ELSE RemoveTarget(read_inode(r, r.ret), p, r.ret)

RemoveTarget(t, p, i) ==
  IF t.ret < 0 THEN t
  ELSE RemoveSelf(IF t.nd.dir THEN RemoveChildren(t, p, t.nd, 0) ELSE t, p, i, t.nd)

RemoveChildren(s, p, n, k) ==
  IF k >= NBlocks(n) THEN s
  ELSE ChildrenIn(get_block_for_offset(s, n, k * BLOCK_SIZE), p, n, k)

ChildrenIn(g, p, n, k) ==
  IF g.ret <= 0 THEN RemoveChildren(g, p, n, k + 1)
  ELSE IF Fails(g) THEN RemoveChildren(Tick(g), p, n, k + 1)
  ELSE RemoveEach(Tick(g), p, n, k, g.blk[g.ret], 0)

RemoveEach(s, p, n, k, c, j) ==
  IF j >= EPB THEN RemoveChildren(s, p, n, k + 1)
  ELSE IF c.ent[j].inum = 0 THEN RemoveEach(s, p, n, k, c, j + 1)
  ELSE RemoveEach(hfs_remove(s, Append(p, c.ent[j].name)), p, n, k, c, j + 1)

\* hfs_open: the vnode gets the inode number (s.ret) and type (s.nd.dir)
OpenRead(t, i) == IF t.ret < 0 THEN t ELSE [t EXCEPT !.ret = i]
OpenResolved(r) == IF r.ret < 0 THEN r ELSE OpenRead(read_inode(r, r.ret), r.ret)
hfs_open(s, p) == OpenResolved(resolve_path(s, p))

\* the bytes of one loop iteration of hfs_read and hfs_write at offset cur
Span(cur, rem) == Min({BLOCK_SIZE - (cur % BLOCK_SIZE), rem})

\* hfs_read: clip to the size, zero-fill holes, stop at a failed read
RECURSIVE ReadFrom(_, _, _, _), ReadAt(_, _, _, _)
ReadFrom(s, n, off, size) ==
  IF Len(s.buf) >= size THEN [s EXCEPT !.ret = Len(s.buf)]
  ELSE ReadAt(get_block_for_offset(s, n, off + Len(s.buf)), n, off, size)

ReadAt(g, n, off, size) ==
  IF g.ret <= 0
  THEN ReadFrom([g EXCEPT !.buf = @ \o [k \in 1..Span(off + Len(g.buf), size - Len(g.buf)) |-> 0]],
                n, off, size)
  ELSE IF Fails(g) THEN [Tick(g) EXCEPT !.ret = IF Len(g.buf) > 0 THEN Len(g.buf) ELSE -1]
  ELSE ReadFrom([Tick(g) EXCEPT !.buf = @ \o
                   [k \in 1..Span(off + Len(g.buf), size - Len(g.buf)) |->
                      g.blk[g.ret].dat[((off + Len(g.buf)) % BLOCK_SIZE) + k - 1]]],
                n, off, size)

ReadStart(r, off, size) ==
  IF r.ret < 0 THEN r
  ELSE IF off >= r.nd.size THEN [r EXCEPT !.ret = 0, !.buf = <<>>]
  ELSE ReadFrom([r EXCEPT !.buf = <<>>], r.nd, off, Min({size, r.nd.size - off}))

hfs_read(s, i, off, size) == ReadStart(read_inode(s, i), off, size)

\* hfs_write: allocate holes (rewriting the inode after each, its result
\* ignored), read-modify-write partial blocks, advance the size over what
\* was written and rewrite the inode (result ignored) on every exit
Grown(n, off, w) == IF off + w > n.size THEN [n EXCEPT !.size = off + w] ELSE n

WriteShort(s, i, n, off, w) ==
  IF w > 0 THEN [write_inode(s, i, Grown(n, off, w)) EXCEPT !.ret = w]
  ELSE Err(write_inode(s, i, n))

Filled(c, bo, cnt, d) ==
  [c EXCEPT !.dat = [k \in DOMAIN c.dat |-> IF bo <= k /\ k < bo + cnt THEN d ELSE c.dat[k]]]

RECURSIVE WriteFrom(_, _, _, _, _, _, _), WriteAt(_, _, _, _, _, _, _),
          WriteAlloc(_, _, _, _, _, _), WriteBlock(_, _, _, _, _, _, _, _),
          WriteNext(_, _, _, _, _, _, _), WriteBlock_no_rmw(_, _, _, _, _, _, _, _)
\* mutant: every span is written from a zeroed block, partial ones too
WriteBlock_no_rmw(s, i, n, off, size, d, w, b) ==
  WriteNext(blkwrite(s, b, Filled(ZeroBlock, (off + w) % BLOCK_SIZE, Span(off + w, size - w), d)),
            i, n, off, size, d, w)

WriteFrom(s, i, n, off, size, d, w) ==
  IF w >= size THEN [write_inode(s, i, Grown(n, off, w)) EXCEPT !.ret = w]
  ELSE WriteAt(get_block_for_offset(s, n, off + w), i, n, off, size, d, w)

WriteAt(g, i, n, off, size, d, w) ==
  IF g.ret = 0 THEN WriteAlloc(alloc_block_for_offset(g, n, off + w), i, off, size, d, w)
  ELSE WriteBlock(g, i, n, off, size, d, w, g.ret)

WriteAlloc(a, i, off, size, d, w) ==
  IF a.ret < 0 THEN WriteShort(a, i, a.nd, off, w)
  ELSE WriteBlock(write_inode(a, i, a.nd), i, a.nd, off, size, d, w, a.ret)

WriteBlock(s, i, n, off, size, d, w, b) ==
  IF (off + w) % BLOCK_SIZE = 0 /\ Span(off + w, size - w) = BLOCK_SIZE
  THEN WriteNext(blkwrite(s, b, Filled(ZeroBlock, 0, BLOCK_SIZE, d)), i, n, off, size, d, w)
  ELSE IF Fails(s) \/ b \notin DataBlocks THEN WriteShort(Tick(s), i, n, off, w)
  ELSE WriteNext(blkwrite(Tick(s), b, Filled(s.blk[b], (off + w) % BLOCK_SIZE,
                                             Span(off + w, size - w), d)),
                 i, n, off, size, d, w)

WriteNext(t, i, n, off, size, d, w) ==
  IF t.ret < 0 THEN WriteShort(t, i, n, off, w)
  ELSE WriteFrom(t, i, n, off, size, d, w + Span(off + w, size - w))

WriteStart(r, i, off, size, d) == IF r.ret < 0 THEN r ELSE WriteFrom(r, i, r.nd, off, size, d, 0)

hfs_write(s, i, off, size, d) ==
  WriteStart(read_inode(sync_bitmaps_from_disk(s), i), i, off, size, d)

(***************************************************************************)
(* The specification                                                       *)
(***************************************************************************)
\* hfs_format then hfs_mount: metadata blocks and the root's first block
\* used, the root a directory of size 0 owning that block, the bitmaps
\* read into struct hfs_data.  Free blocks are zero: every block is zeroed
\* when it is allocated, so what they held before is never read.
Init ==
  /\ bbm = 0..DATA_START
  /\ ibm = {0}
  /\ mb = bbm
  /\ mi = ibm
  /\ itab = [i \in Inodes |->
               IF i = 0 THEN [ZeroInode EXCEPT !.dir = TRUE, !.dp[0] = DATA_START]
               ELSE ZeroInode]
  /\ blk = [b \in DataBlocks |-> ZeroBlock]
  /\ vnodes = [h \in Handles |-> Closed]
  /\ shadow = [i \in Inodes |-> EmptyFile]
  /\ faults = 0
  /\ mounted = TRUE

Paths == UNION {[1..k -> Names] : k \in 0..MaxDepth}

\* the state a call starts from: the block I/O call numbered f fails (none
\* when f = 0)
Start(f) == [bbm |-> bbm, ibm |-> ibm, mb |-> mb, mi |-> mi, itab |-> itab,
             blk |-> blk, io |-> 0, fail |-> f, ret |-> 0, nd |-> ZeroInode,
             buf |-> <<>>]

FailAt == IF faults < MaxFaults THEN 0..MaxIO ELSE {0}

Store(t) ==
  /\ UNCHANGED mounted
  /\ bbm' = t.bbm /\ ibm' = t.ibm /\ mb' = t.mb /\ mi' = t.mi
  /\ itab' = t.itab /\ blk' = t.blk
  /\ faults' = IF t.fail # 0 /\ t.io >= t.fail THEN faults + 1 ELSE faults

\* an inode the call allocated starts with nothing written to it
Renewed(t) == shadow' = [i \in Inodes |-> IF i \in t.ibm \ ibm THEN EmptyFile ELSE shadow[i]]

Create(p) ==
  mounted /\ \E f \in FailAt : \E t \in {hfs_create(Start(f), p)} :
    Store(t) /\ Renewed(t) /\ UNCHANGED vnodes

Mkdir(p) ==
  mounted /\ \E f \in FailAt : \E t \in {hfs_mkdir(Start(f), p)} :
    Store(t) /\ Renewed(t) /\ UNCHANGED vnodes

\* the inodes below inode i, i included (a hole or an entry beyond the
\* size is not followed, as find_dir_entry does not)
BlockOf(n, off) == get_block_for_offset(Start(0), n, off).ret

LiveSlots(i) ==
  IF ~itab[i].dir THEN {}
  ELSE {<<k, j>> \in (0..(NBlocks(itab[i]) - 1)) \X Slots :
          /\ BlockOf(itab[i], k * BLOCK_SIZE) \in DataBlocks
          /\ blk[BlockOf(itab[i], k * BLOCK_SIZE)].ent[j].inum # 0}

EntryAt(i, k, j) == blk[BlockOf(itab[i], k * BLOCK_SIZE)].ent[j]

Children(i) == {EntryAt(i, l[1], l[2]).inum : l \in LiveSlots(i)}

RECURSIVE Closure(_)
Closure(S) ==
  IF UNION {Children(i) : i \in S} \subseteq S THEN S
  ELSE Closure(S \cup UNION {Children(i) : i \in S})

Below(i) == Closure({i})

\* a caller that removes a path while it holds a vnode below it
OpenBelow(p) ==
  resolve_path(Start(0), p).ret >= 0 /\
  \E h \in Handles : vnodes[h].inum \in Below(resolve_path(Start(0), p).ret)

Remove(p) ==
  /\ mounted
  /\ RemoveOpen \/ ~OpenBelow(p)
  /\ \E f \in FailAt : \E t \in {hfs_remove(Start(f), p)} :
       Store(t) /\ UNCHANGED <<vnodes, shadow>>

Open(h, p) ==
  /\ mounted
  /\ vnodes[h] = Closed
  /\ \E f \in FailAt : \E t \in {hfs_open(Start(f), p)} :
       /\ Store(t)
       /\ vnodes' = IF t.ret < 0 THEN vnodes
                    ELSE [vnodes EXCEPT ![h] = [inum |-> t.ret, dir |-> t.nd.dir]]
       /\ UNCHANGED shadow

\* hfs_close frees the vnode
Close(h) ==
  /\ vnodes[h] # Closed
  /\ vnodes' = [vnodes EXCEPT ![h] = Closed]
  /\ UNCHANGED <<bbm, ibm, mb, mi, itab, blk, shadow, faults, mounted>>

\* what a write that reported n bytes at off promises a later read
Wrote(e, off, n, d) ==
  [size |-> Max({e.size, off + n}),
   bytes |-> [k \in Offs |-> IF off <= k /\ k < off + n THEN d ELSE e.bytes[k]]]

\* writes go through vnodes of regular files (hfs_write itself does not
\* look at the type)
Write(h, off, size, d) ==
  /\ vnodes[h] # Closed
  /\ ~vnodes[h].dir
  /\ \E f \in FailAt : \E t \in {hfs_write(Start(f), vnodes[h].inum, off, size, d)} :
       /\ Store(t)
       /\ shadow' = IF t.ret > 0
                    THEN [shadow EXCEPT ![vnodes[h].inum] = Wrote(@, off, t.ret, d)]
                    ELSE shadow
       /\ UNCHANGED vnodes

\* hfs_mount: read the superblock (it carries HFS_MAGIC: Init formatted
\* the device), then the block and the inode bitmap into fresh buffers; a
\* failed read frees what was allocated and returns NULL
MountInodes(s) ==
  IF Fails(s) THEN Err(Tick(s)) ELSE [Tick(s) EXCEPT !.mi = s.ibm, !.ret = 0]

MountBlocks(s) ==
  IF Fails(s) THEN Err(Tick(s)) ELSE MountInodes([Tick(s) EXCEPT !.mb = s.bbm])

hfs_mount(s) == IF Fails(s) THEN Err(Tick(s)) ELSE MountBlocks(Tick(s))

Mount ==
  /\ ~mounted
  /\ \E f \in FailAt : \E t \in {hfs_mount(Start(f))} :
       /\ mounted' = (t.ret = 0)
       /\ mb' = (IF t.ret = 0 THEN t.mb ELSE {})
       /\ mi' = (IF t.ret = 0 THEN t.mi ELSE {})
       /\ faults' = IF f # 0 /\ t.io >= f THEN faults + 1 ELSE faults
       /\ UNCHANGED <<bbm, ibm, itab, blk, vnodes, shadow>>

\* hfs_unmount frees the cached bitmaps and writes nothing back.  The
\* caller has closed its vnodes: hfs_unmount does not look for open ones.
Unmount ==
  /\ mounted
  /\ \A h \in Handles : vnodes[h] = Closed
  /\ mounted' = FALSE /\ mb' = {} /\ mi' = {}
  /\ UNCHANGED <<bbm, ibm, itab, blk, vnodes, shadow, faults>>

Next ==
  \/ Mount \/ Unmount
  \/ \E p \in Paths : Create(p) \/ Mkdir(p) \/ Remove(p)
  \/ \E h \in Handles : \E p \in Paths : Open(h, p)
  \/ \E h \in Handles : Close(h)
  \/ \E h \in Handles, off \in Offsets, size \in Sizes, d \in Data : Write(h, off, size, d)

Spec == Init /\ [][Next]_vars

(***************************************************************************)
(* Properties                                                              *)
(***************************************************************************)
TypeOK ==
  /\ bbm \subseteq Blocks /\ mb \subseteq Blocks
  /\ ibm \subseteq Inodes /\ mi \subseteq Inodes
  /\ itab \in [Inodes -> Inode]
  /\ blk \in [DataBlocks -> Block]
  /\ vnodes \in [Handles -> {Closed} \cup [inum: Inodes, dir: BOOLEAN]]
  /\ shadow \in [Inodes -> [size: 0..MaxFile, bytes: [Offs -> Bytes]]]
  /\ faults \in 0..MaxFaults
  /\ mounted \in BOOLEAN

Reachable == Below(0)

\* the blocks inode i points to, directly, as its indirect block or from it
Owned(i) ==
  ({itab[i].dp[k] : k \in 0..(N_DIRECT - 1)} \ {0}) \cup
  (IF itab[i].ind = 0 THEN {}
   ELSE {itab[i].ind} \cup ({blk[itab[i].ind].ptr[k] : k \in 0..(N_INDIRECT - 1)} \ {0}))

PointerCount(i) ==
  Cardinality({k \in 0..(N_DIRECT - 1) : itab[i].dp[k] # 0}) +
  (IF itab[i].ind = 0 THEN 0
   ELSE 1 + Cardinality({k \in 0..(N_INDIRECT - 1) : blk[itab[i].ind].ptr[k] # 0}))

\* The bitmaps, on disk and (while mounted) cached, say exactly what the
\* tree uses: an inode is marked used iff it can be reached from the root,
\* a block iff it is metadata or owned by such an inode, and no block is
\* owned twice.  A
\* failed create that kept its inode or block, a remove (recursive for a
\* directory, spec 8.5) that left part of the subtree marked used, or an
\* allocation handing out a block still in use breaks it.
AllocationExact ==
  /\ ibm = Reachable /\ (mounted => mi = ibm)
  /\ \A i \in Reachable : Owned(i) \subseteq DataBlocks /\ Cardinality(Owned(i)) = PointerCount(i)
  /\ bbm = (0..(DATA_START - 1)) \cup UNION {Owned(i) : i \in Reachable}
  /\ mounted => mb = bbm
  /\ \A i, j \in Reachable : i # j => Owned(i) \cap Owned(j) = {}

\* The directories form a tree with unique names: every reachable inode
\* but the root is named by exactly one live slot, and no directory has
\* two live slots of the same name (hfs_create and hfs_mkdir look the name
\* up in every block of the parent before add_dir_entry reuses a slot).
Links == UNION {{<<i, l[1], l[2]>> : l \in LiveSlots(i)} : i \in Reachable}

DirectoryTree ==
  /\ \A c \in Reachable \ {0} :
       Cardinality({l \in Links : EntryAt(l[1], l[2], l[3]).inum = c}) = 1
  /\ \A l, m \in Links :
       (l # m /\ l[1] = m[1]) => EntryAt(l[1], l[2], l[3]).name # EntryAt(m[1], m[2], m[3]).name

\* Round trip (spec 8.4): hfs_read of a whole file returns, byte for byte,
\* what the writes through hfs_write reported, zeros in the holes, and the
\* size the writes reached.  It relates every byte on disk to the history
\* of write results, through the inode, its direct and indirect pointers.
ReadReturnsWritten ==
  \A i \in ibm \ {0} :
    ~itab[i].dir =>
      \E r \in {hfs_read(Start(0), i, 0, MaxFile)} :
        /\ r.ret = shadow[i].size
        /\ r.buf = [k \in 1..shadow[i].size |-> shadow[i].bytes[k - 1]]
==============================================================================
