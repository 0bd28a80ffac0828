---------------------------------- MODULE VMM ----------------------------------
(***************************************************************************)
(* The virtual memory manager of src/mm/vmm.c, over the frame allocator   *)
(* of PFA, with the two callers that build address spaces: the segment    *)
(* loader of src/process/elf.c (elf_load, elf_load_seg) run by            *)
(* process_spawn, and process_fork's vmm_clone_pagedir.                    *)
(*                                                                         *)
(* Physical memory is the frames of PFA.  A frame used as a page           *)
(* directory or page table holds E entries (1024 in the code); an entry   *)
(* is the number of the frame it points to or NP when not present.  Flag  *)
(* bits are not modelled, nor the contents of data frames.  A virtual     *)
(* address is a byte address in pages of BS bytes: directory index        *)
(* va \div BS \div E, table index va \div BS % E.  Directory indices from *)
(* KH on are the kernel half (768 in the code).  The identity map covers  *)
(* the first LOW pages and the physical window starts at directory index  *)
(* KH (PHYS_TO_VIRT(p) = KH * E * BS + p).                                 *)
(***************************************************************************)
EXTENDS Integers, Sequences, FiniteSets

CONSTANTS
  F, BS, WORD, LOW, E820, KSTART, KEND,   \* the frame allocator's (PFA)
  E,           \* entries per page directory and per page table
  KH,          \* first directory index of the kernel half
  Segments,    \* the LOAD program headers of the ELF file: [vaddr, memsz, filesz]
  MaxSpaces    \* bound on the number of live user address spaces

ASSUME E \in Nat \ {0} /\ KH \in 1..(E - 1) /\ F <= (E - KH) * E

VARIABLES
  bitmap, used_frames,   \* the frame allocator's state (PFA)
  mem,                   \* frame -> its E entries, for directories and tables
  kernel_directory, current_directory,
  spaces,                \* directories of live processes other than the kernel's
  cpu                    \* "run", or "fault" once the page-fault handler halts

vars == <<bitmap, used_frames, mem, kernel_directory, current_directory, spaces, cpu>>

PF == INSTANCE PFA WITH held <- {}

NP == -1              \* entry not present
NULL == PF!NULL
Frames == PF!Frames
Idx == 0..(E - 1)
Zeroed == [i \in Idx |-> NP]

DirIndex(va) == (va \div BS) \div E                  \* VMM_DIR_INDEX
TableIndex(va) == (va \div BS) % E                   \* VMM_TABLE_INDEX
PageDown(va) == (va \div BS) * BS
PageUp(va) == ((va + BS - 1) \div BS) * BS
PHYS_TO_VIRT(pa) == KH * E * BS + pa

(***************************************************************************)
(* Operations of vmm.c on s = [bm, used, mem, ret]; frame numbers stand   *)
(* for the physical addresses the code stores                              *)
(***************************************************************************)
\* kmm_frame_alloc, giving the frame number or NULL
AsFrame(a) == [a EXCEPT !.ret = IF a.ret = NULL THEN NULL ELSE a.ret \div BS]

FrameAlloc(s) == AsFrame(PF!kmm_frame_alloc(s))

FrameFree(s, f) == PF!kmm_frame_free(s, f * BS)

\* the frame a.ret, just allocated, cleared to a table with no entry present
\* (a is the state after the allocation, so it is bound once)
ZeroFrame(a) == IF a.ret = NULL THEN a ELSE [a EXCEPT !.mem[a.ret] = Zeroed]

vmm_create_address_space(s) == ZeroFrame(FrameAlloc(s))

\* vmm_create_pt: a missing table is allocated and zeroed; when no frame is
\* left the directory entry stays absent
LinkTable(a, d, va) ==
  IF a.ret = NULL THEN a
  ELSE [a EXCEPT !.mem[a.ret] = Zeroed, !.mem[d][DirIndex(va)] = a.ret]

vmm_create_pt(s, d, va) ==
  IF s.mem[d][DirIndex(va)] # NP THEN s ELSE LinkTable(FrameAlloc(s), d, va)

\* PDE_PTABLE_ADDR: a zero directory entry yields the table at frame 0
TableOf(s, d, va) == IF s.mem[d][DirIndex(va)] = NP THEN 0 ELSE s.mem[d][DirIndex(va)]

SetPte(s, d, va, f) == [s EXCEPT !.mem[TableOf(s, d, va)][TableIndex(va)] = f]

\* vmm_map_page storing the physical address where the frame belongs
vmm_map_page_addr(s, d, va, pa) ==
  IF va = 0 THEN s ELSE SetPte(vmm_create_pt(s, d, va), d, va, pa)

vmm_map_page(s, d, va, pa) ==
  IF va = 0 THEN s ELSE SetPte(vmm_create_pt(s, d, va), d, va, pa \div BS)

\* the MMU's walk of directory d for va: a frame number, or NP (a fault)
Translate(m, d, va) ==
  IF m[d][DirIndex(va)] = NP THEN NP ELSE m[m[d][DirIndex(va)]][TableIndex(va)]

\* vmm_page_alloc on entry i of table t; ret is 0 or -1
StorePage(a, t, i) ==
  IF a.ret = NULL THEN [a EXCEPT !.ret = -1]
  ELSE [a EXCEPT !.mem[t][i] = a.ret, !.ret = 0]

vmm_page_alloc(s, t, i) ==
  IF s.mem[t][i] # NP THEN [s EXCEPT !.ret = 0] ELSE StorePage(FrameAlloc(s), t, i)

vmm_page_free(s, t, i) ==
  IF s.mem[t][i] = NP THEN s
  ELSE [FrameFree(s, s.mem[t][i]) EXCEPT !.mem[t][i] = NP]

\* the two loops of vmm_free_region: pages of [lo, hi), then directory
\* indices pd..last whose table has become empty
RECURSIVE FreePages(_, _, _, _)
FreePages(s, d, va, hi) ==
  IF va >= hi THEN s
  ELSE FreePages(IF s.mem[d][DirIndex(va)] = NP THEN s
                 ELSE vmm_page_free(s, s.mem[d][DirIndex(va)], TableIndex(va)),
                 d, va + BS, hi)

RECURSIVE FreeEmptyTables(_, _, _, _)
FreeEmptyTables(s, d, pd, last) ==
  IF pd > last THEN s
  ELSE FreeEmptyTables(
         IF s.mem[d][pd] = NP \/ \E i \in Idx : s.mem[s.mem[d][pd]][i] # NP THEN s
         ELSE [FrameFree(s, s.mem[d][pd]) EXCEPT !.mem[d][pd] = NP],
         d, pd + 1, last)

vmm_free_region(s, d, va, size) ==
  IF va = 0 \/ size = 0 THEN s
  ELSE FreeEmptyTables(FreePages(s, d, PageDown(va), PageUp(va + size)), d,
                       DirIndex(PageDown(va)), DirIndex(PageUp(va + size) - 1))

\* vmm_alloc_region: ret is TRUE or FALSE; a failure frees the pages of
\* [va, at) through vmm_free_region.  The loop body is split where it
\* binds the state after vmm_create_pt and after vmm_page_alloc.
AllocRollback(s, d, va, at) == [vmm_free_region(s, d, va, at - va) EXCEPT !.ret = FALSE]

RECURSIVE AllocPages(_, _, _, _, _), AllocInTable(_, _, _, _, _), AllocNext(_, _, _, _, _)
AllocPages(s, d, va, at, hi) ==
  IF at >= hi THEN [s EXCEPT !.ret = TRUE]
  ELSE AllocInTable(vmm_create_pt(s, d, at), d, va, at, hi)

AllocInTable(s1, d, va, at, hi) ==
  IF s1.mem[d][DirIndex(at)] = NP THEN AllocRollback(s1, d, va, at)
  ELSE AllocNext(vmm_page_alloc(s1, s1.mem[d][DirIndex(at)], TableIndex(at)), d, va, at, hi)

AllocNext(s2, d, va, at, hi) ==
  IF s2.ret # 0 THEN AllocRollback(s2, d, va, at) ELSE AllocPages(s2, d, va, at + BS, hi)

vmm_alloc_region(s, d, va, size) ==
  IF va = 0 \/ size = 0 THEN [s EXCEPT !.ret = FALSE]
  ELSE AllocPages(s, d, va, va, va + size)

\* vmm_clone_pagetable: a fresh table nt whose present entries point to
\* fresh frames; when a frame allocation fails (a.ret = NULL) the frames of
\* entries 0..i-1 of table tbl are freed, then nt
UndoCopies(a, tbl, nt, i) ==
  LET Undo[j \in 0..i] ==
        IF j = 0 THEN a
        ELSE IF a.mem[tbl][j - 1] = NP THEN Undo[j - 1]
        ELSE FrameFree(Undo[j - 1], a.mem[tbl][j - 1])
  IN [FrameFree(Undo[i], nt) EXCEPT !.ret = NULL]

\* vmm_clone_pagetable copying the entries instead of the pages
RECURSIVE CloneEntries_shallow(_, _, _, _)
CloneEntries_shallow(s, src, nt, i) ==
  IF i >= E THEN [s EXCEPT !.ret = nt]
  ELSE IF s.mem[src][i] = NP THEN CloneEntries_shallow(s, src, nt, i + 1)
  ELSE CloneEntries_shallow([s EXCEPT !.mem[nt][i] = s.mem[src][i]], src, nt, i + 1)

RECURSIVE CloneEntries(_, _, _, _), CopyEntry(_, _, _, _), CopyEntry_frees_source(_, _, _, _)
\* the rollback freeing the source table's frames instead of the copies
CopyEntry_frees_source(a, src, nt, i) ==
  IF a.ret = NULL THEN UndoCopies(a, src, nt, i)
  ELSE CloneEntries([a EXCEPT !.mem[nt][i] = a.ret], src, nt, i + 1)

CopyEntry(a, src, nt, i) ==
  IF a.ret = NULL THEN UndoCopies(a, nt, nt, i)
  ELSE CloneEntries([a EXCEPT !.mem[nt][i] = a.ret], src, nt, i + 1)

CloneEntries(s, src, nt, i) ==
  IF i >= E THEN [s EXCEPT !.ret = nt]
  ELSE IF s.mem[src][i] = NP THEN CloneEntries(s, src, nt, i + 1)
  ELSE CopyEntry(FrameAlloc(s), src, nt, i)

CloneInto(a, src) ==
  IF a.ret = NULL THEN a ELSE CloneEntries([a EXCEPT !.mem[a.ret] = Zeroed], src, a.ret, 0)

vmm_clone_pagetable(s, src) == CloneInto(FrameAlloc(s), src)

\* vmm_clone_pagedir: kernel-half entries, and user-half entries that point
\* to the kernel directory's table, are copied; other present entries get
\* a deep copy.  A failure frees the tables of new entries 0..i-1 and the
\* directory.
RECURSIVE CloneDir_user_only(_, _, _, _, _), CloneDir(_, _, _, _, _), LinkClone(_, _, _, _, _)
\* vmm_clone_pagedir that leaves the kernel half out of the copy
CloneDir_user_only(s, cur, kd, nd, i) ==
  IF i >= KH THEN [s EXCEPT !.ret = nd]
  ELSE IF s.mem[cur][i] = NP THEN CloneDir_user_only(s, cur, kd, nd, i + 1)
  ELSE IF s.mem[kd][i] # NP /\ s.mem[kd][i] = s.mem[cur][i]
  THEN CloneDir_user_only([s EXCEPT !.mem[nd][i] = s.mem[cur][i]], cur, kd, nd, i + 1)
  ELSE LinkClone(vmm_clone_pagetable(s, s.mem[cur][i]), cur, kd, nd, i)

CloneDir(s, cur, kd, nd, i) ==
  IF i >= E THEN [s EXCEPT !.ret = nd]
  ELSE IF s.mem[cur][i] = NP THEN CloneDir(s, cur, kd, nd, i + 1)
  ELSE IF i >= KH \/ (s.mem[kd][i] # NP /\ s.mem[kd][i] = s.mem[cur][i])
  THEN CloneDir([s EXCEPT !.mem[nd][i] = s.mem[cur][i]], cur, kd, nd, i + 1)
  ELSE LinkClone(vmm_clone_pagetable(s, s.mem[cur][i]), cur, kd, nd, i)

\* c is the state after vmm_clone_pagetable of entry i
LinkClone(c, cur, kd, nd, i) ==
  IF c.ret = NULL THEN UndoCopies(c, nd, nd, i)
  ELSE CloneDir([c EXCEPT !.mem[nd][i] = c.ret], cur, kd, nd, i + 1)

CloneDirInto(a, cur, kd) == IF a.ret = NULL THEN a ELSE CloneDir(a, cur, kd, a.ret, 0)

vmm_clone_pagedir(s, cur, kd) ==
  IF cur = NULL \/ kd = NULL THEN [s EXCEPT !.ret = NULL]
  ELSE CloneDirInto(vmm_create_address_space(s), cur, kd)

(***************************************************************************)
(* vmm_init: the kernel directory, the identity map of the first LOW      *)
(* pages, the window onto every frame, then the switch to it               *)
(***************************************************************************)
\* Op of the state s, with s computed before Op runs.  TLC passes operator
\* arguments unevaluated, so a loop that hands each state straight to its
\* next round would compute all of them only at the end, nested n deep.
Step(s, Op(_)) == CHOOSE r \in {Op(t) : t \in {s}} : TRUE

RECURSIVE MapRange(_, _, _, _, _)
MapRange(s, d, va, pa, n) ==
  IF n = 0 THEN s
  ELSE Step(vmm_map_page(s, d, va, pa),
            LAMBDA t : MapRange(t, d, va + BS, pa + BS, n - 1))

MapKernel(k) ==
  [MapRange(MapRange(k, k.ret, 0, 0, LOW), k.ret, PHYS_TO_VIRT(0), 0, F) EXCEPT !.ret = k.ret]

vmm_init ==
  MapKernel(vmm_create_address_space(
    [bm |-> PF!kmm_init.bm, used |-> PF!kmm_init.used,
     mem |-> [f \in Frames |-> Zeroed], ret |-> NULL]))

(***************************************************************************)
(* The segment loader of elf.c.  The file's contents are abstracted to    *)
(* where loading stops: "none" (it loads), "open" (vfs_open, the header  *)
(* malloc, its read or elf_check_hdr fails), "phdr" or "data" of segment  *)
(* i (a short read of its program header or of its p_filesz bytes), and  *)
(* "thread" (elf_load succeeds, then thread_create fails).  ret is 0, -1 *)
(* or FAULT.                                                               *)
(***************************************************************************)
FAULT == -3
Fail(i, at) == [seg |-> i, at |-> at]
LoadFailures ==
  {Fail(0, "none"), Fail(0, "open"), Fail(0, "thread")}
    \cup {Fail(i, at) : i \in 1..Len(Segments), at \in {"phdr", "data"}}

\* the bytes of elf_load_seg after vmm_alloc_region (r): vfs_read and the
\* BSS memset write vaddr..last through the current directory, where an
\* unmapped page is a page fault, which halts
WriteSegment(r, cur, seg, i, fail) ==
  IF ~r.ret THEN [r EXCEPT !.ret = -1]
  ELSE IF seg.filesz > 0 /\ fail = Fail(i, "data") THEN [r EXCEPT !.ret = -1]
  ELSE IF \E va \in seg.vaddr..(seg.vaddr + (IF seg.memsz > seg.filesz THEN seg.memsz
                                                ELSE seg.filesz) - 1) :
            Translate(r.mem, cur, va) = NP
  THEN [r EXCEPT !.ret = FAULT]
  ELSE [r EXCEPT !.ret = 0]

\* elf_load_seg: the region [vaddr page, vaddr + memsz) is allocated in d
elf_load_seg(s, d, cur, seg, i, fail) ==
  WriteSegment(vmm_alloc_region(s, d, PageDown(seg.vaddr),
                                seg.vaddr + seg.memsz - PageDown(seg.vaddr)),
               cur, seg, i, fail)

RECURSIVE LoadSegs(_, _, _, _, _), LoadNext(_, _, _, _, _)
LoadSegs(s, d, cur, i, fail) ==
  IF i > Len(Segments) THEN [s EXCEPT !.ret = 0]
  ELSE IF fail = Fail(i, "phdr") THEN [s EXCEPT !.ret = -1]
  ELSE LoadNext(elf_load_seg(s, d, cur, Segments[i], i, fail), d, cur, i, fail)

\* r is the state after elf_load_seg of segment i
LoadNext(r, d, cur, i, fail) == IF r.ret # 0 THEN r ELSE LoadSegs(r, d, cur, i + 1, fail)

elf_load(s, d, cur, fail) ==
  IF fail.at = "open" THEN [s EXCEPT !.ret = -1] ELSE LoadSegs(s, d, cur, 1, fail)

(***************************************************************************)
(* The specification                                                       *)
(***************************************************************************)
Init ==
  \E k \in {vmm_init} :
    /\ bitmap = k.bm /\ used_frames = k.used /\ mem = k.mem
    /\ kernel_directory = k.ret /\ current_directory = k.ret
    /\ spaces = {} /\ cpu = "run"

S == [bm |-> bitmap, used |-> used_frames, mem |-> mem, ret |-> NULL]
Commit(s) == bitmap' = s.bm /\ used_frames' = s.used /\ mem' = s.mem

\* process_spawn: a fresh address space loaded from the ELF file; on any
\* failure process_destroy drops the directory (it is never freed)
Spawn ==
  /\ cpu = "run" /\ Cardinality(spaces) < MaxSpaces
  /\ \E fail \in LoadFailures, a \in {vmm_create_address_space(S)} :
       /\ a.ret # NULL
       /\ \E l \in {elf_load(a, a.ret, current_directory, fail)} :
          /\ Commit(l)
          /\ cpu' = IF l.ret = FAULT THEN "fault" ELSE "run"
          /\ spaces' = IF l.ret = 0 /\ fail.at # "thread" THEN spaces \cup {a.ret}
                       ELSE spaces
          /\ UNCHANGED <<kernel_directory, current_directory>>

\* process_fork when vmm_clone_pagedir returns NULL
ForkCloneFails ==
  /\ cpu = "run" /\ Cardinality(spaces) < MaxSpaces
  /\ \E c \in {vmm_clone_pagedir(S, current_directory, kernel_directory)} :
       c.ret = NULL /\ Commit(c)
  /\ UNCHANGED <<kernel_directory, current_directory, spaces, cpu>>

\* process_fork with a cloned directory; the thread or kernel stack
\* allocation after it may fail, and process_destroy drops the clone
Fork ==
  /\ cpu = "run" /\ Cardinality(spaces) < MaxSpaces
  /\ \E c \in {vmm_clone_pagedir(S, current_directory, kernel_directory)} :
        /\ c.ret # NULL /\ Commit(c)
        /\ spaces' \in {spaces, spaces \cup {c.ret}}
  /\ UNCHANGED <<kernel_directory, current_directory, cpu>>

\* scheduler_switch to a thread of another process: vmm_switch_pagedir
Switch ==
  /\ cpu = "run"
  /\ \E d \in spaces \cup {kernel_directory} : current_directory' = d
  /\ UNCHANGED <<bitmap, used_frames, mem, kernel_directory, spaces, cpu>>

\* process_destroy: the directory is forgotten, not freed; the kernel
\* directory is loaded if it was the current one
Destroy ==
  /\ cpu = "run"
  /\ \E d \in spaces :
       /\ spaces' = spaces \ {d}
       /\ current_directory' = IF current_directory = d THEN kernel_directory
                               ELSE current_directory
  /\ UNCHANGED <<bitmap, used_frames, mem, kernel_directory, cpu>>

Next == Spawn \/ ForkCloneFails \/ Fork \/ Switch \/ Destroy

Spec == Init /\ [][Next]_vars

(***************************************************************************)
(* Properties                                                              *)
(***************************************************************************)
Live == spaces \cup {kernel_directory}
Present(t) == {i \in Idx : mem[t][i] # NP}
UserTables(d) == {mem[d][i] : i \in {i \in Present(d) : i < KH}}
Tables(d) == {mem[d][i] : i \in Present(d)}
DataFrames(t) == {mem[t][i] : i \in Present(t)}
\* the frames an address space holds: its directory, its tables and the
\* pages of its user half (the kernel half maps the physical window)
Owned(d) == {d} \cup Tables(d) \cup UNION {DataFrames(t) : t \in UserTables(d)}
VAs == 0..(E * E * BS - 1)

TypeOK ==
  /\ bitmap \in [PF!Bits -> BOOLEAN] /\ used_frames \in Int
  /\ mem \in [Frames -> [Idx -> Frames \cup {NP}]]
  /\ kernel_directory \in Frames /\ current_directory \in Live
  /\ spaces \subseteq Frames /\ cpu \in {"run", "fault"}

(* Every frame a live address space uses, as directory, page table or     *)
(* user page, is marked used in the frame bitmap: no rollback path of     *)
(* vmm_alloc_region, vmm_clone_pagetable or vmm_clone_pagedir frees a     *)
(* frame that a live directory still points to, so no frame can be        *)
(* handed out twice.                                                      *)
MappedFramesInUse == \A d \in Live : \A f \in Owned(d) : bitmap[f]

(* Deep copies are independent (spec: writing a deeply cloned page in the *)
(* child must not change the parent): two different user page tables of  *)
(* live address spaces never map the same frame.  Only the tables that    *)
(* vmm_clone_pagedir copies by reference are shared.                      *)
DeepCopiesDisjoint ==
  \A d1, d2 \in Live : \A t1 \in UserTables(d1), t2 \in UserTables(d2) :
    t1 # t2 => DataFrames(t1) \cap DataFrames(t2) = {}

(* A successful vmm_clone_pagedir maps exactly the virtual pages the      *)
(* current directory maps, in both halves.                                 *)
CloneCopiesMappings ==
  [][Fork => \A n \in spaces' \ spaces : \A va \in VAs :
              (Translate(mem', n, va) = NP) <=> (Translate(mem, current_directory, va) = NP)]_vars

(* Every frame the bitmap marks used is reserved by kmm_init or held by a *)
(* live address space: creating and tearing down processes returns their *)
(* directories, tables and pages to the frame allocator (spec: each       *)
(* resource is freed by the subsystem that created it).                   *)
NoLeakedFrames ==
  \A f \in Frames : bitmap[f] => f \in PF!Reserved \/ \E d \in Live : f \in Owned(d)

(* process_spawn builds a complete address space: the new directory     *)
(* shares the kernel half of the kernel directory (spec: directory        *)
(* indices >= 768 are shared by reference across all live address        *)
(* spaces), and each segment's bytes, which elf_load_seg reads from the  *)
(* file, are at p_vaddr of the new directory, the load never faulting.   *)
SpawnedSpaceComplete ==
  [][Spawn => /\ cpu' = "run"
              /\ \A n \in spaces' \ spaces :
                   /\ \A i \in KH..(E - 1) : mem'[n][i] = mem'[kernel_directory][i]
                   /\ \A i \in 1..Len(Segments) :
                        \A va \in Segments[i].vaddr..(Segments[i].vaddr + Segments[i].filesz - 1) :
                          Translate(mem', current_directory, va) = Translate(mem', n, va)]_vars
==============================================================================
