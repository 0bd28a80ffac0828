# TLA+ models of the x86 kernel

These are TLA+ models of the kernel under `src/`, with TLC configurations that check them.
Each module is translated from the C source. `PROJECT.json` maps every definition to the lines it models, and it lists the runs, the mutants that show each property can fail, the findings and the hazards.

## The system and its parts

| Part | Source | State | Interacts with |
|---|---|---|---|
| Scheduler, processes, threads | `src/process/process.c`, `tss.c` | `process_list`, the ready queue (`ready_queue_head`/`tail`, linked through `thread_t.next`), each process's `thread_list` (also linked through `thread_t.next`), `current_thread`, `current_proc`, timeslices, TSS `esp0`, CR3 | the heap (TCBs, PCBs, stacks), the VMM (address spaces), the ELF loader, the timer interrupt |
| Kernel heap | `src/mm/kheap.c` | buddy free lists per order; an 8-byte header (size, magic) in front of each live block | the VMM (heap pages); every kernel allocation |
| Physical frame allocator (PFA) | `src/mm/kmm.c` | a frame bitmap, `used_frames` | the e820 map from the boot loader; the VMM's page tables |
| Virtual memory manager | `src/mm/vmm.c` | page directories and tables | the PFA; the scheduler (CR3); the page-fault vector 14 |
| HFS file system | `src/filesys/hfs.c` | superblock, inode and block bitmaps, inodes, directory entries | a block device; the heap |
| ELF loader | `src/process/elf.c` | none of its own | the VMM; the HFS; `process_spawn` |
| Keyboard | `src/driver/keyboard.c` | modifier flags, a 32-slot ring buffer | IRQ1 (vector 33); a reader that polls `kbd_getlastkey_buf` |
| VGA, IDT, interrupt dispatch | `src/driver/vga.c`, `src/init/*.c` | the text buffer; the handler table | every handler |

There is one CPU. The spec (lines 164-166) says the timer is the only source of asynchronous scheduling, and a tick is the only point where a thread is suspended. An interrupt handler runs behind an interrupt gate, so each handler is one atomic step. Code that runs with interrupts enabled can be interrupted between any two of its shared accesses.

## Modules

**`Scheduler.tla`** models `process.c`.
- Process and thread structures are heap slots (`Procs`, `Threads`). A freed slot can be handed out again.
- The links (`next`, `pnext`, `thread_list`, `main_thread`, ready queue head and tail) are functions on slots.
- The kernel's whole state is one record, so each C function is an operator from record to record. Calls chain through `Then`, which stops once the CPU has halted or hung.
- The C list walks are `Chain`/`Loops`. A walk around a cycle sets `cpu` to `"hang"`, and the idle `hlt` loop of the reaper sets `"halt"`.
- The actions are:
  - `Tick` is `scheduler_tick`, with its reap and preempt halves and `scheduler_switch`.
  - `Spawn` is `process_spawn` with each outcome as a disjunct: address-space failure (`create_fails`), ELF or thread failure (`create_aborts`), or success.
  - `Fork` is `process_fork`, with the same three outcomes.
  - `Exit` is `process_exit` of the caller's own process. Its `int $0x20` runs the tick at once, so the call is one step.
  - `process_exit` of another process is three steps of the calling thread, recorded in `exiting`:
    - `ExitOther` is the marking loop.
    - `ExitDestroy` is `process_destroy` up to its thread loop. It returns at once if the process has become current meanwhile.
    - `ExitLink` is the stores of `remove_from_ready_queue` after its walk, with the `curr` the walk found.
    - `exit_loop` runs the loop of `process_destroy` from one walk to the next. A walk that finds a predecessor stops there, before its stores, and the thread runs `ExitLink` later, whenever it is current again.
    - A tick can come between any two of these steps unless `ExitMasksIrq` holds. At most one such exit is in progress at a time.
  - `Stopped` stutters once the CPU has halted or hung.
- The ELF loader and the address-space calls are reduced to success or failure. Pids, names and register frames are left out.

**`BuddyHeap.tla`** models `kheap.c`.
- Addresses are byte offsets in a heap of `2^MAX_ORDER` bytes.
- Each order has its free list as a sequence, head first. The headers (`magic`, `hsize`) are functions on 32-byte-aligned addresses.
- `size_t` arithmetic is taken mod `2^W`, and the buddy address is `a ^^ size` (Bitwise).
- `kmalloc` (order search, split, header) and `kfree` (magic check, coalescing loop) are operators, and `krealloc` is built from them.
- The actions are `Malloc`, `Free` of a live pointer, `BadFree` (a double free or a free of a non-start pointer), and `Realloc` with its four branches.

**`HeapIrq.tla`** composes `kmalloc` in thread context with the `kfree` of the reaper in `scheduler_tick` (`process.c:465`) on the same heap, run while the `kmalloc` thread is preempted. It instances `BuddyHeap` (`H == INSTANCE BuddyHeap`) for the heap state, the helpers and `kfree`.
- `kmalloc` is split at its accesses to the free lists. `KmallocStart` is the size check and both search loops, `SplitPop`, `PushFirst` and `PushSecond` are one round of the split loop, and `Take` is the final `list_pop` and the header writes. `pc`, `order`, `cur` and `block` are its locals.
- `TickReap` is a `kfree` of an earlier block by the reaper. It runs while the `kmalloc` thread is preempted: a tick switches away from it, another thread exits its own process, and that exit's `int $0x20` reaps the process with `kfree`. The model keeps only the heap's view of this: one atomic `kfree` between two steps of `kmalloc`.
- `list_pop` of an empty list returns NULL. That is `Zero`, an address outside the heap, and `kmalloc` carries on with it as the code does; a header write to it is not tracked.
- The search loops run as one step. An interrupt in the middle of them changes only which list is chosen, and that list is checked again by nothing.

**`PFA.tla`** models `kmm.c`.
- The scale is `BS` bytes per frame, `WORD` bits per bitmap word, and `LOW` frames for the first MiB.
- `Init` is `kmm_init` computed from the constant e820 map: the usable regions are freed, then the first MiB, the kernel and the bitmap are reserved.
- The actions are `Alloc` (`kmm_frame_alloc`, with its low-frame skip loop), `Free` of a held frame, and `BadFree` of a free, low, out-of-range or NULL address.

**`Keyboard.tla`** models `keyboard.c`.
- The IRQ1 handler is split into one action per branch: shift, alt and ctrl keys, and other keys (lock toggles, then a push of make codes).
- The reader's `_kbd_ring_buffer_pop` is split at its shared accesses: `PopCheck`, `PopLoad` and `PopAdvance`. The handler can run between any two of them.
- `sent` and `got` are history variables: what the handler stored and what the reader returned.

**`VMM.tla`** models `vmm.c` and the loader of `elf.c`, over `PFA` (`PF == INSTANCE PFA`, sharing `bitmap` and `used_frames`).
- `mem` maps each frame to `E` entries, each the number of the frame it points to or `NP`. A directory and a table are frames like any other, as in the code. Flag bits and data contents are left out.
- The machine is scaled down: `E` entries per table and `BS`-byte pages; the kernel half starts at directory index `KH` (768 in the code), and `PHYS_TO_VIRT` adds `KH * E * BS`.
- Every function of `vmm.c` is an operator from a state record `[bm, used, mem, ret]` to the next, so calls compose as in C. The C loops are `RECURSIVE` operators: `FreePages`/`FreeEmptyTables` (`vmm_free_region`), `AllocPages` (`vmm_alloc_region` with its rollback), `CloneEntries`/`CloneDir` (the clone loops with their `j < i` rollbacks), `MapRange` (`vmm_init`).
- Where the C code keeps a result (the state after `kmm_frame_alloc`, `vmm_create_pt`, `vmm_page_alloc`, a table clone or a segment load) and then tests it, the rest of the function is an operator that takes that state as an argument: `LinkTable`, `StorePage`, `AllocInTable`/`AllocNext`, `CopyEntry`, `LinkClone`, `WriteSegment`, `LoadNext`. Each such state is bound once, and the actions bind theirs with `\E x \in {...}`. The `j < i` rollbacks share `UndoCopies`.
- `vmm_init`'s loops (`MapRange`) hand each round's state on through `Step`, which computes it first. TLC passes operator arguments unevaluated, so otherwise it would build all 28 mapped pages in one nested evaluation at the end, deep enough to overflow the Java stack.
- `Translate` is the MMU walk of `vmm_get_phys_frame`.
- `elf_load` and `elf_load_seg` run over a constant list of LOAD segments. Each failure point (open, a header read, a short data read, the thread creation after the load) is an input `Fail(i, at)`. The write of the segment's bytes goes through the current directory, as in the code, and a write to an unmapped page is the page-fault handler's halt (`cpu = "fault"`).
- The actions are the callers of the VMM in `process.c`: `Spawn` (`vmm_create_address_space` then `elf_load`), `Fork` and `ForkCloneFails` (`vmm_clone_pagedir`), `Switch` (the CR3 load of `scheduler_switch`) and `Destroy` (`process_destroy`, which forgets the directory).

**`HFS.tla`** models `hfs.c` over an abstract block device.
- The disk is `bbm`/`ibm` (the bitmap blocks), `itab` (the inode table) and `blk` (the data blocks). Each data block is a record with three views: directory slots `ent`, indirect pointers `ptr` and bytes `dat`. `mb`/`mi` are the bitmaps cached in `struct hfs_data`.
- Every helper is an operator on a call state `[bbm, ibm, mb, mi, itab, blk, io, fail, ret, nd, buf]`, so C calls compose as in the code. `ret` is the C return value and `nd` the caller's `struct inode` after the call. The loops are `RECURSIVE` groups, and so is `hfs_remove`'s recursion over the children's paths.
- Fault model: `io` counts block-device calls, and the call numbered `fail` returns -1. Each action picks `fail` from `FailAt`, which is empty of faults once `MaxFaults` have happened. The device is not in the repository, so `blkwrite`, `Fails`, `Tick` and `Err` are modelled from spec.md.
- The actions are `Create`, `Mkdir`, `Remove`, `Open`, `Close` and `Write`, one per vnode operation, plus `Unmount` and `Mount` (`hfs_unmount`, `hfs_mount`). `Init` is the state `hfs_format` and `hfs_mount` leave.
- `mounted` records whether a `vfs` is live. `Unmount` drops the cached bitmaps without writing anything back, as the code does. `Mount` reads the superblock and both bitmaps, and fails with `NULL` if any read fails. On a fault-free device a remount returns to an earlier state, because the cache always equals the disk there. It matters under faults: a free whose bitmap write failed comes back at the next mount. Names are model values and a path is a sequence of them.
- `vnodes` holds what a vnode keeps (inode number, type). `shadow` is a history variable: the size and bytes each file should read back, given what `hfs_write` reported.
- Three assumptions about callers, none checked by the code: `Unmount` is called only with every vnode closed; `Remove` is not called on a path below an open vnode (`RemoveOpen = FALSE`); and `Write` only goes through non-directory vnodes. The first two are hazards (below).

**`KeyQueue.tla`** is what the keyboard driver promises its reader: a FIFO of at most `Cap` keys that loses a key typed while it is full. `Keyboard` refines it (below).

The `MC*.tla` modules give the constants their values.

## Refinement

`Keyboard` instantiates `KeyQueue` with `q <- Pending` (the ring's entries from `tail` to `head`), `taken <- got`, `lost <- dropped` and `Cap <- SIZE - 1`, and `kbd_ring` checks `KeyQueueSpec == KQ!Spec` as a property. `dropped` is a history variable that counts the make codes `_kbd_ring_buffer_push` threw away; it exists only so the mapping can tell a lost key from a stutter. The refinement says the ring gives up a key only when `SIZE - 1` keys wait, that the split pop takes exactly the oldest key, and (with `WF(Take)`) that waiting keys are eventually read.

## Runs

| Run | Expect | What it shows |
|---|---|---|
| `sched_safety` (`MCScheduler.cfg`) | pass, 785k states, about 2 min | Run with `ExitMasksIrq = TRUE`, the discipline spec line 166 asks for. The ready queue stays a well-formed acyclic FIFO of READY threads, with correct tail and live members (`ReadyQueueIntact`). Exactly the current thread is RUNNING (`RunningIsCurrent`). TSS `esp0` and CR3 follow the current thread (`CpuContextMatchesCurrent`). Every thread on the ready queue eventually runs (`QueuedThreadRuns`). |
| `sched_exit_race` (`MCSchedulerExitRace.cfg`) | violation | `ReadyQueueIntact` with `ExitMasksIrq = FALSE`, as the code runs: a tick inside the exit of another process corrupts the queue (finding 8). |
| `sched_exit_kills` | violation | `ThreadDiesWithItsProcess`: exiting one process kills a queued thread of another. |
| `sched_lists` (`MCSchedulerLists.cfg`) | violation | `ListsMatchAllocations`: what the kernel has allocated and what its lists reach disagree. TLC reports the 2-state trace of finding 2 (a failed spawn leaves a freed process on `process_list`). With the process-list conjunct removed, the same run reports finding 3 (a reaped thread stays allocated). |
| `heap_safety` (`MCBuddyHeap.cfg`) | pass, 59k states | Free and live blocks tile the heap (`HeapTiled`). No two free buddies are left unmerged (`MaximalCoalescing`). The magic marks exactly the live blocks (`MagicMeansLive`). Each block holds its request (`SizeCoversRequest`). |
| `pfa_safety` (`MCPFA.cfg`) | pass | Held frames are never reserved and never handed out twice (`FramesExclusive`). Allocation is first fit above 1 MiB (`AllocIsFirstFit`). |
| `kbd_ring` (`MCKeyboard.cfg`) | pass, 22k states | The reader gets the stored keys in order, none lost, repeated or overwritten (`DeliveredInOrder`). The driver implements `KeyQueue` (`KeyQueueSpec`): a key is dropped only when `SIZE - 1` wait, and waiting keys are eventually read. |
| `vmm_safety` (`MCVMM.cfg`) | pass, 3.4k states | Every frame a live directory reaches is allocated, through clone failures and rollbacks (`MappedFramesInUse`). A fork's user tables and pages are its own, disjoint from every other space's (`DeepCopiesDisjoint`). A fork maps every address its parent maps, to a copy in the user half and to the same frame in the kernel half (`CloneCopiesMappings`). |
| `heap_irq` (`MCHeapIrq.cfg`) | violation | `KmallocReturnsHeapBlock`: the reaper's `kfree`, run while the `kmalloc` thread is preempted, comes between `kmalloc`'s check of a free list and its pop, and `kmalloc` returns address 0 (finding 6). |
| `hfs_safety` (`MCHFS.cfg`) | pass, 172k states, about 1.5 min | On a fault-free device, the cached and on-disk bitmaps mark exactly the metadata, the inodes reachable from the root and the blocks they own, each owned once (`AllocationExact`). The directories form a tree with unique names per directory (`DirectoryTree`). Reading a whole file returns the bytes and size the writes reported, through holes, partial-block read-modify-write and the indirect block (`ReadReturnsWritten`). |
| `hfs_io_fault` (`MCHFSFault.cfg`) | violation | `ReadReturnsWritten` with one device failure allowed among the first 12 calls of an operation: a 1-byte write reports 1 byte, and the file reads back empty (finding 4). |
| `vmm_spawn` (`MCVMMSpawn.cfg`) | violation | `SpawnedSpaceComplete`: a spawned space has no kernel half, and its ELF segment is written through the parent's directory (findings 5 and 7). |

Each property of a passing run has a mutant in `PROJECT.json`: a one-definition change that a plausible bug would make, and that TLC catches.

### Findings

1. **Shared `next` link** (`process.c:124`). A thread's `next` serves both the ready queue and its process's thread list. `process_destroy` follows it from the thread list into the ready queue, so `process_exit` of a non-current process destroys threads of other processes. The spec describes two lists. TLC's trace is three steps: spawn, spawn, and the marking loop of the exit, which already marks the other process's thread TERMINATED.
2. **Freed process left on `process_list`** (`process.c:156`, `201`, `465`). This happens on the address-space failure paths of spawn and fork, and when the current process exits.
3. **Reaped threads are never freed** (`process.c:440-469`). The spec says reaping frees the kernel stack.
4. **A failed write reports bytes the file does not hold** (`hfs.c:1083`). `hfs_write` ignores its last `write_inode` and returns the byte count. The new block is already linked on disk by the `write_inode` at line 1052, but the size was never stored, so a read returns less. The spec's error table (line 204) asks for a short count or an error.
5. **Spawned address spaces lack the kernel half** (`vmm.c:42`). `vmm_create_address_space` returns a zeroed directory and `process_spawn` uses it as is. The spec says entries from 768 on are shared by every address space; the first instruction after a switch to such a space would fault.
6. **The reaper's `kfree` races `kmalloc`** (`kheap.c:187`, `process.c:465`). `kmalloc` checks that a free list is non-empty, and pops it later without checking again. It takes no lock and leaves interrupts enabled. Spec line 166 says no allocator activity may run concurrently, but `scheduler_tick` reaps a dead process with `kfree` on the kernel heap. The `kfree` does not come from the tick that interrupts `kmalloc`, since the thread inside `kmalloc` is not dead. The path is:
   - a tick preempts the thread inside `kmalloc`;
   - another thread calls `process_exit` on its own process, and its `int $0x20` reaps it with `kfree(dead_proc)` (`process.c:465`);
   - the first thread resumes later where it stopped.

   `TickReap` stands for that whole detour: one `kfree` of an earlier block between two steps of `kmalloc`. TLC's trace has 12 states:
   - `kmalloc(40)` (order 6) splits the 256-byte heap three times and returns 192, which leaves 128 on the order-6 list.
   - A second `kmalloc(40)` finds 128 on that list and stops before its final `list_pop`.
   - The reap frees 192, which merges with 128 and then with the free 0 into the whole heap.
   - The final `list_pop` finds the order-6 list empty and returns NULL. `kmalloc` writes a header at address 0 and returns `(void*)8`.
7. **ELF segments are written into the wrong address space** (`elf.c:28`, `37`). `elf_load_seg` maps the pages in the new directory, then reads the file and zeroes the BSS through the current one. With a low segment the bytes land in the identity-mapped frames of the kernel; with a segment the caller does not map, the page-fault handler halts the machine.
8. **A tick inside `process_exit` corrupts the ready queue** (`process.c:86`). `process_exit` of another process runs with interrupts enabled. `remove_from_ready_queue` walks to the predecessor `curr` and only then stores through it. Spec line 166 asks callers to mask interrupts around such mutations, but only `scheduler_post` does (lines 552-564). TLC's trace has 11 states:
   - t1 spawns t2 and t3, so the queue is t2, t3. t1 then exits t3's process, and the walk finds t2.
   - A tick switches to t2, which exits itself. The reap switches to t3.
   - Two ticks later t1 runs again. It stores `t2->next = NULL`, moves the tail to the dead t2, and frees t3.
   - The head is left on the freed t3 and the tail on the dead t2. Every later dequeue and post works on freed or dead threads, and a thread posted behind t2 is out of the head's reach and never runs.

Two edge cases are listed as hazards rather than findings, because no caller in `src/` reaches them. The first is `kmalloc`'s `size + 8`, which wraps for requests near `SIZE_MAX` (`kheap.c:153`). The second is the frame range of `kmm.c:54`, which rounds an unaligned `kernel_end` down; the linker script that fixes `kernel_end` is not in the repository. `SizeCoversRequest` and `FramesExclusive` are the properties that would catch each of them.

The other HFS I/O-failure paths are listed as hazards: a remove that frees the inode and then fails to unlink it, frees whose bitmap write fails, and creates whose last parent write fails. `hfs_io_fault` stops at the first violation it meets, which is finding 4.

Address spaces are never freed (`process.c:131`): `process_destroy` clears `page_dir` without freeing the directory, its tables or its pages. This is listed as a hazard. `MCVMMLeak.cfg` makes TLC report `NoLeakedFrames` violated after one spawn whose ELF load fails. It has no run of its own, because the twelve run slots go to the findings above.

`used_frames` drift (`kmm.c:60`) is also listed as a hazard. Regions are counted by length, not by the bits that changed, so the first MiB is counted twice when the e820 map reserves part of it. Spec line 64 says the counter equals the number of set bits. `MCPFALowMemory.cfg` (a PC-like map) makes TLC report `UsedFramesCount` violated in the initial state. `pfa_safety` runs on a flat map, where the property happens to hold, so it does not check it. The drift has no run slot of its own, because only `kmm_get_used_frames` reads the counter and nothing in `src/` calls it.

## Bounds

- **Scheduler:** three thread slots and three process slots, with a timeslice of 2.
  - Three threads are enough for a queue of two behind a running thread, and for the cross-process link of finding 1.
  - A timeslice of 2 separates the decrement from the refill.
  - `sched_safety` fixes the init slots to `p1`/`t1` (`MCInit`). Init picks them with `\E`, so every behaviour is a renaming of one that starts there. This reduction is sound for liveness too, unlike `SYMMETRY`, which the two short violation runs use.
  - `sched_safety` also gives TLC a view (`SchedView`) that leaves out the timeslice of threads that are not running. `scheduler_tick` reads and changes only the current thread's timeslice, and `ready_queue_dequeue` overwrites it in the step that makes a thread current. So states that differ only there have the same futures, and a timeslice can leave its range only while its thread runs, where the view keeps it.
  - One exit of another process is in progress at a time. The race needs only one, and a second would run the same code against a queue the first already corrupts.
- **BuddyHeap:** 256 bytes with 32-byte minimum blocks gives four orders and eight minimum blocks, so splits and merges run three levels deep.
  - The requests hit each order, and one fits no block.
- **HeapIrq:** the same heap, with requests of 24 and 40 bytes (orders 5 and 6). The first allocation splits three levels. The race then needs one more allocation and one free, so the trace has 12 states.
- **PFA:** 18 frames in five 4-bit words.
  - Padding bits past `total_frames` exercise the cut-off of `find_first_free`.
  - The kernel and bitmap span several frames, and nine frames can be handed out, which exhausts the allocator.
- **Keyboard:** a ring of 3 slots, which is 2 usable. Both the full test and the index wrap are reached. At most three make codes are typed in a run (stored or dropped), so a third key typed before any is read is dropped. The keys are one of each kind the handler treats differently.

- **VMM:** 20 frames of 8 bytes, 8-entry tables, kernel half from index 5. Frames 0-7 are reserved (first "MiB", kernel, bitmap) and `vmm_init` takes five more, so seven are left for user spaces: enough for one spawn (directory, table, two pages) and a fork of it, and too few for a second fork, so the clone rollback runs. At most two user spaces live at once. The ELF file has one segment of two pages inside the identity-mapped range, the case where the misdirected write lands silently.

- **HFS:** 8 blocks of 2 bytes, 3 inodes, one direct and two indirect pointers, one slot per directory block, names `{a, b}`, one handle, paths of depth at most 2, writes of 1 or 4 bytes at offsets 0, 1 and 3.
  - One slot per block means a directory's second entry needs a second block, reached through the indirect block. A 4-byte write at 1 or 3 covers a partial block, a whole block and the indirect pointers.
  - Three blocks are free after the root's, so a file of three blocks (direct, indirect, one listed) exhausts the device, and the allocation failure path runs.
  - Three inodes allow `/a` and `/a/b` at once, so `hfs_remove` recurses into a directory.
  - Symmetry is over names and handles only. The data bytes are integers compared with zero-filled holes.

## Fairness

- **`sched_safety`** assumes the timer keeps firing. `Spec` states this as `SF_vars(Tick) /\ WF_vars(ExitStep)`:
  - strong fairness on the tick, because a tick that arrives while the exit masks interrupts stays pending in the PIC and is delivered once they are unmasked, not lost;
  - weak fairness on the exit's steps, because the CPU goes on with the thread it runs.

  `MCSpec` writes this as one formula without `ENABLED`, which TLC checks far faster: `<>[]~TimerDue \/ []<><<Tick>>_vars`, where `TimerDue` says a thread is running. Under `ExitMasksIrq` the two forms agree. A tick with a current thread always changes the state when `DEFAULT_TIMESLICE = 2`. A tick is disabled only inside an exit, so no tick can come unless the exit's steps are taken.

  The periodic PIT timer justifies the assumption, with one caveat in the hazards: the PIC EOI is sent only after a handler returns, and `scheduler_switch` never returns. Whether the timer keeps firing therefore depends on `pic_init`, which is not in the repository.
- **`vmm_safety`** checks safety only, with no fairness.
- **`heap_irq`** is a safety run. The preemption that lets the reap run may come at any step, which is what the PIT timer allows.
- **`kbd_ring`** assumes weak fairness of the reader. This is an assumption about the consumer, since no caller of `kbd_getlastkey_buf` is in `src/`.

## Not modelled

- **`hfs.c`, left out:** the `readdir` path, which is `NULL` in the vnode table; the debug listings `fs_list`, `fs_stat_file` and `fs_stat`; byte-level path and name handling (the 256- and 512-byte buffers, `strncpy` truncation). No passing run injects device faults: with faults, `AllocationExact` and `ReadReturnsWritten` fail, through the partial-failure hazards listed in `PROJECT.json`.
- **`elf.c` header checks:** `elf_check_hdr` and the header reads are reduced to a failure input; they compare bytes and nothing in them depends on order or state.
- **VMM and Scheduler together:** `VMM` has its own coarse process actions; the two are not composed.
- **Finer interleavings inside `kheap.c`:** a tick inside `list_push` or `list_remove`, between a node's `next` and `prev` writes, can also corrupt a list. `HeapIrq` treats each list operation as atomic. The coarser race it does show is already a violation.
- **The heap and the frame allocator against later ticks:** `HeapIrq` composes one thread with the reaper's `kfree` only. `kmalloc` from the tick, or `kmm` calls from interrupt context, do not occur in `src/`.
- **Other preemption points in `process.c`:** `ExitMasksIrq` covers only the exit of another process. The marking loop of a self-exit, the head case of `remove_from_ready_queue`, a tick between two `thread_destroy` calls or before a walk, and the `process_destroy` on the failure paths of spawn and fork each run as one step. A tick at those points only lets the queue change before code that reads it afresh. The window that uses a stale read, between the walk and its stores, is the one modelled.
- **Left out as pure I/O or table setup:** VGA, the IDT tables, the dispatch table, and TSS descriptor setup. The TSS `esp0` update is in Scheduler.
