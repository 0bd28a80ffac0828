--------------------------------- MODULE PFA ---------------------------------
(***************************************************************************)
(* The physical frame allocator of src/mm/kmm.c: kmm_init builds the      *)
(* bitmap from the firmware memory map, kmm_frame_alloc and               *)
(* kmm_frame_free hand frames out and take them back.                      *)
(*                                                                         *)
(* Sizes are scaled down: a frame is BS bytes (_KMM_BLOCK_SIZE), a bitmap *)
(* word WORD bits, the reserved low region LOW frames (0x100000 bytes and *)
(* the 256 of kmm_frame_alloc and kmm_frame_free are both LOW * BS bytes). *)
(* Addresses are byte addresses in that scale.  The bitmap covers         *)
(* bitmap_size * WORD bits, the ones at or above F included.              *)
(***************************************************************************)
EXTENDS Integers, Sequences, FiniteSets

CONSTANTS
  F,          \* total_frames, from the e801 memory size
  BS,         \* _KMM_BLOCK_SIZE (and _KMM_BLOCK_ALIGNMENT)
  WORD,       \* bits per bitmap word
  LOW,        \* frames of the first MiB
  E820,       \* the e820 map: a sequence of [base, len, type]
  KSTART,     \* physical address of kernel_start
  KEND        \* physical address of kernel_end

ASSUME F \in Nat /\ BS \in Nat \ {0} /\ WORD \in Nat \ {0} /\ LOW \in Nat
ASSUME KSTART \in Nat /\ KEND \in Nat /\ KSTART <= KEND

NONE == -1     \* (uint32_t)-1, find_first_free's "no frame"
NULL == -2     \* the NULL pointer (never a frame address: frame 0 is reserved)
bitmap_size == (F + WORD - 1) \div WORD
Bits == 0..(bitmap_size * WORD - 1)
Frames == 0..(F - 1)
\* where kmm_init puts the bitmap, and how many bytes it reserves for it
bitmap_phys == ((KEND + BS - 1) \div BS) * BS
bitmap_memory_size == (((bitmap_size * 4) + BS - 1) \div BS) * BS

VARIABLES
  bitmap,       \* memory_bitmap, one bit per frame: TRUE = used
  used_frames,
  held          \* addresses callers got from kmm_frame_alloc and still own

vars == <<bitmap, used_frames, held>>

(***************************************************************************)
(* Helpers of kmm.c on s = [bm, used]                                      *)
(***************************************************************************)
mark_frame(s, f) == [s EXCEPT !.bm[f] = TRUE, !.used = @ + 1]

\* kmm_setup_memory_region: every frame of [base/BS, (base+size)/BS) below
\* total_frames is set or cleared, and counted, whatever its bit was
kmm_setup_memory_region(s, base, size, is_reserved) ==
  LET fr == {f \in (base \div BS)..((base + size) \div BS - 1) : f < F}
  IN [s EXCEPT !.bm = [b \in Bits |-> IF b \in fr THEN is_reserved ELSE @[b]],
               !.used = IF is_reserved THEN @ + Cardinality(fr)
                        ELSE @ - Cardinality(fr)]

\* find_first_free scanning every bit of a word but the last
RECURSIVE find_first_free_short(_, _)
find_first_free_short(bm, i) ==
  IF i >= bitmap_size THEN NONE
  ELSE IF \A j \in 0..(WORD - 2) : bm[i * WORD + j]
  THEN find_first_free_short(bm, i + 1)
  ELSE LET j == CHOOSE j \in 0..(WORD - 2) :
                  ~bm[i * WORD + j] /\ \A k \in 0..(j - 1) : bm[i * WORD + k]
       IN IF i * WORD + j >= F THEN NONE ELSE i * WORD + j

\* find_first_free: skip full words, then the first clear bit of the word;
\* a frame at or past total_frames ends the search
RECURSIVE find_first_free(_, _)
find_first_free(bm, i) ==
  IF i >= bitmap_size THEN NONE
  ELSE IF \A j \in 0..(WORD - 1) : bm[i * WORD + j]
  THEN find_first_free(bm, i + 1)
  ELSE LET j == CHOOSE j \in 0..(WORD - 1) :
                  ~bm[i * WORD + j] /\ \A k \in 0..(j - 1) : bm[i * WORD + k]
       IN IF i * WORD + j >= F THEN NONE ELSE i * WORD + j

\* kmm_frame_alloc returning the frame without marking it
RECURSIVE kmm_frame_alloc_unmarked(_)
kmm_frame_alloc_unmarked(s) ==
  LET f == find_first_free(s.bm, 0)
  IN IF f # NONE /\ f < LOW THEN kmm_frame_alloc_unmarked(mark_frame(s, f))
     ELSE IF f = NONE THEN [s EXCEPT !.ret = NULL]
     ELSE [s EXCEPT !.ret = f * BS]

\* kmm_frame_alloc returning the frame number instead of its address
RECURSIVE kmm_frame_alloc_number(_)
kmm_frame_alloc_number(s) ==
  LET f == find_first_free(s.bm, 0)
  IN IF f # NONE /\ f < LOW THEN kmm_frame_alloc_number(mark_frame(s, f))
     ELSE IF f = NONE THEN [s EXCEPT !.ret = NULL]
     ELSE [mark_frame(s, f) EXCEPT !.ret = f]

\* kmm_frame_alloc: frames of the first MiB it meets are marked and passed
\* over; `ret` is the address returned, NULL on failure
RECURSIVE kmm_frame_alloc(_)
kmm_frame_alloc(s) ==
  LET f == find_first_free(s.bm, 0)
  IN IF f # NONE /\ f < LOW THEN kmm_frame_alloc(mark_frame(s, f))
     ELSE IF f = NONE THEN [s EXCEPT !.ret = NULL]
     ELSE [mark_frame(s, f) EXCEPT !.ret = f * BS]

\* kmm_frame_free: NULL, out-of-range, low and already free frames are
\* ignored
kmm_frame_free(s, addr) ==
  LET f == addr \div BS
  IN IF addr = NULL \/ f >= F \/ f < LOW \/ ~s.bm[f] THEN s
     ELSE [s EXCEPT !.bm[f] = FALSE, !.used = @ - 1]

\* kmm_init after the bitmap is filled with 0xFFFFFFFF: the type-1
\* entries in map order, then the first MiB, the kernel and the bitmap
RECURSIVE free_usable(_, _)
free_usable(s, i) ==
  IF i > Len(E820) THEN s
  ELSE free_usable(IF E820[i].type = 1
                   THEN kmm_setup_memory_region(s, E820[i].base, E820[i].len, FALSE)
                   ELSE s, i + 1)

kmm_init ==
  LET s0 == [bm |-> [b \in Bits |-> TRUE], used |-> F, ret |-> NULL]
      s1 == free_usable(s0, 1)
      s2 == kmm_setup_memory_region(s1, 0, LOW * BS, TRUE)
      s3 == kmm_setup_memory_region(s2, KSTART, KEND - KSTART, TRUE)
  IN kmm_setup_memory_region(s3, bitmap_phys, bitmap_memory_size, TRUE)

(***************************************************************************)
(* The specification                                                       *)
(***************************************************************************)
St == [bm |-> bitmap, used |-> used_frames, ret |-> NULL]

Init ==
  /\ bitmap = kmm_init.bm
  /\ used_frames = kmm_init.used
  /\ held = {}

\* a caller (vmm_page_alloc, vmm_get_or_create_table, ...) takes a frame
Alloc ==
  LET s == kmm_frame_alloc(St)
  IN /\ bitmap' = s.bm /\ used_frames' = s.used
     /\ held' = IF s.ret = NULL THEN held ELSE held \cup {s.ret}

\* a caller gives a frame back
Free ==
  \E a \in held :
    LET s == kmm_frame_free(St, a)
    IN /\ bitmap' = s.bm /\ used_frames' = s.used
       /\ held' = held \ {a}

\* kmm_frame_free of an address the caller does not own: a frame it freed
\* already, the last frame of the first MiB, one past the end, NULL
BadFree ==
  \E a \in {f * BS : f \in {g \in Frames : ~bitmap[g]}}
             \cup {(LOW - 1) * BS, F * BS, NULL} :
    LET s == kmm_frame_free(St, a)
    IN /\ bitmap' = s.bm /\ used_frames' = s.used
       /\ UNCHANGED held

Next == Alloc \/ Free \/ BadFree

Spec == Init /\ [][Next]_vars

(***************************************************************************)
(* Properties                                                              *)
(***************************************************************************)
TypeOK ==
  /\ bitmap \in [Bits -> BOOLEAN]
  /\ used_frames \in Int
  /\ held \subseteq {f * BS : f \in Frames}

\* frames kmm_init must keep away from every caller: the first MiB, the
\* pages holding the kernel image and the pages holding the bitmap
Reserved ==
  {f \in Frames :
     \/ f < LOW
     \/ f * BS < KEND /\ KSTART < (f + 1) * BS
     \/ f * BS < bitmap_phys + bitmap_memory_size /\ bitmap_phys < (f + 1) * BS}

(* used_frames is the number of set bits of the bitmap (spec: "used_frames *)
(* == popcount(B) at every quiescent point").  kmm_setup_memory_region    *)
(* counts every frame of a region, whether its bit changed or not, and    *)
(* kmm_init reserves the first MiB after freeing the usable entries, so   *)
(* it fails from the initial state on a map with a reserved hole below   *)
(* 1 MiB (MCPFALowMemory.cfg).                                            *)
UsedFramesCount == used_frames = Cardinality({f \in Frames : bitmap[f]})

(* No frame of the first MiB, of the kernel image or of the bitmap is     *)
(* ever handed to a caller, and no frame is handed out while a caller     *)
(* still holds it: the reserved regions of kmm_init and the range and     *)
(* double-free checks of kmm_frame_free must agree with kmm_frame_alloc.  *)
FramesExclusive ==
  \A a \in held : a \div BS \notin Reserved /\ bitmap[a \div BS]

(* kmm_frame_alloc is first fit above the first MiB: the frame it returns *)
(* is the lowest free frame at or above LOW, and it fails only when there *)
(* is none.  It is about the word-skipping scan of find_first_free and    *)
(* its total_frames cut-off.                                              *)
LowestFree == {f \in Frames : f >= LOW /\ ~bitmap[f]}

AllocIsFirstFit ==
  [][Alloc =>
       IF LowestFree = {} THEN held' = held
       ELSE held' = held \cup {BS * CHOOSE f \in LowestFree :
                                      \A g \in LowestFree : f <= g}]_vars
==============================================================================
