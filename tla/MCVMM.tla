--------------------------------- MODULE MCVMM ---------------------------------
(* The VMM over a scaled machine: 8-byte pages, directories and tables of *)
(* 8 entries with the kernel half from index 5, and 20 frames.  kmm_init  *)
(* reserves frames 0-3 (the first "MiB"), 4 (the kernel) and 5-7 (the     *)
(* bitmap); vmm_init takes 5 more for the kernel directory, the identity  *)
(* table and the three tables of the physical window, which leaves seven. *)
EXTENDS VMM

FlatMap == <<[base |-> 0, len |-> 160, type |-> 1]>>

\* an ELF file whose one LOAD segment lies in the identity-mapped low pages
\* 1 and 2: a page of file data and a page of BSS
LowElf == <<[vaddr |-> 8, memsz |-> 16, filesz |-> 8]>>
==============================================================================
