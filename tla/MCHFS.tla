--------------------------------- MODULE MCHFS ---------------------------------
(* HFS on a scaled device of 8 blocks of 2 bytes: blocks 0-3 are the      *)
(* superblock, the two bitmaps and a one-block inode table, 4 is the      *)
(* root's first block, and 5-7 are free.  Three inodes, one direct and    *)
(* two indirect pointers (a file holds at most 6 bytes), and one          *)
(* directory slot a block, so a directory's second entry and a file's     *)
(* second block both need the indirect block.                              *)
EXTENDS HFS, TLC

\* names and handles are only compared for equality
Symm == Permutations(Names) \cup Permutations(Handles)
==============================================================================
