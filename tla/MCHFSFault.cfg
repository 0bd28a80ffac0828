CONSTANTS
  a = a
  b = b
  h1 = h1
  NBLOCKS = 8
  NINODES = 3
  INODE_BLOCKS = 1
  BLOCK_SIZE = 2
  DIR_ENTRY_SIZE = 2
  N_DIRECT = 1
  N_INDIRECT = 2
  Names = {a, b}
  Data = {1, 2}
  Handles = {h1}
  MaxDepth = 2
  Offsets = {0, 1, 3}
  Sizes = {1, 4}
  RemoveOpen = FALSE
  MaxFaults = 1
  MaxIO = 12
SPECIFICATION Spec
INVARIANT ReadReturnsWritten
SYMMETRY Symm
