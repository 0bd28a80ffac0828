CONSTANTS
  F = 18
  BS = 8
  WORD = 4
  LOW = 4
  E820 <- MCPCMap
  KSTART = 32
  KEND = 48

SPECIFICATION Spec
INVARIANT UsedFramesCount
