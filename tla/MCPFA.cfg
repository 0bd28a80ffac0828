CONSTANTS
  F = 18
  BS = 8
  WORD = 4
  LOW = 4
  E820 <- MCFlatMap
  KSTART = 32
  KEND = 48

SPECIFICATION Spec
INVARIANT TypeOK FramesExclusive
PROPERTY AllocIsFirstFit
