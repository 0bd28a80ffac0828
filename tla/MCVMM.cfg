CONSTANTS
  F = 20
  BS = 8
  WORD = 4
  LOW = 4
  E820 <- FlatMap
  KSTART = 32
  KEND = 40
  E = 8
  KH = 5
  Segments <- LowElf
  MaxSpaces = 2
SPECIFICATION Spec
INVARIANT TypeOK MappedFramesInUse DeepCopiesDisjoint
PROPERTY CloneCopiesMappings
