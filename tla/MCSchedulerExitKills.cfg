CONSTANTS
  t1 = t1
  t2 = t2
  t3 = t3
  p1 = p1
  p2 = p2
  p3 = p3
  Threads <- MCThreads
  Procs <- MCProcs
  Nil = Nil
  KernelDir = KernelDir
  UserDir = UserDir
  DEFAULT_TIMESLICE = 2
  ExitMasksIrq = TRUE


SPECIFICATION Spec
PROPERTY ThreadDiesWithItsProcess
SYMMETRY Symm
