CONSTANTS
  p1 = p1
  p2 = p2
  c1 = c1
  c2 = c2
  Procs <- MCProcs
  Cpus <- MCCpus
  Kernel = Kernel
  NUM_TLB = 2
  Top = 3
  Memory = 6
  used = 0
  Garbage <- MCGarbage
  Programs <- MCPrograms
  Instructions <- MCInstructions
  MaxExecs = 1
  KernelSizes <- MCKernelSizes
  MaxKernel = 1
  NULL = NULL
SPECIFICATION Spec
INVARIANT TlbCorrect
INVARIANT TlbWellFormed
INVARIANT WriteProtected
INVARIANT Isolated
INVARIANT UserImages
SYMMETRY Sym
CHECK_DEADLOCK FALSE
