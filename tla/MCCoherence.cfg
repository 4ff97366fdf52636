CONSTANTS
  l1 = l1
  l1b = l1b
  l2 = l2
  io = io
  g1 = g1
  g2 = g2
  ax = ax
  ay = ay
  Mem = Mem
  Cpu = Cpu
  None = None
  Cache <- MachineCache
  Parent <- MachineParent
  Private <- MachinePrivate
  Block <- MachineBlock
  Loads <- MachineLoads
  Stores <- MachineStores
  MaxOps <- MachineOps
  Ways <- One
  Mshrs <- MachineMshrs
  WriteBuffers <- One
  Targets <- Two
SPECIFICATION FairSpec
INVARIANTS
  NoAssertionFails
  Coherent
  OneOwner
  SingleWriter
PROPERTIES
  Drains
\* The machine stops when the processors have nothing left to ask for.
CHECK_DEADLOCK FALSE
