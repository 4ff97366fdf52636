SPECIFICATION FairSpec
CONSTANTS
  g0 = g0
  g1 = g1
  m0 = m0
  s0 = s0
  m1 = m1
  Guest = {g0, g1}
  Disk = {m0, s0, m1}
  Master <- MasterDef
  Slave <- SlaveDef
  Event <- EventDef
  NoState = NoState
  None = None
  LineSize = 2
  MaxSize = 4
  MaxAddr = 6
  SectorSize = 2
  Sectors = 2
  PageSize = 4
  MemSize = 6
  Scenarios <- ScenariosDef
INVARIANTS
  NoPanic
  OneAtATime
PROPERTIES
  PortSpec
  DataMoved
  NoStrayWrite
  CommandsFinish
CHECK_DEADLOCK FALSE
