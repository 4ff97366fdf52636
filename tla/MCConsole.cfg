SPECIFICATION FairSpec
CONSTANTS
  Guest <- GuestDef
  BufLen = 2
  Cpu <- CpuDef
  QR0 <- QR0Def
  Line <- LineDef
  ConsoleLine = 4
  TimerLine = 2
  pinMask <- pinMaskDef
  Bottom <- BottomDef
  Dest <- DestDef
  Dest0 = 0
  Physical <- PhysicalDef
  Logical <- LogicalDef
  Turns = 2
  Vector <- VectorDef
  Scenarios <- ScenariosDef
  ConsoleVector <- ConsoleVectorDef
  Wanted <- WantedDef
  PassLimit = 2
INVARIANTS
  Announced
  LDomsApart
  HandlersNest
PROPERTIES
  ComponentSpecs
  EveryTickSent
  BytesPass
  RequestsServed
CHECK_DEADLOCK FALSE
