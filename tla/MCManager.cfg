SPECIFICATION Spec
CONSTANTS
  c1 = c1
  c2 = c2
  c3 = c3
  NumContexts = 2
  Client = {c1, c2, c3}
  MaxLen = 2
  Command <- CommandDef
  Plans <- PlansDef
  tags = tags
  dram = dram
  io = io
  cpa0 = cpa0
  cpa1 = cpa1
  Adaptor = {cpa0, cpa1}
  mask = mask
  stats = stats
  Plane = {tags, dram, io}
  LDom = {0, 1}
  Dest = {mask, stats}
  Value = {1, 2}
  Writer = {w1, w2}
  None = None
  Fixed = Fixed
  Operation <- OperationDef
  Net <- NetDef
  Known <- KnownDef
  Stored <- StoredDef
  Named = {tags}
  Initial = 1
  MaxOps = 1
INVARIANTS
  TicksExactly
  OwnTag
  WholeCommands
PROPERTIES
  AtomicAccess
  Served
  FirstHeard
  Released
CHECK_DEADLOCK FALSE
