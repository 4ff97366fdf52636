\* Mapper and bridge together, one slot in either queue.
SPECIFICATION FairSpec
CONSTANTS
  p0 = p0
  p1 = p1
  q1 = q1
  i0 = i0
  s1 = s1
  s2 = s2
  Packet <- PacketsDef
  NeedsResponse = {p0, p1}
  Inhibited = {i0}
  Rebuilt <- PacketsDef
  GuestOf <- GuestDef
  AddrSpace = 6
  TLB <- IOTable
  None = None
  FarPort = FarPort
  ReqQueueLimit = 1
  RespQueueLimit = 1
  Port = {s1, s2}
  Issue = {3}
INVARIANTS
  StatesAgree
PROPERTIES
  
  RoundTrip
  StalledAccepted
