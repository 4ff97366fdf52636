\* The memory map, whose targets are not themselves translated, with senders
\* that rebuild a refused packet (p0, q1) and senders that do not (p1).
SPECIFICATION FairSpec
CONSTANTS
  p0 = p0
  p1 = p1
  q1 = q1
  i0 = i0
  Packet <- PacketsDef
  NeedsResponse = {p0, p1}
  Inhibited = {i0}
  GuestOf <- GuestDef
  AddrSpace = 8
  None = None
  TLB <- MemTable
  Issue = {0, 1}
  Rebuilt = {p0, q1}
INVARIANTS
  Restored
  LDomsApart
PROPERTIES
  Answered
