\* Senders that send the same object again, with the I/O map.
SPECIFICATION Spec
CONSTANTS
  p0 = p0
  p1 = p1
  q1 = q1
  i0 = i0
  Packet <- PacketsDef
  NeedsResponse = {p0, p1}
  Inhibited = {i0}
  GuestOf <- GuestDef
  AddrSpace = 8
  None = None
  TLB <- IOTable
  Issue = {2, 3}
  Rebuilt = {}
INVARIANTS
  TranslatedOnce
