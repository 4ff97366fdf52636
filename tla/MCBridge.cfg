\* Two request slots, two response slots and four packets from two ports, so that
\* requests stall on the request queue, on the response queue and on both.
SPECIFICATION FairSpec
CONSTANTS
  p1 = p1
  p2 = p2
  p3 = p3
  q = q
  s1 = s1
  s2 = s2
  Packet <- PacketsDef
  NeedsResponse <- AnsweredDef
  Port <- PortsDef
  FarPort = FarPort
  None = None
  ReqQueueLimit = 2
  RespQueueLimit = 2
INVARIANTS
  CreditsExact
  WakeupExact
  NoRetryLost
PROPERTIES
  LinkFairSpec
