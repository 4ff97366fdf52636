CONSTANTS
  g0 = g0
  g1 = g1
  a = a
  b = b
  c = c
  d = d
  None = None
  Assoc = 3
  Block <- ManyBlocks
  Tag <- TagDef
  Guest <- GuestDef
  InitMask <- DisjointMasks
  MaskChoices = {}
SPECIFICATION Spec
PROPERTIES
  PrivateSpec
SYMMETRY SameLDom
