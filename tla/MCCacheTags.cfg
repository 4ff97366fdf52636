CONSTANTS
  g0 = g0
  g1 = g1
  a = a
  b = b
  c = c
  d = d
  None = None
  Assoc = 2
  Block <- FewBlocks
  Tag <- TagDef
  Guest <- GuestDef
  InitMask <- FullMasks
  MaskChoices <- Narrowed
SPECIFICATION Spec
INVARIANTS DirtySafe
PROPERTIES FillsWithinMask UpgradeKeepsBlock
SYMMETRY SameLDomFew
CHECK_DEADLOCK FALSE
