SPECIFICATION Spec
CONSTANTS
  Bits <- MCBits
  MetaMaxDepth = 4
  MaxDepth = 3
  MaxName = 6
  MaxInstances = 9
  Programs <- MCPrograms
INVARIANTS
  TypeOK
  BodiesAgree
  ClosedWorld
  CutOff
