SPECIFICATION Spec
CONSTANTS
  Which = "chain"
  Programs <- MCPrograms
  MaxPass = 4
  MaxWalk = 60
  Paths <- MCPaths
  FactKeys <- MCFactKeys
  Refs = {"r"}
  RefTarget <- MCRefTarget
  GlobalNames = {}
  OptLocs <- MCOptLocs
  IntVars = {"i"}
  MaxInt = 1
  ByteRange = 2
INVARIANT NoUseOfMoved
CHECK_DEADLOCK FALSE
