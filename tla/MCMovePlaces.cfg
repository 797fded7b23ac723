SPECIFICATION Spec
CONSTANTS
  Shapes = {"else", "break", "endless", "for", "return", "defer", "logic", "cond", "abort"}
  Firsts = {"take", "takeF", "takeG", "set", "setF", "keep", "swap", "bind", "copy"}
  Seconds = {"use", "useF", "take", "setG"}
  Lasts = {"use", "setF"}
  Programs <- MCPrograms
  MaxPass = 6
  MaxWalk = 60
  Paths <- MCPaths
  FactKeys = {}
  Refs = {"r"}
  RefTarget <- MCRefTarget
  GlobalNames = {}
  OptLocs = {}
  IntVars = {}
  MaxInt = 0
  ByteRange = 1
INVARIANTS
  IInv
  ReportsEveryPath
  ReportsOnlyPaths
  NoUseOfMoved
  RefParamsRestored
PROPERTY Settles
CHECK_DEADLOCK FALSE
