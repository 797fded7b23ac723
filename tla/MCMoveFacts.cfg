SPECIFICATION Spec
CONSTANTS
  Shapes = {"if", "while", "return", "or", "and", "join", "defer", "fold", "loop", "twice", "into"}
  Targets = {"x", "g", "h.o"}
  Middles = {"drop", "none", "some", "fromY", "toY", "lend", "writesG", "unknown", "newH", "dropLoud", "takeLoud", "setLoud"}
  ElementShapes = {"if", "while", "return", "join", "fold", "into"}
  ElementTargets = {"l[0]", "l[i]", "l[i+1]"}
  ElementMiddles = {"drop", "none", "some", "toY", "lend", "lendBase", "i++", "other", "othervar", "push", "remove"}
  RefShapes = {"then", "if", "loop", "rebind", "defer", "late"}
  RefTargets = {"a", "a.f", "x", "a.o", "g.o", "l[0]", "l[0]?", "l[i].f"}
  RefMiddles = {"nothing", "drop", "set", "dropSelf", "setSelf", "keep", "lend", "borrow", "push", "remove", "i++", "writesG", "writesGo", "unknown", "loudScope", "madScope", "dropLoud", "setLoud"}
  Programs <- MCPrograms
  MaxPass = 64
  Paths = {}
  FactKeys <- MCFactKeys
  Refs <- MCRefs
  RefTarget <- MCRefTarget
  GlobalNames = {"g"}
  OptLocs <- MCOptLocs
  IntVars = {"i", "j"}
  MaxInt = 1
  ByteRange = 1
INVARIANTS
  NoReadOfEmpty
  FoldAgrees
  NoDanglingRef
CHECK_DEADLOCK FALSE
