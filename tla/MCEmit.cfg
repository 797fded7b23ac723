\* Owned values in emitted code (EmitRun): 5 kinds of owning type, 7 statement
\* shapes, 13 x 3 statements in them, and 17 functions about parts, lists and
\* temporaries.
SPECIFICATION Spec
CONSTANTS
  Kinds = {"box", "fat", "rec", "res", "node"}
  Shapes = {"line", "else", "loop", "for", "return", "defer", "abort"}
  Firsts = {"use", "take", "drop", "set", "swap", "self", "keep", "both", "ret", "retNew", "restore", "chain", "give"}
  Seconds = {"take", "set", "ret"}
  Stories = {"takePart", "keepPart", "tempPart", "setPart", "tempNext", "copyRec", "text", "literal", "sizes",
             "nested", "walk", "unlink", "relink", "content", "refill", "tested", "deferDrop"}
  Programs <- MCPrograms
  Emitted <- MCEmitted
  MaxPass = 64
  Paths <- MCPaths
  FactKeys <- MCFactKeys
  Refs = {}
  RefTarget <- MCNone
  GlobalNames = {}
  ObjectList <- MCObjects
  LocalList <- MCLocals
INVARIANTS
  TypeOK
  DropsOnlyOwned
  UsesFindValues
  NothingLeaks
  DropOrder
  FoldedTestAgrees
CHECK_DEADLOCK FALSE
