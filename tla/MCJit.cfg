CONSTANTS
  c1 = c1  h1 = h1  h2 = h2  k1 = k1  k2 = k2
  Null = Null
  Compilers = {c1}
  Jits = {h1, h2}
  Contexts = {k1, k2}
  Prefixes = {"", "p"}
  Programs = {{}, {"externs", "components"}}
  MaxDirs = 2
  Globals <- MCGlobals
SYMMETRY Symmetry
SPECIFICATION Spec
INVARIANTS MemorySafe NothingLeaks ExportBound LookupFinds
