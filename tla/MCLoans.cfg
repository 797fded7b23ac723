\* Write sets, loans and the initialization order (LoanRun): 3 initializers, 18
\* statements of main, 11 of Mid and 7 of Leaf.
SPECIFICATION Spec
CONSTANTS
  Inits = {"new", "build", "early"}
  Mains = {"g", "g.f", "l[0]", "l[i]", "local", "fnlocal", "same", "whole", "parts", "elems", "maybe", "inner", "deep", "count", "noisy", "alias", "two", "extern"}
  Mids = {"nothing", "set", "setPart", "forward", "passG", "g", "g.n++", "l[0]", "push", "readG", "alias"}
  Leaves = {"nothing", "set", "passL", "g.f", "l[i]", "dropG", "readG"}
  Modules <- MCModules
  MaxDepth = 5
  MaxNesting = 6
  Paths = {}
INVARIANTS
  SetsAreLeast
  WritesDeclared
  LoansHold
  NoEarlyGlobal
PROPERTY
  Settles
CHECK_DEADLOCK FALSE
