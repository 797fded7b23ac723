SPECIFICATION Spec
CONSTANTS
  Forms = {"struct"}
  Firsts = {"pass", "viewTaken"}
  Seconds = {"read", "viewTaken"}
  Thirds = {"read"}
  Growers1 = {}
  Growers2 = {"read", "push", "pop", "resize", "rebind", "set", "pass", "nested", "self", "copied"}
  Growers3 = {"read", "push", "rebind", "self", "pass"}
  Givens = {"heap", "fixed", "literal", "part", "rest", "refRest"}
  Modules <- MCModules
  MaxRounds = 64
  MaxDepth = 4
INVARIANT StorageKept
