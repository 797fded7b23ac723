SPECIFICATION Spec
CONSTANTS
  Forms = {"string", "array", "struct"}
  Firsts = {"read", "pass", "twice", "index", "view", "method"}
  Seconds = {"read", "loop", "take", "return", "pass", "self", "write", "part", "count", "length", "element", "pop", "push", "replace", "place", "alias", "view", "literal", "field", "repeated", "extern", "rest", "delegate", "method", "changes", "overload", "constArg", "refArg"}
  Thirds = {"read", "take", "pass", "self", "alias", "field"}
  Growers1 = {"read", "pass", "nested", "method", "const", "ref", "push"}
  Growers2 = {"read", "push", "pop", "resize", "rebind", "set", "pass", "nested", "self", "copied"}
  Growers3 = {"read", "push", "rebind", "self", "pass"}
  Givens = {"heap", "fixed", "literal", "part", "rest", "refRest"}
  Modules <- MCModules
  MaxRounds = 64
  MaxDepth = 4
INVARIANTS StorageKept NoFalseError InferenceIsGreatest
