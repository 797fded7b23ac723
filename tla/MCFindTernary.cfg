SPECIFICATION Spec
CONSTANTS
  Names <- MCNames
  Integers <- MCIntegers
  OtherLiterals <- MCLiterals
  Malformed <- MCMalformed
  Sources <- MCTernary
INVARIANT RoundTrip
CHECK_DEADLOCK TRUE
