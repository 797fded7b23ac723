SPECIFICATION Spec
CONSTANTS
  Names <- MCNames
  Integers <- MCIntegers
  OtherLiterals <- MCLiterals
  Malformed <- MCMalformed
  Sources <- MCSources
INVARIANTS TypeOK RoundTrip NothingSilent Recovers LexerReportsOnce
PROPERTY Progress
CHECK_DEADLOCK TRUE
