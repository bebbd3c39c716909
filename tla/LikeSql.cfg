\* engine.wildcardMatch, and the LIKE patterns of the WHERE clause against it.
CONSTANTS
  Patterns <- MCPatterns
  Texts <- MCTexts
SPECIFICATION Spec
INVARIANTS TypeOK NoFalseMatch FindsPlainMatch LikeAgreesWithGate PrefixSelectsBelow
PROPERTIES Advances Terminates
\* The loop returns: a done state has no successor.
CHECK_DEADLOCK FALSE
