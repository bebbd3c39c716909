\* StringLike's "*" as any sequence, against the loop.
CONSTANTS
  Patterns <- MCPatterns
  Texts <- MCTexts
SPECIFICATION Spec
INVARIANT FindsEveryMatch
CHECK_DEADLOCK FALSE
