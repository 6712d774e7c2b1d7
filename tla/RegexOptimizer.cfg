SPECIFICATION Spec
CHECK_DEADLOCK FALSE
INVARIANT OutcomesKept
INVARIANT SkippedStartsFail
INVARIANT MatchKept
CONSTANTS
  Patterns <- MCPatterns
  Texts <- MCTexts
  Char <- MCChar
  WordChars <- MCWord
  ECMAWordChars <- MCWord
  LineTerminators <- MCLineTerminators
  Newline <- MCNewline
  Digits = {"1"}
  Fold <- MCFold
