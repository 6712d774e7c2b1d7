SPECIFICATION Spec
CHECK_DEADLOCK FALSE
INVARIANT CursorsKnow
INVARIANT CutKeepsMatches
PROPERTY ImplementsScan
CONSTANTS
  Patterns <- MCPatterns
  Texts <- MCTexts
  Char <- MCChar
  WordChars <- MCWord
  ECMAWordChars <- MCWord
  LineTerminators = {}
  Newline <- MCNewline
  Digits = {}
  Fold <- MCFold
  Code <- MCCode
  SpaceClass <- MCSpace
  Letters <- MCLetters
  Frequency <- MCFrequency
  MaxLoopText = 2
  MaxLoopCopies = 2
  MaxPrefixLength = 3
  MaxPrefixes = 3
  MaxLoopExpansion = 2
  MaxFixedResults = 4
