SPECIFICATION Spec
INVARIANT FilterSkipsNoMatch
INVARIANT FindsEveryMatch
INVARIANT RebuildsText
PROPERTY ScansAdvance
CONSTANTS
  Patterns <- MCPatterns
  Inputs <- MCInputs
  Templates <- MCTemplates
  Counts <- MCCounts
  MinReplaceFiltered = 3
  Invalid <- MCInvalid
  RuneError <- MCRuneError
  MaxFilterLiteral = 4
  PrefixSearchSample = 4
  DecimalDigits <- MCDigits
  NameChars <- MCNames
  Char <- MCChar
  WordChars <- MCWord
  ECMAWordChars <- MCWord
  LineTerminators = {}
  Newline <- MCNewline
  Digits = {}
  Fold <- MCFold
  Code <- MCCode
  SpaceClass <- MCSpace
  Letters <- MCLetters
  Frequency <- MCFrequency
  MaxLoopText = 2
  MaxLoopCopies = 2
  MaxPrefixLength = 3
  MaxPrefixes = 3
  MaxLoopExpansion = 2
  MaxFixedResults = 4
