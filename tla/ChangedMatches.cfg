SPECIFICATION BatchSpec
CHECK_DEADLOCK FALSE
INVARIANT NothingChanged
CONSTANTS
  Inputs <- MCSuspects
  MaxRune = 131
  MaxASCII = 127
  MaxDecimal = 10000
  LinearLimit = 4
  PropertyLimit = 1
  CategoryOf <- MCCategoryOf
  OldClass <- MCOldClass
  Folded <- MCFolded
  Lower <- MCLower
  LowerInTable <- MCLowerInTable
  Upper <- MCUpper
  Properties <- MCProperties
  ECMAProperties <- MCECMAProperties
  Digits <- MCDigits
  Char <- MCRune
  WordChars <- MCWordChars
  ECMAWordChars <- MCECMAWordChars
  LineTerminators <- MCLineTerminators
  Newline = 10
  Fold <- MCFold
