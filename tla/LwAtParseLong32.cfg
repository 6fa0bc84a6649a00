\* The same integers where long is as wide as int32_t.
CONSTANTS
  Char <- MCChar
  NUL = "NUL"
  A = "A"
  T = "T"
  Equals = "="
  Query = "?"
  Comma = ","
  Quote = "quote"
  Escape = "backslash"
  Minus = "-"
  Plus = "+"
  Blank <- MCBlank
  Digit <- MCDigit
  Lines <- DigitLines
  Commands <- MCCommands
  ArgMax = 3
  IntMin <- MCIntMin
  IntMax = 11
  LongMin <- MCIntMin
  LongMax = 11
SPECIFICATION Spec
INVARIANTS DigitsExact
