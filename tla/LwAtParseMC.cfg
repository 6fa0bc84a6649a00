\* Dispatch, slots and integers of every short line, on a target whose long is wide.
CONSTANTS
  Char <- MCChar
  NUL = "NUL"
  A = "A"
  T = "T"
  Equals = "="
  Query = "?"
  Comma = ","
  Quote = "quote"
  Escape = "backslash"
  Minus = "-"
  Plus = "+"
  Blank <- MCBlank
  Digit <- MCDigit
  Lines <- MCLines
  Commands <- MCCommands
  ArgMax = 3
  IntMin <- MCIntMin
  IntMax = 11
  LongMin <- MCLongMin
  LongMax = 1100
SPECIFICATION Spec
INVARIANTS IInv DispatchExact SlotsExact DigitsExact Exact
