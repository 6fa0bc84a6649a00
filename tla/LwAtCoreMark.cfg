\* Does on_chunk stop at exit_mark when the escape interrupts the delivery?
CONSTANTS
  Token <- MCToken
  Plus = "+"
  Eol = "eol"
  Handler <- StreamHandler
  Size = 5
  LineSize = 2
  Segments <- EscapeSegments
  MaxFeeds = 4
  GuardValues = {}
  AppExit = "never"
  Isr = {"feed", "timer"}
SPECIFICATION Spec
INVARIANTS LateBytesKept
