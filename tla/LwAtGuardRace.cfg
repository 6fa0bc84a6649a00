\* What if the timer callback interrupts lw_at_feed?
CONSTANTS
  Token <- MCToken
  Plus = "+"
  Eol = "eol"
  Handler <- StreamHandler
  Size = 5
  LineSize = 2
  Segments <- StreamSegments
  MaxFeeds = 4
  GuardValues = {}
  AppExit = "never"
  Isr = {"timer"}
  Nested = {"timer"}
SPECIFICATION GuardSpec
INVARIANTS Restored
