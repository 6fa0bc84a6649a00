\* The example's commands over a link that sends short and fails.
CONSTANTS
  SegLen = 2
  Slot = {"", "0", "1", "2", "3", "word", "long"}
  Omitted = ""
  IntOf <- MCIntOf
  TooLong = {"long"}
  TooWide = {"word"}
  ArgLists <- MCArgLists
  Cap = 3
  RingMax = 3
SPECIFICATION FairSpec
INVARIANTS WireExact SettingsAreTold BufferIsSession StreamNeedsPass
PROPERTIES OutputEnds
