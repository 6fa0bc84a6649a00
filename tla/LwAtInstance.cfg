\* The instance and its timer on the Windows port: three armings.
CONSTANTS
  MaxArms = 3
  MaxLines = 2
SPECIFICATION FairSpec
INVARIANTS PortInv DeinitQuiet NoStaleExpiry NoNullCall
PROPERTIES ImplementsTimer CallsReturn LineAnswered
