\* the longest file takes at least two chunks
CONSTANTS
  Inputs <- SmallInputs
  BUFSZ = 2
SPECIFICATION FairSpec
INVARIANTS
  InFlight
PROPERTIES
  ImplementsCopying
  Ends
