\* two characters, so that the child goes from one byte to the next
CONSTANTS
  Lengths = {0, 1, 2}
  Nuisances = 2
SPECIFICATION FairSpec
\* once one of the two has died the other waits for ever
CHECK_DEADLOCK FALSE
INVARIANTS
  StopAndWait
PROPERTIES
  ImplementsPrinting
  BothEnd
