\* more workers than places, so that some of them sleep when stop is set; main
\* itself starts two wrenches and one driver
CONSTANTS
  Wrenches = {k1, k2, k3}
  Drivers = {d1, d2}
  Target = 2
SPECIFICATION FairSpec
INVARIANTS
  TypeOK
  SlotsExact
  FreshDevice
  ExactTarget
PROPERTIES
  EveryoneExits
