\* three women for two places, so that SEM_CAP blocks and a streak is exceeded
CONSTANTS
  Men = {m1, m2}
  Women = {w1, w2, w3}
  Mortal = {m1, w1}
  N = 2
  MaxStreak = 1
SPECIFICATION FairSpec
\* a client stranded on its queue is a state the program can stop in
CHECK_DEADLOCK FALSE
INVARIANTS
  TypeOK
  CountersExact
  ReservedForSomeone
  OvertakingBounded
PROPERTIES
  ImplementsRoom
  ServedUnlessRechecked
