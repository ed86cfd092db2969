\* MaxStreak has its default of 2 * N
CONSTANTS
  Men = {m1}
  Women = {w1}
  Mortal = {}
  N = 2
  MaxStreak = 4
SPECIFICATION FairSpec
\* a client stranded on its queue is a state the program can stop in
CHECK_DEADLOCK FALSE
PROPERTIES
  NoStarvation
