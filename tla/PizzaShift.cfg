\* both cooks may push at once, and the ring is filled to its end and wraps
CONSTANTS
  Cooks = {c1, c2}
  Couriers = {k1, k2}
  Main = main
  N_tables = 2
  Portions = {1, 2}
SPECIFICATION FairSpec
INVARIANTS
  QueueExact
  PizzasExact
  PushNeverWaits
PROPERTIES
  ImplementsPizzeria
  EveryoneDone
