\* fewer tables than cooks, and couriers that outnumber the pizzas ready at a time
CONSTANTS
  Cooks = {c1, c2, c3}
  Couriers = {k1, k2, k3}
  N_tables = 2
  Portions = {1, 2}
SPECIFICATION FairSpec
INVARIANTS
  TypeOK
  NoLostWakeup
PROPERTIES
  ImplementsPizzeria
  EveryoneHome
