---------------------------- MODULE KitchenProofs ----------------------------
(***************************************************************************)
(* Proofs about Kitchen, for any number of cooks and couriers, any number  *)
(* of tables and any portions.  free_tables and active_cooks are shown to  *)
(* count the cooks; that the single signals of kitchen_finish_cooking lose *)
(* no wakeup, and that the monitor implements Pizzeria, follows.           *)
(***************************************************************************)
EXTENDS Kitchen, FiniteSetTheorems, TLAPS

CookLabels == {"start", "wait_table", "cook", "leave", "home"}
CourierLabels == {"take", "wait_pizza", "deliver", "home"}
Baking == {"start", "wait_table", "cook"}
AtWork == {"start", "wait_table", "cook", "leave"}

\* a cook has pizzas left exactly while it goes round its loop
Places ==
  /\ \A c \in Cooks : /\ pc[c] \in CookLabels
                      /\ left[c] > 0 <=> pc[c] \in Baking
  /\ \A k \in Couriers : pc[k] \in CourierLabels

CountsExact ==
  /\ free_tables + Cardinality(At(pc, Cooks, {"cook"})) = N_tables
  /\ active_cooks = Cardinality(At(pc, Cooks, AtWork))

IInv == TypeOK /\ Places /\ CountsExact /\ NoLostWakeup

-----------------------------------------------------------------------------
(* Who is at a label is a finite set of processes.                         *)
LEMMA AtFinite ==
  ASSUME NEW D, IsFiniteSet(D), NEW at, NEW L
  PROVE  IsFiniteSet(At(at, D, L)) /\ Cardinality(At(at, D, L)) \in Nat
<1>1. At(at, D, L) \subseteq D
  BY DEF At
<1> QED
  BY <1>1, FS_Subset, FS_CardinalityType

(* When one process moves from one label to another, the number of         *)
(* processes of D at the labels L changes by what it crosses.              *)
LEMMA AtMove ==
  ASSUME NEW D, IsFiniteSet(D), NEW L, NEW P, NEW Q, D \subseteq P,
         NEW at \in [P -> Q], NEW p \in P, NEW to,
         NEW at2, at2 = [at EXCEPT ![p] = to]
  PROVE  Cardinality(At(at2, D, L))
           = Cardinality(At(at, D, L)) + Crossing(p \in D, at[p], to, L)
<1>1. IsFiniteSet(At(at, D, L)) /\ Cardinality(At(at, D, L)) \in Nat
  BY AtFinite
<1>2. CASE p \in D /\ at[p] \notin L /\ to \in L
  <2>1. At(at2, D, L) = At(at, D, L) \cup {p} /\ p \notin At(at, D, L)
    BY <1>2 DEF At
  <2>2. Cardinality(At(at2, D, L)) = Cardinality(At(at, D, L)) + 1
    BY <1>1, <2>1, FS_AddElement
  <2> QED
    BY <1>2, <2>2 DEF Crossing
<1>3. CASE p \in D /\ at[p] \in L /\ to \notin L
  <2>1. At(at2, D, L) = At(at, D, L) \ {p} /\ p \in At(at, D, L)
    BY <1>3 DEF At
  <2>2. Cardinality(At(at2, D, L)) = Cardinality(At(at, D, L)) - 1
    BY <1>1, <2>1, FS_RemoveElement
  <2> QED
    BY <1>1, <1>3, <2>2 DEF Crossing
<1>4. CASE p \notin D \/ (at[p] \in L <=> to \in L)
  <2>1. At(at2, D, L) = At(at, D, L)
    BY <1>4 DEF At
  <2> QED
    BY <1>1, <1>4, <2>1 DEF Crossing
<1> QED
  BY <1>2, <1>3, <1>4

LEMMA Tools ==
  /\ IsFiniteSet(Cooks) /\ IsFiniteSet(Couriers)
  /\ Cooks \subseteq Threads /\ Couriers \subseteq Threads
  /\ Cooks \cap Couriers = {}
  /\ N_tables \in Nat \ {0} /\ Cardinality(Cooks) \in Nat
  BY KitchenAssumption, FS_CardinalityType DEF Threads

LEMMA Finite ==
  \A L : /\ IsFiniteSet(At(pc, Cooks, L)) /\ Cardinality(At(pc, Cooks, L)) \in Nat
         /\ IsFiniteSet(At(pc', Cooks, L)) /\ Cardinality(At(pc', Cooks, L)) \in Nat
         /\ Cardinality(At(pc', Cooks, L)) <= Cardinality(Cooks)
         /\ IsFiniteSet(At(pc, Couriers, L)) /\ Cardinality(At(pc, Couriers, L)) \in Nat
         /\ IsFiniteSet(At(pc', Couriers, L)) /\ Cardinality(At(pc', Couriers, L)) \in Nat
<1>1. \A L : At(pc', Cooks, L) \subseteq Cooks
  BY DEF At
<1> QED
  BY <1>1, Tools, AtFinite, FS_Subset

(* What a step of one thread does to the sets the invariant counts.        *)
LEMMA Counts ==
  ASSUME NEW t \in Threads, NEW from, NEW to, pc \in [Threads -> Labels], Goto(t, from, to)
  PROVE  \A L : /\ Cardinality(At(pc', Cooks, L))
                     = Cardinality(At(pc, Cooks, L)) + Crossing(t \in Cooks, from, to, L)
                /\ Cardinality(At(pc', Couriers, L))
                     = Cardinality(At(pc, Couriers, L)) + Crossing(t \in Couriers, from, to, L)
<1>1. pc[t] = from /\ pc' = [pc EXCEPT ![t] = to]
  BY DEF Goto
<1> TAKE L
<1>2. Cardinality(At(pc', Cooks, L))
        = Cardinality(At(pc, Cooks, L)) + Crossing(t \in Cooks, pc[t], to, L)
  BY <1>1, Tools, AtMove
<1>3. Cardinality(At(pc', Couriers, L))
        = Cardinality(At(pc, Couriers, L)) + Crossing(t \in Couriers, pc[t], to, L)
  BY <1>1, Tools, AtMove
<1> QED
  BY <1>1, <1>2, <1>3

LEMMA InitIInv == Init => IInv
<1> SUFFICES ASSUME Init PROVE IInv
  OBVIOUS
<1>1. /\ \A c \in Cooks : pc[c] = "start"
      /\ \A k \in Couriers : pc[k] = "take"
      /\ pc \in [Threads -> Labels]
  BY Tools DEF Init, Threads, Labels
<1>2. /\ At(pc, Cooks, {"cook"}) = {} /\ At(pc, Cooks, AtWork) = Cooks
      /\ WaitTable = {} /\ WaitPizza = {}
  BY <1>1 DEF At, AtWork, WaitTable, WaitPizza
<1>3. left \in [Cooks -> Nat \ {0}]
  BY KitchenAssumption DEF Init
<1>4. CountsExact /\ NoLostWakeup
  BY <1>2, Tools, FS_EmptySet DEF Init, CountsExact, NoLostWakeup
<1>5. Places
  BY <1>1, <1>3 DEF Places, CookLabels, CourierLabels, Baking
<1>6. TypeOK
  BY <1>1, <1>3, Tools DEF Init, TypeOK
<1> QED
  BY <1>4, <1>5, <1>6 DEF IInv

(* The ranges of the two counters follow from what they count.             *)
LEMMA Ranges ==
  ASSUME CountsExact', free_tables' \in Nat
  PROVE  free_tables' \in 0..N_tables /\ active_cooks' \in 0..Cardinality(Cooks)
<1>1. /\ Cardinality(At(pc', Cooks, {"cook"})) \in Nat
      /\ Cardinality(At(pc', Cooks, AtWork)) \in Nat
      /\ Cardinality(At(pc', Cooks, AtWork)) <= Cardinality(Cooks)
  BY Finite
<1>2. /\ free_tables' + Cardinality(At(pc', Cooks, {"cook"})) = N_tables
      /\ active_cooks' = Cardinality(At(pc', Cooks, AtWork))
  BY DEF CountsExact, AtWork
<1>3. free_tables' \in 0..N_tables
  BY <1>1, <1>2, Tools
<1>4. active_cooks' \in 0..Cardinality(Cooks)
  BY <1>1, <1>2, Tools
<1> QED
  BY <1>3, <1>4

LEMMA StartCookingIInv ==
  ASSUME IInv, NEW c \in Cooks, StartCooking(c)
  PROVE  IInv'
<1>1. /\ TypeOK /\ Places /\ CountsExact /\ NoLostWakeup
      /\ c \in Threads /\ c \notin Couriers
  BY Tools DEF IInv
<1>2. PICK to \in {"wait_table", "cook"} :
        /\ Goto(c, "start", to)
        /\ to = "wait_table" => free_tables = 0 /\ free_tables' = free_tables
        /\ to = "cook" => free_tables # 0 /\ free_tables' = free_tables - 1
        /\ UNCHANGED <<left, ready_pizzas, active_cooks>>
  BY <1>1 DEF StartCooking, TypeOK
<1>3. \A L : /\ Cardinality(At(pc', Cooks, L))
                  = Cardinality(At(pc, Cooks, L)) + Crossing(TRUE, "start", to, L)
             /\ Cardinality(At(pc', Couriers, L)) = Cardinality(At(pc, Couriers, L))
  BY <1>1, <1>2, Counts, Finite DEF TypeOK, Crossing
<1>4. CountsExact'
  BY <1>1, <1>2, <1>3, Finite, Tools DEF CountsExact, Crossing, AtWork, TypeOK
<1>5. Places'
  BY <1>1, <1>2 DEF Places, TypeOK, Goto, CookLabels, Baking, Threads
<1>6. WaitPizza' = WaitPizza
  BY <1>1, <1>2 DEF WaitPizza, At, Goto, TypeOK, Threads
<1>7. WaitTable' # {} => free_tables' <= Cardinality(At(pc', Cooks, {"start"}))
  <2>1. CASE to = "wait_table"
    BY <1>2, <2>1, Finite
  <2>2. CASE to = "cook"
    <3>1. WaitTable' = WaitTable
      BY <1>1, <1>2, <2>2 DEF WaitTable, At, Goto, TypeOK
    <3> QED
      BY <1>1, <1>2, <1>3, <2>2, <3>1, Finite DEF NoLostWakeup, Crossing, TypeOK
  <2> QED
    BY <1>2, <2>1, <2>2
<1>8. NoLostWakeup'
  BY <1>1, <1>2, <1>3, <1>6, <1>7 DEF NoLostWakeup
<1>9. TypeOK'
  <2>1. pc' \in [Threads -> Labels] /\ free_tables' \in Nat
    BY <1>1, <1>2 DEF TypeOK, Goto, Labels
  <2> QED
    BY <1>1, <1>2, <1>4, <2>1, Ranges DEF TypeOK
<1> QED
  BY <1>4, <1>5, <1>8, <1>9 DEF IInv

(* The cook wakes one waiting cook and one waiting courier, if there are   *)
(* any; each of them will take the table or the pizza there is one more of.*)
LEMMA FinishCookingIInv ==
  ASSUME IInv, NEW c \in Cooks, FinishCooking(c)
  PROVE  IInv'
<1>1. /\ TypeOK /\ Places /\ CountsExact /\ NoLostWakeup
      /\ c \in Threads /\ c \notin Couriers
      /\ pc[c] = "cook" /\ left[c] \in Nat /\ left[c] > 0
      /\ left' = [left EXCEPT ![c] = @ - 1]
      /\ ready_pizzas' = ready_pizzas + 1 /\ free_tables' = free_tables + 1
      /\ active_cooks' = active_cooks
  BY Tools DEF IInv, FinishCooking, TypeOK, Places, Baking
<1>2. PICK T \in Signal(WaitTable), K \in Signal(WaitPizza) :
        pc' = [t \in Threads |->
                 IF t = c THEN IF left[c] = 1 THEN "leave" ELSE "start"
                 ELSE IF t \in T THEN "start"
                 ELSE IF t \in K THEN "take" ELSE pc[t]]
  BY DEF FinishCooking
<1>3. /\ T \subseteq WaitTable /\ (WaitTable # {} => T # {})
      /\ K \subseteq WaitPizza /\ (WaitPizza # {} => K # {})
  BY DEF Signal
<1>4. /\ \A t \in T : t \in Cooks /\ t # c /\ t \notin K /\ pc[t] = "wait_table"
      /\ \A k \in K : k \in Couriers /\ k # c /\ k \notin T /\ pc[k] = "wait_pizza"
  BY <1>1, <1>3, Tools DEF WaitTable, WaitPizza, At
<1>5. /\ pc'[c] = IF left[c] = 1 THEN "leave" ELSE "start"
      /\ \A t \in T : pc'[t] = "start"
      /\ \A k \in K : pc'[k] = "take"
      /\ \A t \in Threads : t # c /\ t \notin T \cup K => pc'[t] = pc[t]
  BY <1>1, <1>2, <1>4, Tools
<1>6. CountsExact'
  <2>1. /\ At(pc', Cooks, {"cook"}) = At(pc, Cooks, {"cook"}) \ {c}
        /\ c \in At(pc, Cooks, {"cook"})
        /\ At(pc', Cooks, AtWork) = At(pc, Cooks, AtWork)
    BY <1>1, <1>4, <1>5, Tools DEF At, AtWork
  <2>2. Cardinality(At(pc', Cooks, {"cook"})) = Cardinality(At(pc, Cooks, {"cook"})) - 1
    BY <2>1, Finite, FS_RemoveElement
  <2> QED
    BY <1>1, <2>1, <2>2, Finite, Tools DEF CountsExact, TypeOK
<1>7. Places'
  <2>1. left'[c] > 0 <=> left[c] # 1
    BY <1>1 DEF TypeOK
  <2>2. \A d \in Cooks : d # c => left'[d] = left[d]
    BY <1>1 DEF TypeOK
  <2> QED
    BY <1>1, <1>4, <1>5, <2>1, <2>2, Tools DEF Places, CookLabels, CourierLabels, Baking
<1>8. ASSUME NEW D, IsFiniteSet(D), NEW l, NEW S \in SUBSET D, S # {},
             \A t \in D : pc[t] = l => pc'[t] = l,
             \A t \in S : pc[t] # l /\ pc'[t] = l
      PROVE  Cardinality(At(pc', D, {l})) >= Cardinality(At(pc, D, {l})) + 1
  <2>1. PICK t : t \in S
    BY <1>8
  <2>2. At(pc, D, {l}) \cup {t} \subseteq At(pc', D, {l}) /\ t \notin At(pc, D, {l})
    BY <1>8, <2>1 DEF At
  <2>3. IsFiniteSet(At(pc, D, {l})) /\ IsFiniteSet(At(pc', D, {l}))
    BY <1>8, AtFinite
  <2>4. /\ IsFiniteSet(At(pc, D, {l}) \cup {t})
        /\ Cardinality(At(pc, D, {l}) \cup {t}) = Cardinality(At(pc, D, {l})) + 1
    BY <2>2, <2>3, FS_AddElement
  <2>5. Cardinality(At(pc, D, {l}) \cup {t}) <= Cardinality(At(pc', D, {l}))
    BY <2>2, <2>3, FS_Subset
  <2> QED
    BY <2>3, <2>4, <2>5, FS_CardinalityType
<1>9. NoLostWakeup'
  <2>1. WaitTable' # {} => WaitTable # {}
    BY <1>1, <1>4, <1>5, Tools DEF WaitTable, At
  <2>2. WaitPizza' # {} => WaitPizza # {}
    BY <1>1, <1>4, <1>5, Tools DEF WaitPizza, At
  <2>3. ASSUME WaitTable # {}
        PROVE  Cardinality(At(pc', Cooks, {"start"})) >= Cardinality(At(pc, Cooks, {"start"})) + 1
    <3>1. T \in SUBSET Cooks /\ T # {} /\ \A t \in T : pc[t] # "start" /\ pc'[t] = "start"
      BY <1>3, <1>4, <1>5, <2>3
    <3>2. \A t \in Cooks : pc[t] = "start" => pc'[t] = "start"
      BY <1>1, <1>4, <1>5, Tools
    <3> QED
      BY <1>8, <3>1, <3>2, Tools
  <2>4. ASSUME WaitPizza # {}
        PROVE  Cardinality(At(pc', Couriers, {"take"})) >= Cardinality(At(pc, Couriers, {"take"})) + 1
    <3>1. K \in SUBSET Couriers /\ K # {} /\ \A t \in K : pc[t] # "take" /\ pc'[t] = "take"
      BY <1>3, <1>4, <1>5, <2>4
    <3>2. \A t \in Couriers : pc[t] = "take" => pc'[t] = "take"
      BY <1>1, <1>4, <1>5, Tools
    <3> QED
      BY <1>8, <3>1, <3>2, Tools
  <2> QED
    BY <1>1, <2>1, <2>2, <2>3, <2>4, Finite DEF NoLostWakeup, TypeOK
<1>10. TypeOK'
  <2>1. pc' \in [Threads -> Labels]
    BY <1>1, <1>2 DEF TypeOK, Labels
  <2>2. left' \in [Cooks -> Nat]
    BY <1>1 DEF TypeOK
  <2> QED
    BY <1>1, <1>6, <2>1, <2>2, Ranges DEF TypeOK
<1> QED
  BY <1>6, <1>7, <1>9, <1>10 DEF IInv

(* The last cook wakes every courier, so that none waits for a pizza that  *)
(* nobody will bake.                                                       *)
LEMMA CookDoneIInv ==
  ASSUME IInv, NEW c \in Cooks, CookDone(c)
  PROVE  IInv'
<1>1. /\ TypeOK /\ Places /\ CountsExact /\ NoLostWakeup
      /\ c \in Threads /\ c \notin Couriers /\ pc[c] = "leave"
      /\ active_cooks' = active_cooks - 1
      /\ UNCHANGED <<left, free_tables, ready_pizzas>>
      /\ pc' = [t \in Threads |->
                  IF t = c THEN "home"
                  ELSE IF active_cooks' = 0 /\ t \in WaitPizza THEN "take" ELSE pc[t]]
  BY Tools DEF IInv, CookDone
<1>2. /\ pc'[c] = "home"
      /\ \A d \in Cooks : d # c => pc'[d] = pc[d]
      /\ \A k \in Couriers :
           pc'[k] = IF active_cooks' = 0 /\ pc[k] = "wait_pizza" THEN "take" ELSE pc[k]
  BY <1>1, Tools DEF WaitPizza, At
<1>3. CountsExact'
  <2>1. /\ At(pc', Cooks, {"cook"}) = At(pc, Cooks, {"cook"})
        /\ At(pc', Cooks, AtWork) = At(pc, Cooks, AtWork) \ {c}
        /\ c \in At(pc, Cooks, AtWork)
    BY <1>1, <1>2 DEF At, AtWork
  <2>2. Cardinality(At(pc', Cooks, AtWork)) = Cardinality(At(pc, Cooks, AtWork)) - 1
    BY <2>1, Finite, FS_RemoveElement
  <2> QED
    BY <1>1, <2>1, <2>2 DEF CountsExact
<1>4. Places'
  BY <1>1, <1>2 DEF Places, CookLabels, CourierLabels, Baking
<1>5. NoLostWakeup'
  <2>1. WaitTable' = WaitTable /\ At(pc', Cooks, {"start"}) = At(pc, Cooks, {"start"})
    BY <1>1, <1>2 DEF WaitTable, At
  <2>2. WaitPizza' # {} => active_cooks' # 0 /\ \A k \in Couriers : pc'[k] = pc[k]
    BY <1>2 DEF WaitPizza, At
  <2>3. WaitPizza' # {} =>
          WaitPizza' = WaitPizza /\ At(pc', Couriers, {"take"}) = At(pc, Couriers, {"take"})
    BY <2>2 DEF WaitPizza, At
  <2> QED
    BY <1>1, <2>1, <2>2, <2>3 DEF NoLostWakeup, TypeOK
<1>6. TypeOK'
  <2>1. pc' \in [Threads -> Labels]
    BY <1>1 DEF TypeOK, Labels
  <2> QED
    BY <1>1, <1>3, <2>1, Ranges DEF TypeOK
<1> QED
  BY <1>3, <1>4, <1>5, <1>6 DEF IInv

(* A step of a courier, or a return of pthread_cond_wait: the cooks'       *)
(* counters stay, and whoever leaves the test of a condition has taken     *)
(* what it was for.                                                        *)
LEMMA TakePizzaIInv ==
  ASSUME IInv, NEW k \in Couriers, TakePizza(k)
  PROVE  IInv'
<1>1. /\ TypeOK /\ Places /\ CountsExact /\ NoLostWakeup
      /\ k \in Threads /\ k \notin Cooks
  BY Tools DEF IInv
<1>2. PICK to \in {"wait_pizza", "home", "deliver"} :
        /\ Goto(k, "take", to)
        /\ to = "wait_pizza" => ready_pizzas = 0 /\ active_cooks > 0
        /\ to = "home" => ready_pizzas = 0 /\ active_cooks = 0
        /\ to = "deliver" => ready_pizzas # 0
        /\ ready_pizzas' = IF to = "deliver" THEN ready_pizzas - 1 ELSE ready_pizzas
        /\ UNCHANGED <<left, free_tables, active_cooks>>
  BY DEF TakePizza
<1>3. /\ pc'[k] = to /\ \A t \in Threads : t # k => pc'[t] = pc[t]
      /\ pc[k] = "take" /\ pc' \in [Threads -> Labels]
  BY <1>1, <1>2 DEF Goto, TypeOK, Labels
<1>4. Cardinality(At(pc', Couriers, {"take"})) = Cardinality(At(pc, Couriers, {"take"})) - 1
  BY <1>1, <1>2, Counts, Finite DEF TypeOK, Crossing
<1>5. \A L : At(pc', Cooks, L) = At(pc, Cooks, L)
  BY <1>1, <1>3, Tools DEF At
<1>6. CountsExact' /\ WaitTable' = WaitTable
  BY <1>1, <1>2, <1>5 DEF CountsExact, WaitTable
<1>7. Places'
  BY <1>1, <1>2, <1>3, Tools DEF Places, CourierLabels
<1>8. WaitPizza' # {} => ready_pizzas' <= Cardinality(At(pc', Couriers, {"take"})) /\ active_cooks' > 0
  <2>1. CASE to = "wait_pizza"
    BY <1>2, <2>1, Finite
  <2>2. CASE to # "wait_pizza"
    <3>1. WaitPizza' = WaitPizza
      BY <1>1, <1>3, <2>2, Tools DEF WaitPizza, At
    <3> QED
      BY <1>1, <1>2, <1>4, <2>2, <3>1, Finite DEF NoLostWakeup, TypeOK
  <2> QED
    BY <2>1, <2>2
<1>9. NoLostWakeup'
  BY <1>1, <1>2, <1>5, <1>6, <1>8 DEF NoLostWakeup
<1>10. TypeOK'
  BY <1>1, <1>2, <1>3 DEF TypeOK
<1> QED
  BY <1>6, <1>7, <1>9, <1>10 DEF IInv

LEMMA ReturnIInv ==
  ASSUME IInv, NEW t \in Threads, Deliver(t) \/ Spurious(t)
  PROVE  IInv'
<1>1. TypeOK /\ Places /\ CountsExact /\ NoLostWakeup
  BY DEF IInv
<1>2. PICK from \in {"deliver", "wait_table", "wait_pizza"}, to \in {"start", "take"} :
        Goto(t, from, to) /\ (to = "start" <=> from = "wait_table")
  BY DEF Deliver, Spurious
<1>3. /\ pc[t] = from /\ pc'[t] = to /\ pc' \in [Threads -> Labels]
      /\ \A u \in Threads : u # t => pc'[u] = pc[u]
      /\ UNCHANGED <<left, free_tables, ready_pizzas, active_cooks>>
  BY <1>1, <1>2 DEF Goto, TypeOK, Labels, Deliver, Spurious
<1>4. /\ At(pc', Cooks, {"cook"}) = At(pc, Cooks, {"cook"})
      /\ At(pc', Cooks, AtWork) = At(pc, Cooks, AtWork)
      /\ At(pc, Cooks, {"start"}) \subseteq At(pc', Cooks, {"start"})
      /\ At(pc, Couriers, {"take"}) \subseteq At(pc', Couriers, {"take"})
      /\ WaitTable' \subseteq WaitTable /\ WaitPizza' \subseteq WaitPizza
  BY <1>1, <1>2, <1>3, Tools DEF At, AtWork, WaitTable, WaitPizza, Places, CookLabels, CourierLabels
<1>5. /\ Cardinality(At(pc, Cooks, {"start"})) <= Cardinality(At(pc', Cooks, {"start"}))
      /\ Cardinality(At(pc, Couriers, {"take"})) <= Cardinality(At(pc', Couriers, {"take"}))
  BY <1>4, Finite, FS_Subset
<1>6. NoLostWakeup'
  BY <1>1, <1>3, <1>4, <1>5, Finite DEF NoLostWakeup, TypeOK
<1>7. CountsExact'
  BY <1>1, <1>3, <1>4 DEF CountsExact
<1>8. Places'
  BY <1>1, <1>2, <1>3, Tools DEF Places, CookLabels, CourierLabels, Baking
<1>9. TypeOK'
  BY <1>1, <1>3 DEF TypeOK
<1> QED
  BY <1>6, <1>7, <1>8, <1>9 DEF IInv

LEMMA NextIInv == IInv /\ [Next]_vars => IInv'
<1> SUFFICES ASSUME IInv, [Next]_vars PROVE IInv'
  OBVIOUS
<1>1. ASSUME NEW c \in Cooks, Cook(c)
      PROVE  IInv'
  BY <1>1, StartCookingIInv, FinishCookingIInv, CookDoneIInv DEF Cook
<1>2. ASSUME NEW k \in Couriers, Courier(k)
      PROVE  IInv'
  BY <1>2, Tools, TakePizzaIInv, ReturnIInv DEF Courier
<1>3. ASSUME NEW t \in Threads, Spurious(t)
      PROVE  IInv'
  BY <1>3, ReturnIInv
<1>4. CASE UNCHANGED vars
  BY <1>4 DEF IInv, TypeOK, Places, CountsExact, NoLostWakeup, WaitTable, WaitPizza, At, vars
<1> QED
  BY <1>1, <1>2, <1>3, <1>4 DEF Next, Terminating
-----------------------------------------------------------------------------
(* The counters of the monitor agree with the loops of cooks and couriers,  *)
(* whoever pthread_cond_signal wakes.                                      *)
THEOREM Inductive == Spec => []IInv
  BY InitIInv, NextIInv, PTL DEF Spec

(* free_tables and active_cooks keep their ranges.                         *)
THEOREM TypeCorrect == Spec => []TypeOK
<1>1. IInv => TypeOK
  BY DEF IInv
<1> QED
  BY <1>1, Inductive, PTL

(* One signal per pizza and per table is enough: no wakeup is lost.        *)
THEOREM Wakeups == Spec => []NoLostWakeup
<1>1. IInv => NoLostWakeup
  BY DEF IInv
<1> QED
  BY <1>1, Inductive, PTL
-----------------------------------------------------------------------------
(* A courier that goes home leaves no pizza, baked or to be baked.         *)
LEMMA NothingLeft ==
  ASSUME IInv, active_cooks = 0
  PROVE  \A c \in Cooks : left[c] = 0
<1>1. At(pc, Cooks, AtWork) = {}
  BY Finite, FS_EmptySet DEF IInv, CountsExact
<1>2. \A c \in Cooks : ~(left[c] > 0)
  BY <1>1 DEF IInv, Places, At, AtWork, Baking
<1> QED
  BY <1>2 DEF IInv, TypeOK

(* Every step of the monitor is a step of the pizzeria, or none.           *)
LEMMA ShopStep ==
  IInv /\ [Next]_vars => [Shop!Next]_<<left, ready_pizzas, At(pc, Couriers, {"home"})>>
<1> DEFINE home == At(pc, Couriers, {"home"})
<1> SUFFICES ASSUME IInv, [Next]_vars
             PROVE  Shop!Next \/ UNCHANGED <<left, ready_pizzas, home>>
  OBVIOUS
<1>1. TypeOK /\ Places
  BY DEF IInv
<1>2. ASSUME NEW c \in Cooks, FinishCooking(c)
      PROVE  Shop!Bake(c)
  <2>1. \A k \in Couriers : k # c
    BY Tools
  <2>2. \A k \in Couriers : pc'[k] = "home" <=> pc[k] = "home"
    BY <1>1, <1>2, <2>1, Tools DEF FinishCooking, Signal, WaitTable, WaitPizza, At
  <2>3. home' = home
    BY <2>2 DEF At
  <2> QED
    BY <1>1, <1>2, <2>3 DEF FinishCooking, Shop!Bake, Places, Baking
<1>3. ASSUME NEW k \in Couriers, TakePizza(k)
      PROVE  Shop!Next \/ UNCHANGED <<left, ready_pizzas, home>>
  <2>1. /\ pc[k] = "take" /\ \A j \in Couriers : j # k => pc'[j] = pc[j]
        /\ pc'[k] \in {"wait_pizza", "home", "deliver"}
    BY <1>1, <1>3, Tools DEF TakePizza, Goto, TypeOK
  <2>2. k \notin home
    BY <2>1 DEF At
  <2>3. CASE pc'[k] = "home"
    <3>1. ready_pizzas = 0 /\ active_cooks = 0 /\ UNCHANGED <<left, ready_pizzas>>
      BY <1>1, <1>3, <2>3, Tools DEF TakePizza, Goto, TypeOK
    <3>2. home' = home \cup {k}
      BY <2>1, <2>3 DEF At
    <3>3. Shop!NothingComes
      BY <3>1, NothingLeft DEF Shop!NothingComes
    <3> QED
      BY <2>2, <3>1, <3>2, <3>3 DEF Shop!GoHome, Shop!Next
  <2>4. CASE pc'[k] = "deliver"
    <3>1. /\ ready_pizzas # 0 /\ ready_pizzas' = ready_pizzas - 1 /\ left' = left
      BY <1>1, <1>3, <2>4, Tools DEF TakePizza, Goto, TypeOK
    <3>2. home' = home
      BY <2>1, <2>4 DEF At
    <3>3. ready_pizzas > 0
      BY <1>1, <3>1 DEF TypeOK
    <3> QED
      BY <2>2, <3>1, <3>2, <3>3 DEF Shop!Take, Shop!Next
  <2>5. CASE pc'[k] = "wait_pizza"
    <3>1. UNCHANGED <<left, ready_pizzas>>
      BY <1>1, <1>3, <2>5, Tools DEF TakePizza, Goto, TypeOK
    <3>2. home' = home
      BY <2>1, <2>5 DEF At
    <3> QED
      BY <3>1, <3>2
  <2> QED
    BY <2>1, <2>3, <2>4, <2>5
<1>4. ASSUME NEW c \in Cooks, StartCooking(c) \/ CookDone(c)
      PROVE  UNCHANGED <<left, ready_pizzas, home>>
  <2>1. \A k \in Couriers : pc'[k] = "home" <=> pc[k] = "home"
    BY <1>1, <1>4, Tools DEF StartCooking, CookDone, Goto, WaitPizza, At, TypeOK
  <2> QED
    BY <1>4, <2>1 DEF StartCooking, CookDone, At
<1>5. ASSUME NEW t \in Threads, Deliver(t) \/ Spurious(t)
      PROVE  UNCHANGED <<left, ready_pizzas, home>>
  <2>1. \A k \in Couriers : pc'[k] = "home" <=> pc[k] = "home"
    BY <1>1, <1>5, Tools DEF Deliver, Spurious, Goto, TypeOK
  <2> QED
    BY <1>5, <2>1 DEF Deliver, Spurious, At
<1>6. CASE UNCHANGED vars
  BY <1>6 DEF vars, At
<1> QED
  BY <1>2, <1>3, <1>4, <1>5, <1>6, Tools DEF Next, Cook, Courier, Terminating, Shop!Next

(* The monitor implements the pizzeria, whatever the wakeups.              *)
THEOREM Refinement == Spec => ImplementsPizzeria
<1>1. Init => Shop!Init
  <2> SUFFICES ASSUME Init PROVE Shop!Init
    OBVIOUS
  <2>1. left \in [Cooks -> Nat \ {0}]
    BY KitchenAssumption DEF Init
  <2>2. At(pc, Couriers, {"home"}) = {}
    BY Tools DEF Init, At
  <2> QED
    BY <2>1, <2>2 DEF Init, Shop!Init
<1> QED
  BY <1>1, ShopStep, Inductive, PTL DEF Spec, ImplementsPizzeria, Shop!Spec
=============================================================================
