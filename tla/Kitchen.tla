------------------------------- MODULE Kitchen -------------------------------
(***************************************************************************)
(* The pizzeria of Lesson_8/lesson8_pizza_hoare.c: cooks and couriers meet *)
(* in a monitor with two condition variables.                              *)
(*                                                                         *)
(* A kitchen_ procedure holds mtx throughout, so it is one step; the one   *)
(* that waits is split where pthread_cond_wait gives mtx up.  A woken      *)
(* thread takes mtx again and tests its condition again, in competition    *)
(* with the threads that call the procedure for the first time.            *)
(***************************************************************************)
EXTENDS ControlPoints

CONSTANTS
  Cooks, Couriers,
  N_tables,
  Portions     \* how many pizzas rnd_range(1, max_p) may give to a cook

ASSUME KitchenAssumption ==
  /\ IsFiniteSet(Cooks) /\ IsFiniteSet(Couriers)
  /\ Cooks # {} /\ Couriers # {} /\ Cooks \cap Couriers = {}
  /\ N_tables \in Nat \ {0}
  /\ Portions \subseteq Nat \ {0}

Threads == Cooks \cup Couriers

VARIABLES
  pc,
  left,           \* n - i of each cook
  free_tables, ready_pizzas, active_cooks

vars == <<pc, left, free_tables, ready_pizzas, active_cooks>>

Goto(t, from, to) ==
  /\ pc[t] = from
  /\ pc' = [pc EXCEPT ![t] = to]

\* main and kitchen_init
Init ==
  /\ pc = [t \in Threads |-> IF t \in Cooks THEN "start" ELSE "take"]
  /\ left \in [Cooks -> Portions]
  /\ free_tables = N_tables
  /\ ready_pizzas = 0
  /\ active_cooks = Cardinality(Cooks)

-----------------------------------------------------------------------------
WaitTable == At(pc, Cooks, {"wait_table"})
WaitPizza == At(pc, Couriers, {"wait_pizza"})

\* mutated Signal: the call is forgotten
NoSignal(waiting) == {{}}

\* the threads pthread_cond_signal may wake
Signal(waiting) == IF waiting = {} THEN {{}} ELSE {{t} : t \in waiting}

\* mutated StartCooking: the table is not counted as taken
StartUncounted(c) ==
  /\ UNCHANGED <<left, free_tables, ready_pizzas, active_cooks>>
  /\ \/ free_tables = 0 /\ Goto(c, "start", "wait_table")
     \/ free_tables # 0 /\ Goto(c, "start", "cook")

\* kitchen_start_cooking
StartCooking(c) ==
  /\ UNCHANGED <<left, ready_pizzas, active_cooks>>
  /\ \/ /\ free_tables = 0
        /\ Goto(c, "start", "wait_table")
        /\ UNCHANGED free_tables
     \/ /\ free_tables # 0
        /\ Goto(c, "start", "cook")
        /\ free_tables' = free_tables - 1

\* kitchen_finish_cooking, and the loop of cook_thread
FinishCooking(c) ==
  /\ pc[c] = "cook"
  /\ \E T \in Signal(WaitTable), K \in Signal(WaitPizza) :
       pc' = [t \in Threads |->
                IF t = c THEN IF left[c] = 1 THEN "leave" ELSE "start"
                ELSE IF t \in T THEN "start"
                ELSE IF t \in K THEN "take" ELSE pc[t]]
  /\ left' = [left EXCEPT ![c] = @ - 1]
  /\ ready_pizzas' = ready_pizzas + 1
  /\ free_tables' = free_tables + 1
  /\ UNCHANGED active_cooks

\* mutated CookDone: a signal in place of the broadcast
SignalOne(c) ==
  /\ pc[c] = "leave"
  /\ active_cooks' = active_cooks - 1
  /\ \E K \in Signal(WaitPizza) :
       pc' = [t \in Threads |->
                IF t = c THEN "home"
                ELSE IF active_cooks' = 0 /\ t \in K THEN "take" ELSE pc[t]]
  /\ UNCHANGED <<left, free_tables, ready_pizzas>>

\* kitchen_cook_done
CookDone(c) ==
  /\ pc[c] = "leave"
  /\ active_cooks' = active_cooks - 1
  /\ pc' = [t \in Threads |->
              IF t = c THEN "home"
              ELSE IF active_cooks' = 0 /\ t \in WaitPizza THEN "take" ELSE pc[t]]
  /\ UNCHANGED <<left, free_tables, ready_pizzas>>

\* mutated TakePizza: a courier leaves as soon as the cooks have gone
LeaveWithCooks(k) ==
  /\ UNCHANGED <<left, free_tables, active_cooks>>
  /\ \/ /\ active_cooks = 0
        /\ Goto(k, "take", "home")
        /\ UNCHANGED ready_pizzas
     \/ /\ ready_pizzas = 0 /\ active_cooks > 0
        /\ Goto(k, "take", "wait_pizza")
        /\ UNCHANGED ready_pizzas
     \/ /\ ready_pizzas # 0 /\ active_cooks > 0
        /\ Goto(k, "take", "deliver")
        /\ ready_pizzas' = ready_pizzas - 1

\* kitchen_take_pizza
TakePizza(k) ==
  /\ UNCHANGED <<left, free_tables, active_cooks>>
  /\ \/ /\ ready_pizzas = 0 /\ active_cooks > 0
        /\ Goto(k, "take", "wait_pizza")
        /\ UNCHANGED ready_pizzas
     \/ /\ ready_pizzas = 0 /\ active_cooks = 0
        /\ Goto(k, "take", "home")
        /\ UNCHANGED ready_pizzas
     \/ /\ ready_pizzas # 0
        /\ Goto(k, "take", "deliver")
        /\ ready_pizzas' = ready_pizzas - 1

Deliver(k) ==
  /\ Goto(k, "deliver", "take")
  /\ UNCHANGED <<left, free_tables, ready_pizzas, active_cooks>>

\* pthread_cond_wait may return without a signal
Spurious(t) ==
  /\ \/ Goto(t, "wait_table", "start")
     \/ Goto(t, "wait_pizza", "take")
  /\ UNCHANGED <<left, free_tables, ready_pizzas, active_cooks>>

Cook(c) == StartCooking(c) \/ FinishCooking(c) \/ CookDone(c)

Courier(k) == TakePizza(k) \/ Deliver(k)

AllHome == \A t \in Threads : pc[t] = "home"

Terminating == AllHome /\ UNCHANGED vars

Next ==
  \/ \E c \in Cooks : Cook(c)
  \/ \E k \in Couriers : Courier(k)
  \/ \E t \in Threads : Spurious(t)
  \/ Terminating

Spec == Init /\ [][Next]_vars

(***************************************************************************)
(* Every thread that is not asleep runs, and is let into the monitor in    *)
(* the end.  No wakeup happens without a signal for the sake of liveness.  *)
(***************************************************************************)
FairSpec ==
  /\ Spec
  /\ \A c \in Cooks : WF_vars(Cook(c))
  /\ \A k \in Couriers : WF_vars(Courier(k))

-----------------------------------------------------------------------------
(***************************************************************************)
(* Properties                                                              *)
(***************************************************************************)

Labels == {"start", "wait_table", "cook", "leave", "take", "wait_pizza", "deliver", "home"}

TypeOK ==
  /\ pc \in [Threads -> Labels]
  /\ left \in [Cooks -> Nat]
  /\ free_tables \in 0..N_tables
  /\ ready_pizzas \in Nat
  /\ active_cooks \in 0..Cardinality(Cooks)

(* kitchen_finish_cooking signals once per pizza and once per table (lines  *)
(* 45-47), not once per waiter.  No wakeup is lost for all that: while      *)
(* someone sleeps, every free table and every pizza has an awake taker, and *)
(* nobody sleeps on pizzas that will never come.                            *)
NoLostWakeup ==
  /\ WaitTable # {} => free_tables <= Cardinality(At(pc, Cooks, {"start"}))
  /\ WaitPizza # {} => ready_pizzas <= Cardinality(At(pc, Couriers, {"take"}))
  /\ WaitPizza # {} => active_cooks > 0

\* the cooks and pizzas as the pizzeria's guests see them
Shop == INSTANCE Pizzeria WITH
  ready <- ready_pizzas,
  home <- At(pc, Couriers, {"home"})

(* The monitor implements Pizzeria: whatever the wakeups, no pizza is lost, *)
(* taken twice, or left behind by a courier who goes home.                  *)
ImplementsPizzeria == Shop!Spec

(* Cooks and couriers all go home (main's joins return): the broadcast of   *)
(* the last cook reaches the couriers that sleep.                           *)
EveryoneHome == <>AllHome
=============================================================================
