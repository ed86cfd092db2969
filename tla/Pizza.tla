-------------------------------- MODULE Pizza --------------------------------
(***************************************************************************)
(* The pizzeria of Lesson_7/lesson7_pizza.c: cooks push pizzas into a ring *)
(* buffer, couriers pop them, semaphores do the waiting, and main pushes   *)
(* one negative value per courier when the cooks have ended.               *)
(*                                                                         *)
(* Every semaphore call is a step.  What is done between the sem_wait and  *)
(* the sem_post of sem_queue_mutex or sem_stats_mutex is one step: it      *)
(* touches only what that semaphore guards.                                *)
(***************************************************************************)
EXTENDS ControlPoints, Functions

CONSTANTS
  Cooks, Couriers,
  Main,       \* the thread that runs main
  N_tables,
  Portions    \* how many pizzas rnd_range(1, max_pizzas_per_cook) may give

ASSUME PizzaAssumption ==
  /\ IsFiniteSet(Cooks) /\ IsFiniteSet(Couriers)
  /\ Cooks # {} /\ Cooks \cap Couriers = {} /\ Main \notin Cooks \cup Couriers
  /\ N_tables \in Nat \ {0}
  /\ Portions \subseteq Nat \ {0}

Producers == Cooks \cup {Main}
Threads == Producers \cup Couriers

VARIABLES
  pc,
  portion,          \* pizzas_to_make of each cook
  left,             \* the pushes each producer has still to make
  tables, slots, items,       \* sem_tables, sem_slots, sem_items
  buf, head, tail,            \* queue_pizzas
  holding,          \* pizza_id of each courier
  delivered_total

queue == <<buf, head, tail>>
vars == <<pc, portion, left, tables, slots, items, queue, holding, delivered_total>>

total_pizzas == SumFunction(portion)

\* mutated queue_capacity: no room for the poison
PizzaCapacity == total_pizzas

queue_capacity == total_pizzas + Cardinality(Couriers)

\* a pizza is known by its cook and its number; Poison is the negative value
Poison == <<"negative">>
Nothing == <<"unwritten">>      \* what malloc left in the buffer
PizzaOf(c) == <<c, portion[c] - left[c]>>
Pizzas == Cooks \X Nat

Goto(t, from, to) ==
  /\ pc[t] = from
  /\ pc' = [pc EXCEPT ![t] = to]

\* main up to the pthread_create calls
Init ==
  /\ portion \in [Cooks -> Portions]
  /\ pc = [t \in Threads |-> CASE t \in Cooks -> "table"
                               [] t \in Couriers -> "idle"
                               [] OTHER -> "join_cooks"]
  /\ left = [t \in Producers |-> IF t = Main THEN Cardinality(Couriers) ELSE portion[t]]
  /\ tables = N_tables
  /\ items = 0
  /\ slots = queue_capacity
  /\ buf = [i \in 0..queue_capacity - 1 |-> Nothing]
  /\ head = 0 /\ tail = 0
  /\ holding = [k \in Couriers |-> Nothing]
  /\ delivered_total = 0

-----------------------------------------------------------------------------
\* sem_wait(&sem_tables), and the sleep that bakes the pizza
TakeTable(c) ==
  /\ Goto(c, "table", "push")
  /\ tables > 0
  /\ tables' = tables - 1
  /\ UNCHANGED <<portion, left, slots, items, queue, holding, delivered_total>>

\* queue_push: sem_wait(&sem_slots)
TakeSlot(p) ==
  /\ Goto(p, "push", "write")
  /\ slots > 0
  /\ slots' = slots - 1
  /\ UNCHANGED <<portion, left, tables, items, queue, holding, delivered_total>>

\* mutated Write: the capacity is taken to be the last index
WriteShort(p, value) ==
  /\ Goto(p, "write", "post_item")
  /\ buf' = [buf EXCEPT ![tail] = value]
  /\ tail' = (tail + 1) % (queue_capacity - 1)
  /\ UNCHANGED <<portion, left, tables, slots, items, head, holding, delivered_total>>

Write(p, value) ==
  /\ Goto(p, "write", "post_item")
  /\ buf' = [buf EXCEPT ![tail] = value]
  /\ tail' = (tail + 1) % queue_capacity
  /\ UNCHANGED <<portion, left, tables, slots, items, head, holding, delivered_total>>

\* what a producer does when its push is over
AfterPush(p) ==
  IF p # Main THEN "put_table" ELSE IF left[p] > 1 THEN "push" ELSE "join_couriers"

\* sem_post(&sem_items), the end of queue_push
PostItem(p) ==
  /\ Goto(p, "post_item", AfterPush(p))
  /\ items' = items + 1
  /\ left' = [left EXCEPT ![p] = @ - 1]
  /\ UNCHANGED <<portion, tables, slots, queue, holding, delivered_total>>

\* sem_post(&sem_tables), and the loop of cook_thread
PutTable(c) ==
  /\ Goto(c, "put_table", IF left[c] > 0 THEN "table" ELSE "done")
  /\ tables' = tables + 1
  /\ UNCHANGED <<portion, left, slots, items, queue, holding, delivered_total>>

\* queue_pop: sem_wait(&sem_items)
TakeItem(k) ==
  /\ Goto(k, "idle", "read")
  /\ items > 0
  /\ items' = items - 1
  /\ UNCHANGED <<portion, left, tables, slots, queue, holding, delivered_total>>

\* mutated Read: the order of a stack
ReadNewest(k) ==
  LET newest == (tail - 1) % queue_capacity IN
  /\ Goto(k, "read", "post_slot")
  /\ holding' = [holding EXCEPT ![k] = buf[newest]]
  /\ tail' = newest
  /\ UNCHANGED <<portion, left, tables, slots, items, buf, head, delivered_total>>

\* mutated Read: sem_queue_mutex is forgotten and two couriers read one value
ReadTwice(k) ==
  /\ Goto(k, "read", "post_slot")
  /\ holding' = [holding EXCEPT ![k] = buf[head]]
  /\ head' = IF \E j \in Couriers \ {k} : pc[j] = "read" THEN head
             ELSE (head + 1) % queue_capacity
  /\ UNCHANGED <<portion, left, tables, slots, items, buf, tail, delivered_total>>

Read(k) ==
  /\ Goto(k, "read", "post_slot")
  /\ holding' = [holding EXCEPT ![k] = buf[head]]
  /\ head' = (head + 1) % queue_capacity
  /\ UNCHANGED <<portion, left, tables, slots, items, buf, tail, delivered_total>>

\* sem_post(&sem_slots), the end of queue_pop, and the test for the poison
PostSlot(k) ==
  /\ Goto(k, "post_slot", IF holding[k] = Poison THEN "done" ELSE "deliver")
  /\ slots' = slots + 1
  /\ UNCHANGED <<portion, left, tables, items, queue, holding, delivered_total>>

Deliver(k) ==
  /\ Goto(k, "deliver", "idle")
  /\ delivered_total' = delivered_total + 1
  /\ UNCHANGED <<portion, left, tables, slots, items, queue, holding>>

\* mutated JoinCooks: the couriers are not told
NoPoison ==
  /\ \A c \in Cooks : pc[c] = "done"
  /\ Goto(Main, "join_cooks", "join_couriers")
  /\ UNCHANGED <<portion, left, tables, slots, items, queue, holding, delivered_total>>

JoinCooks ==
  /\ \A c \in Cooks : pc[c] = "done"
  /\ Goto(Main, "join_cooks", IF Couriers = {} THEN "join_couriers" ELSE "push")
  /\ UNCHANGED <<portion, left, tables, slots, items, queue, holding, delivered_total>>

JoinCouriers ==
  /\ \A k \in Couriers : pc[k] = "done"
  /\ Goto(Main, "join_couriers", "done")
  /\ UNCHANGED <<portion, left, tables, slots, items, queue, holding, delivered_total>>

queue_push(p, value) == TakeSlot(p) \/ Write(p, value) \/ PostItem(p)

queue_pop(k) == TakeItem(k) \/ Read(k) \/ PostSlot(k)

cook_thread(c) == TakeTable(c) \/ queue_push(c, PizzaOf(c)) \/ PutTable(c)

courier_thread(k) == queue_pop(k) \/ Deliver(k)

main == JoinCooks \/ queue_push(Main, Poison) \/ JoinCouriers

AllDone == \A t \in Threads : pc[t] = "done"

Terminating == AllDone /\ UNCHANGED vars

Next ==
  \/ \E c \in Cooks : cook_thread(c)
  \/ \E k \in Couriers : courier_thread(k)
  \/ main
  \/ Terminating

Spec == Init /\ [][Next]_vars

(***************************************************************************)
(* Every thread that can go on does, and sleep returns.  The semaphores    *)
(* need not be fair: the pushes, and so the takings, are finitely many.    *)
(***************************************************************************)
FairSpec ==
  /\ Spec
  /\ \A c \in Cooks : WF_vars(cook_thread(c))
  /\ \A k \in Couriers : WF_vars(courier_thread(k))
  /\ WF_vars(main)

-----------------------------------------------------------------------------
(***************************************************************************)
(* Properties                                                              *)
(***************************************************************************)

\* the values in the ring: announced by sem_items, claimed by a courier that has
\* not read yet, or written by a producer that has not posted yet
QueueLen ==
  items + Cardinality(At(pc, Couriers, {"read"}))
        + Cardinality(At(pc, Producers, {"post_item"}))

Place(j) == (head + j) % queue_capacity

Ready == {j \in 0..QueueLen - 1 : buf[Place(j)] \in Pizzas}

Carriers == {k \in At(pc, Couriers, {"post_slot", "deliver"}) : holding[k] # Poison}

\* the pizzas each cook has not put into the ring
unbaked == [c \in Cooks |-> IF pc[c] = "post_item" THEN left[c] - 1 ELSE left[c]]

(* The semaphores count what the threads hold and what head and tail        *)
(* delimit: a cook keeps its table until the pizza is in the queue (line    *)
(* 111), a slot is free, reserved, filled, or emptied and not posted, and   *)
(* no courier finds a place nobody has written.  sem_items is posted after  *)
(* the mutex is released (lines 53-55), so another producer may post first. *)
QueueExact ==
  /\ tables + Cardinality(At(pc, Cooks, {"push", "write", "post_item", "put_table"}))
       = N_tables
  /\ slots + QueueLen + Cardinality(At(pc, Producers, {"write"}))
       + Cardinality(At(pc, Couriers, {"post_slot"})) = queue_capacity
  /\ (head + QueueLen) % queue_capacity = tail
  /\ \A j \in 0..QueueLen - 1 : buf[Place(j)] # Nothing

(* As many pizzas as were ordered are still to bake, in the ring, on their  *)
(* way or delivered, so that the totals printed at the end are the same,    *)
(* and no pizza is carried by two couriers.                                 *)
PizzasExact ==
  /\ SumFunction(unbaked) + Cardinality(Ready) + Cardinality(Carriers)
       + delivered_total = total_pizzas
  /\ \A j, k \in Carriers : holding[j] = holding[k] => j = k

(* lesson7_pizza.c:199, the queue holds all the pizzas and the poison: a    *)
(* cook never waits for a courier with a table in its hands.                *)
PushNeverWaits == \A p \in At(pc, Producers, {"push"}) : slots > 0

Shop == INSTANCE Pizzeria WITH
  left <- unbaked,
  ready <- Cardinality(Ready),
  home <- {k \in Couriers : pc[k] \in {"post_slot", "done"} /\ holding[k] = Poison}

(* The semaphores implement Pizzeria: the poison is behind every pizza, so  *)
(* a courier that takes it leaves nothing to be carried.                    *)
ImplementsPizzeria == Shop!Spec

(* All cooks and couriers end, and main's joins return.                     *)
EveryoneDone == <>AllDone
=============================================================================
