------------------------------ MODULE Pizzeria ------------------------------
(***************************************************************************)
(* What both pizzerias (Lesson_7 with semaphores, Lesson_8 with a monitor) *)
(* promise: every pizza is baked once and carried away by one courier, and *)
(* a courier goes home only when there is nothing left to carry and nobody *)
(* left to bake.  Tables, queues and wakeups are left out.                 *)
(***************************************************************************)
EXTENDS Integers

CONSTANTS Cooks, Couriers

VARIABLES
  left,    \* how many pizzas each cook has still to bake
  ready,   \* pizzas baked and not yet taken
  home     \* the couriers that have gone home

NothingComes == ready = 0 /\ \A c \in Cooks : left[c] = 0

Init ==
  /\ left \in [Cooks -> Nat \ {0}]
  /\ ready = 0
  /\ home = {}

Bake(c) ==
  /\ left[c] > 0
  /\ left' = [left EXCEPT ![c] = @ - 1]
  /\ ready' = ready + 1
  /\ UNCHANGED home

Take ==
  /\ home # Couriers
  /\ ready > 0
  /\ ready' = ready - 1
  /\ UNCHANGED <<left, home>>

GoHome(k) ==
  /\ k \notin home
  /\ NothingComes
  /\ home' = home \cup {k}
  /\ UNCHANGED <<left, ready>>

Next ==
  \/ \E c \in Cooks : Bake(c)
  \/ Take
  \/ \E k \in Couriers : GoHome(k)

Spec == Init /\ [][Next]_<<left, ready, home>>
=============================================================================
