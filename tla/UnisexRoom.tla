----------------------------- MODULE UnisexRoom -----------------------------
(***************************************************************************)
(* What the shower of Lesson_6 promises its users: the room admits one     *)
(* gender at a time, never more than N people, and every client takes at   *)
(* most one shower.  How the clients queue for it is left out.             *)
(***************************************************************************)
EXTENDS Integers, FiniteSets

CONSTANTS Men, Women, N

VARIABLES
  occupants,   \* the clients inside the room
  served       \* the clients that have left it

Clients == Men \cup Women

SameGender(c, d) == (c \in Men) <=> (d \in Men)

Init ==
  /\ occupants = {}
  /\ served = {}

Enter(c) ==
  /\ c \notin occupants \cup served
  /\ \A d \in occupants : SameGender(c, d)
  /\ Cardinality(occupants) < N
  /\ occupants' = occupants \cup {c}
  /\ UNCHANGED served

Leave(c) ==
  /\ c \in occupants
  /\ occupants' = occupants \ {c}
  /\ served' = served \cup {c}

Next == \E c \in Clients : Enter(c) \/ Leave(c)

Spec == Init /\ [][Next]_<<occupants, served>>
=============================================================================
