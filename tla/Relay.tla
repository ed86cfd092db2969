-------------------------------- MODULE Relay --------------------------------
(***************************************************************************)
(* What both relay races of Lesson_5 promise: the judge waits for all the  *)
(* runners, starts the clock, the runners run one after the other in their *)
(* order, and the clock is stopped when the last one has run.  How they    *)
(* talk to each other is left out.                                         *)
(***************************************************************************)
EXTENDS Integers

CONSTANT n   \* how many runners

Runners == 1..n

VARIABLES
  present,   \* the runners that have arrived
  passed,    \* the runners that have run and given the baton away
  clock      \* "before", "running" or "stopped"

Init == present = {} /\ passed = {} /\ clock = "before"

Arrive(i) ==
  /\ i \notin present
  /\ present' = present \cup {i}
  /\ UNCHANGED <<passed, clock>>

Start ==
  /\ clock = "before"
  /\ present = Runners
  /\ clock' = "running"
  /\ UNCHANGED <<present, passed>>

Pass(i) ==
  /\ clock = "running"
  /\ passed = 1..i-1
  /\ passed' = 1..i
  /\ UNCHANGED <<present, clock>>

Stop ==
  /\ clock = "running"
  /\ passed = Runners
  /\ clock' = "stopped"
  /\ UNCHANGED <<present, passed>>

Next == Start \/ Stop \/ \E i \in Runners : Arrive(i) \/ Pass(i)

Spec == Init /\ [][Next]_<<present, passed, clock>>
=============================================================================
