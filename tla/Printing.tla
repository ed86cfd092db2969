------------------------------- MODULE Printing -------------------------------
(***************************************************************************)
(* What a transfer that prints at its end promises: the text comes out     *)
(* whole or not at all, and success is reported only when it has come out. *)
(***************************************************************************)
EXTENDS Integers, Sequences

VARIABLES
  size,    \* bits of the text
  out,     \* the bits printed, each known by its place in the text
  result   \* "running", "complete" or "failed"

Text == [i \in 1..size |-> i]

Init == size \in Nat /\ out = <<>> /\ result = "running"

\* in one piece
Put ==
  /\ result = "running"
  /\ out = <<>>
  /\ out' = Text
  /\ UNCHANGED <<size, result>>

Complete ==
  /\ result = "running"
  /\ out = Text
  /\ result' = "complete"
  /\ UNCHANGED <<size, out>>

\* with nothing printed, and nothing to come
Fail ==
  /\ result = "running"
  /\ out = <<>>
  /\ result' = "failed"
  /\ UNCHANGED <<size, out>>

Next == Put \/ Complete \/ Fail

Spec == Init /\ [][Next]_<<size, out, result>>
=============================================================================
