------------------------------- MODULE Copying -------------------------------
(***************************************************************************)
(* What a cat promises: the output is at every moment a prefix of the      *)
(* input, and a copy reported as complete is the whole input.  How the     *)
(* bytes travel is left out.                                               *)
(***************************************************************************)
EXTENDS Integers, Sequences

VARIABLES
  size,    \* bytes of the input, all files together
  out,     \* the bytes written, each known by its place in the input
  result   \* "running", "complete" or "failed"

Input == [i \in 1..size |-> i]

Init == size \in Nat /\ out = <<>> /\ result = "running"

\* some more bytes of the input reach the output
Write ==
  /\ result = "running"
  /\ \E m \in Len(out) + 1..size : out' = SubSeq(Input, 1, m)
  /\ UNCHANGED <<size, result>>

Complete ==
  /\ result = "running"
  /\ out = Input
  /\ result' = "complete"
  /\ UNCHANGED <<size, out>>

Fail ==
  /\ result = "running"
  /\ result' = "failed"
  /\ UNCHANGED <<size, out>>

Next == Write \/ Complete \/ Fail

Spec == Init /\ [][Next]_<<size, out, result>>
=============================================================================
