---------------------------- MODULE ControlPoints ----------------------------
(***************************************************************************)
(* Sets of processes by the place they have reached in the code.           *)
(***************************************************************************)
EXTENDS Integers, FiniteSets

\* the processes of D that are at one of the labels L
At(pc, D, L) == {p \in D : pc[p] \in L}

\* the change of the size of At(pc, D, L) when a process of D (inD) moves
Crossing(inD, from, to, L) ==
  IF ~inD \/ (from \in L <=> to \in L) THEN 0 ELSE IF to \in L THEN 1 ELSE -1
=============================================================================
