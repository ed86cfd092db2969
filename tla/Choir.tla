-------------------------------- MODULE Choir --------------------------------
(***************************************************************************)
(* What the choir of Bogatyr promises its audience: the characters of one  *)
(* of the songs in their order, each once, and a newline at the end.  Who  *)
(* sings, and how the singers agree, is left out.                          *)
(***************************************************************************)
EXTENDS Integers, Sequences

CONSTANT Songs   \* sequences of characters

VARIABLES
  song,   \* the song that was asked for
  sung    \* what has been written

\* the song as it is to be heard: it ends with a newline
Full(s) ==
  IF s # <<>> /\ s[Len(s)] = "newline" THEN s ELSE Append(s, "newline")

Init ==
  /\ song \in Songs
  /\ sung = <<>>

Sing ==
  /\ Len(sung) < Len(Full(song))
  /\ sung' = Append(sung, Full(song)[Len(sung) + 1])
  /\ UNCHANGED song

Spec == Init /\ [][Sing]_<<song, sung>>
=============================================================================
