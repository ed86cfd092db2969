----------------------------- MODULE BogatyrMC -----------------------------
(***************************************************************************)
(* Small instances of Bogatyr for TLC.                                     *)
(***************************************************************************)
EXTENDS Bogatyr

\* the empty song, a song with a silent process, one that returns to a singer,
\* one that ends with a newline of its own, one for four processes and one for
\* more than four
ShortSongs == {<<>>, <<"a", "b", "a">>, <<"a", "newline">>,
               <<"a", "b", "c", "a">>, <<"a", "b", "c", "d">>,
               <<"a", "b", "c", "d", "e">>}
=============================================================================
