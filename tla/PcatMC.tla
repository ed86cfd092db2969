------------------------------- MODULE PcatMC -------------------------------
(***************************************************************************)
(* Small instances of Pcat for TLC.                                        *)
(***************************************************************************)
EXTENDS Pcat

\* a file longer than the buffer, an empty one and a short one; or stdin
SmallInputs == {[stdin |-> FALSE, ends |-> <<3, 3, 5>>],
                [stdin |-> TRUE, ends |-> <<4>>]}
=============================================================================
