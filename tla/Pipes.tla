-------------------------------- MODULE Pipes --------------------------------
(***************************************************************************)
(* The processes that a command line of Lesson_4's myshell becomes, and    *)
(* the pipes between them, as the kernel sees them: who holds which ends.  *)
(*                                                                         *)
(* Process <<i, 0>> is the child that the shell forks for segment i,       *)
(* <<i, d + 1>> the child of <<i, d>>.  Pipe <<i, d>> is the one made by   *)
(* process <<i, d>>, and <<i, -1>> the one between segments i and i + 1.   *)
(* Bytes are counted and not told apart.                                   *)
(***************************************************************************)
EXTENDS Integers, Sequences

CONSTANTS
  MaxSegments,   \* of the command lines
  PIPE_BUF       \* bytes a pipe holds

ASSUME PipesAssumption ==
  /\ MaxSegments \in Nat \ {0}
  /\ PIPE_BUF \in Nat \ {0}

Segments == 1..MaxSegments
Shell == <<0, 0>>
Outside == <<0, 0>>   \* a file or the terminal, in the place of a pipe
Children == Segments \X (0..2)
Ends == (Segments \X (-1..2)) \X {"r", "w"}

Parent(p) == <<p[1], p[2] - 1>>
Child(p) == <<p[1], p[2] + 1>>

VARIABLES
  proc,   \* of each process: its place pc, the program prog, its argv, the
          \* ends it holds besides stdin in and stdout out, and its buffer buf
  fill    \* bytes in each pipe

Gone == {"unborn", "ended", "failed", "killed"}

Live(p) == proc[p].pc \notin Gone

\* an end is open in a process as stdin, as stdout or under a number of its own
Has(p, end) ==
  Live(p) /\ end \in proc[p].holds \cup {<<proc[p].in, "r">>, <<proc[p].out, "w">>}

\* a reader sees the end of the file once nobody can write
EndOfFile(pipe) == fill[pipe] = 0 /\ \A p \in DOMAIN proc : ~Has(p, <<pipe, "w">>)

\* a writer gets SIGPIPE once nobody can read
Broken(pipe) == \A p \in DOMAIN proc : ~Has(p, <<pipe, "r">>)
=============================================================================
