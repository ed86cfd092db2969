-------------------------------- MODULE Shell --------------------------------
(***************************************************************************)
(* run_pipeline of lesson4_myshell.c, with the programs of Filters in the  *)
(* segments: pipes, forks, redirections, the closing of the ends, the      *)
(* waits, and Ctrl-C, which the shell ignores and its children do not.     *)
(***************************************************************************)
EXTENDS Filters, FiniteSets

CONSTANTS
  Lines,       \* command lines: a sequence of [argv, redirs] each
  FILE_SIZE    \* bytes of every file, and of the terminal's input

ASSUME ShellAssumption ==
  /\ \A l \in Lines : Len(l) \in Segments /\ DOMAIN l = 1..Len(l)
  /\ \A l \in Lines : \A i \in DOMAIN l :
       /\ l[i].argv \in Seq(STRING) \ {<<>>} /\ l[i].redirs \subseteq {"<", ">"}
       \* what is built into the shell and stands alone runs in the shell itself
       /\ Len(l) = 1 => l[i].argv[1] \notin {"exit", "cd", "pwd"}
       \* Children has no names for deeper chains of counters
       /\ Len(l[i].argv) > 2 => l[i].argv[1] # "counter" \/ l[i].argv[2] # "counter"
  /\ FILE_SIZE \in Nat

VARIABLE line

vars == <<line, buffering, proc, streams>>

nsegs == Len(line)

NoProcess ==
  [pc |-> "unborn", prog |-> "shell", argv |-> <<>>, holds |-> {},
   in |-> Outside, out |-> Outside, buf |-> 0]

Init ==
  /\ line \in Lines
  /\ buffering \in {"line", "full"}
  /\ proc = [p \in {Shell} \cup Children |->
       IF p = Shell THEN [NoProcess EXCEPT !.pc = "pipe"] ELSE NoProcess]
  /\ fill = [pipe \in Segments \X (-1..2) |-> 0]
  /\ left = [i \in Segments |-> FILE_SIZE]
  /\ shown = [i \in Segments |-> 0]
  /\ count = [p \in Children |-> 0]

-----------------------------------------------------------------------------
(***************************************************************************)
(* The shell                                                               *)
(***************************************************************************)

pipes == {<<<<i, -1>>, e>> : i \in 1..nsegs - 1, e \in {"r", "w"}}

MakePipes ==
  /\ proc[Shell].pc = "pipe"
  /\ proc' = [proc EXCEPT ![Shell].pc = "fork", ![Shell].holds = pipes]
  /\ UNCHANGED streams

\* those already made are closed again
PipeFails == Goto(Shell, "pipe", "prompt") /\ UNCHANGED streams

pids == {i \in Segments : proc[<<i, 0>>].pc # "unborn"}

Fork ==
  LET i == Cardinality(pids) + 1 IN
  /\ proc[Shell].pc = "fork"
  /\ proc' = [proc EXCEPT
       ![<<i, 0>>] = [proc[Shell] EXCEPT !.pc = "born", !.argv = line[i].argv],
       ![Shell].pc = IF i = nsegs THEN "close" ELSE "fork"]
  /\ UNCHANGED streams

\* mutated ForkFails: the pipes stay open during the waits
ForkFailsOpen == Goto(Shell, "fork", "wait") /\ UNCHANGED streams

\* the pipes are closed, then the children that were forked are waited for
ForkFails ==
  /\ proc[Shell].pc = "fork"
  /\ proc' = [proc EXCEPT ![Shell].pc = "wait", ![Shell].holds = {}]
  /\ UNCHANGED streams

ClosePipes ==
  /\ proc[Shell].pc = "close"
  /\ proc' = [proc EXCEPT ![Shell].pc = "wait", ![Shell].holds = {}]
  /\ UNCHANGED streams

\* waitpid, for one child after the other
Wait ==
  /\ \A i \in pids : ~Live(<<i, 0>>)
  /\ Goto(Shell, "wait", "prompt")
  /\ UNCHANGED streams

run_pipeline == MakePipes \/ PipeFails \/ Fork \/ ForkFails \/ ClosePipes \/ Wait

-----------------------------------------------------------------------------
(***************************************************************************)
(* A child, from fork to exec                                              *)
(***************************************************************************)

\* until here Ctrl-C is ignored, as in the shell
SigDefault(p) == Goto(p, "born", "setup") /\ UNCHANGED streams

\* dup2, the redirections, and the ends are closed
Setup(p) ==
  LET i == p[1] IN
  /\ proc[p].pc = "setup"
  /\ proc' = [proc EXCEPT
       ![p].pc = "exec",
       ![p].in = IF "<" \in line[i].redirs \/ i = 1 THEN Outside ELSE <<i - 1, -1>>,
       ![p].out = IF ">" \in line[i].redirs \/ i = nsegs THEN Outside ELSE <<i, -1>>,
       ![p].holds = {}]
  /\ UNCHANGED streams

\* a redirection that is not complete or a file that cannot be opened
SetupFails(p) ==
  /\ Goto(p, "setup", "failed")
  /\ line[p[1]].redirs # {}
  /\ UNCHANGED streams

segment(p) == SigDefault(p) \/ Setup(p) \/ SetupFails(p) \/ Filter(p)

\* the terminal sends SIGINT to the whole foreground group
CtrlC ==
  /\ proc' = [p \in DOMAIN proc |->
       IF p = Shell \/ ~Live(p) \/ proc[p].pc = "born" THEN proc[p]
       ELSE [proc[p] EXCEPT !.pc = "killed"]]
  /\ UNCHANGED streams

AllGone == proc[Shell].pc = "prompt" /\ \A p \in Children : ~Live(p)

Next ==
  \/ /\ UNCHANGED <<line, buffering>>
     /\ run_pipeline \/ CtrlC \/ \E p \in Children : segment(p) \/ IoError(p)
  \/ AllGone /\ UNCHANGED vars

Spec == Init /\ [][Next]_vars

\* every process goes on, errors aside, and the input from outside ends
FairSpec ==
  /\ Spec
  /\ WF_vars(UNCHANGED <<line, buffering>> /\ run_pipeline)
  /\ \A p \in Children : WF_vars(UNCHANGED <<line, buffering>> /\ segment(p))

-----------------------------------------------------------------------------
(***************************************************************************)
(* Properties                                                              *)
(***************************************************************************)

\* the processes an end is meant for
Users(pipe, e) ==
  LET in(i) == {p \in Children : p[1] = i} IN
  CASE pipe[2] = -1 -> IF e = "w" THEN in(pipe[1]) ELSE in(pipe[1] + 1)
    [] pipe[2] # -1 /\ proc[pipe].prog = "cat" -> IF e = "w" THEN {pipe} ELSE {Child(pipe)}
    [] OTHER -> IF e = "r" THEN {pipe} ELSE {p \in in(pipe[1]) : p[2] > pipe[2]}

(* Except in a process that is still on its way to the program it will run, *)
(* an end of a pipe is open only where it is meant to be: nobody else keeps *)
(* a reader from the end of its file, or a writer from SIGPIPE.             *)
NoStrayEnds ==
  \A end \in Ends, p \in DOMAIN proc :
    Has(p, end) => \/ p \in Users(end[1], end[2])
                   \/ proc[p].pc \in {"fork", "close", "born", "setup", "parent", "kid"}

\* a segment that puts out a line of its own: a counter, or a pwd that is heard
OneLine(argv) == Head(argv) = "counter" \/ (Head(argv) = "pwd" /\ buffering = "line")

\* bytes that a segment gets, if nothing goes wrong
Input[i \in Segments] ==
  IF i = 1 \/ "<" \in line[i].redirs THEN FILE_SIZE
  ELSE IF ">" \in line[i - 1].redirs THEN 0
  ELSE LET words == line[i - 1].argv IN
       CASE Head(words) = "cat" -> IF FileNamed(words) THEN FILE_SIZE ELSE Input[i - 1]
         [] OneLine(words) -> 1
         [] OTHER -> 0

Undisturbed(i) == \A p \in Children : p[1] <= i => proc[p].pc \notin {"failed", "killed"}

(* Unless a process before it failed or was killed, a counter that prints   *)
(* has counted all the bytes that its segment was given, no more, and those *)
(* that came through a cat have all come through: an end of file is never   *)
(* seen early, though a cat's parent ends before its child.                 *)
CountExact ==
  \A i \in pids :
    LET p == <<i, 0>> IN
    /\ Undisturbed(i)
    /\ line[i].argv \in {<<"counter">>, <<"counter", "cat">>}
    /\ proc[p].pc \in {"write", "ended"}
    /\ proc[p].prog = "counter"
    => count[p] = Input[i]

(* Whatever fails and whoever is killed, the prompt comes back, and nobody  *)
(* is left behind on a pipe.                                                *)
PromptReturns == <>AllGone
=============================================================================
