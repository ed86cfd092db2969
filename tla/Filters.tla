------------------------------- MODULE Filters -------------------------------
(***************************************************************************)
(* The two programs of Lesson_4 that are written to stand in a pipeline:   *)
(* lesson4_pipe_my_cat.c, which copies its input to its output through a   *)
(* pipe and a child of its own, and lesson4_counter.c, which counts its    *)
(* input, or the output of a command that it runs.                         *)
(*                                                                         *)
(* argv is "cat", with "-" or the name of a file behind it and with words  *)
(* that it does not look at, or "counter", with a command behind it.  The  *)
(* line a counter prints is one byte long.  EINTR is left out where the    *)
(* call is made again; to the counter an interrupted read is an error.     *)
(***************************************************************************)
EXTENDS Pipes

CONSTANT BUF_SIZE   \* bytes a read asks for

ASSUME FiltersAssumption == BUF_SIZE \in Nat \ {0}

VARIABLES
  left,    \* bytes not yet read of the file or terminal a segment reads
  shown,   \* bytes a segment has written to a file or the terminal
  count,   \* Counts.bytes of each counter
  buffering   \* of the shell's stdout: by "line" on a terminal, otherwise "full"

streams == <<fill, left, shown, count>>

Goto(p, from, to) ==
  /\ proc[p].pc = from
  /\ proc' = [proc EXCEPT ![p].pc = to]

Command(p) == Len(proc[p].argv) > 1

\* the first word behind "cat", unless it is the sign for stdin
FileNamed(argv) == Len(argv) > 1 /\ argv[2] # "-"

\* where a program reads from and writes to
Src(p) ==
  CASE proc[p].prog = "cat" -> IF FileNamed(proc[p].argv) THEN Outside ELSE proc[p].in
    [] proc[p].prog = "kid" -> Parent(p)
    [] OTHER -> IF Command(p) THEN p ELSE proc[p].in

Dst(p) == IF proc[p].prog = "cat" THEN p ELSE proc[p].out

-----------------------------------------------------------------------------
(***************************************************************************)
(* Starting                                                                *)
(***************************************************************************)

\* the shell's own pwd leaves by _exit, which flushes nothing: its line is lost
\* unless stdio passes it on at its end; under a counter pwd is a program
PwdPrints(p) == Head(proc[p].argv) = "pwd" /\ (p[2] # 0 \/ buffering = "line")

\* the other words, cd and exit among them, end the process without output
Exec(p) ==
  LET name == Head(proc[p].argv) IN
  /\ proc[p].pc = "exec"
  /\ proc' = [proc EXCEPT
       ![p].prog = name,
       ![p].pc = CASE PwdPrints(p) -> "write"
                   [] name = "counter" /\ ~Command(p) -> "read"
                   [] name = "cat" -> "start"
                   [] name = "counter" /\ Command(p) -> "start"
                   [] OTHER -> "ended",
       ![p].buf = IF PwdPrints(p) THEN 1 ELSE 0]
  /\ UNCHANGED streams

\* open, pipe and fork
Start(p) ==
  LET piped == [proc[p] EXCEPT !.holds = @ \cup {<<p, "r">>, <<p, "w">>}] IN
  /\ proc[p].pc = "start"
  /\ proc' = [proc EXCEPT ![p] = [piped EXCEPT !.pc = "parent"],
                          ![Child(p)] = [piped EXCEPT !.pc = "kid"]]
  /\ UNCHANGED streams

StartFails(p) == Goto(p, "start", "failed") /\ UNCHANGED streams

\* the parent closes the end it does not use
ParentCloses(p) ==
  /\ proc[p].pc = "parent"
  /\ proc' = [proc EXCEPT
       ![p].pc = "read",
       ![p].holds = @ \ {<<p, IF proc[p].prog = "cat" THEN "r" ELSE "w">>}]
  /\ UNCHANGED streams

\* mutated KidOfCat: the write end stays open in the child
KeepsBothEnds(p) ==
  /\ proc[p].pc = "kid" /\ proc[p].prog = "cat"
  /\ proc' = [proc EXCEPT ![p].pc = "read", ![p].prog = "kid"]
  /\ UNCHANGED streams

KidOfCat(p) ==
  /\ proc[p].pc = "kid" /\ proc[p].prog = "cat"
  /\ proc' = [proc EXCEPT ![p].pc = "read", ![p].prog = "kid",
                          ![p].holds = @ \ {<<Parent(p), "w">>}]
  /\ UNCHANGED streams

\* close, dup2, close, and the command is the rest of argv
KidOfCounter(p) ==
  /\ proc[p].pc = "kid" /\ proc[p].prog = "counter"
  /\ proc' = [proc EXCEPT ![p].pc = "exec", ![p].argv = Tail(@), ![p].out = Parent(p),
                          ![p].holds = @ \ {<<Parent(p), "r">>, <<Parent(p), "w">>}]
  /\ UNCHANGED streams

-----------------------------------------------------------------------------
(***************************************************************************)
(* Reading and writing                                                     *)
(***************************************************************************)

Available(p) == IF Src(p) = Outside THEN left[p[1]] ELSE fill[Src(p)]

Drained(p, m) ==
  IF Src(p) = Outside
  THEN left' = [left EXCEPT ![p[1]] = @ - m] /\ UNCHANGED fill
  ELSE fill' = [fill EXCEPT ![Src(p)] = @ - m] /\ UNCHANGED left

Read(p) ==
  /\ proc[p].pc = "read"
  /\ \E m \in 1..BUF_SIZE :
       /\ m <= Available(p)
       /\ Drained(p, m)
       /\ IF proc[p].prog = "counter"
          THEN count' = [count EXCEPT ![p] = @ + m] /\ UNCHANGED proc
          ELSE /\ proc' = [proc EXCEPT ![p].pc = "write", ![p].buf = m]
               /\ UNCHANGED count
  /\ UNCHANGED shown

\* the end of the input: the ends are closed, the counter prints or waits
ReadEnds(p) ==
  /\ proc[p].pc = "read"
  /\ IF Src(p) = Outside THEN left[p[1]] = 0 ELSE EndOfFile(Src(p))
  /\ proc' = [proc EXCEPT
       ![p].pc = IF proc[p].prog # "counter" THEN "ended"
                 ELSE IF Command(p) THEN "wait" ELSE "write",
       ![p].buf = IF proc[p].prog = "counter" THEN 1 ELSE 0,
       ![p].holds = {}]
  /\ UNCHANGED streams

\* waitpid in the counter; the line is printed whatever the status
Reap(p) == Goto(p, "wait", "write") /\ ~Live(Child(p)) /\ UNCHANGED streams

AfterWrite(p) == IF proc[p].prog \in {"cat", "kid"} THEN "read" ELSE "ended"

\* mutated Write: write_all takes a short write for the whole
ShortWrite(p) ==
  /\ proc[p].pc = "write"
  /\ \E m \in 1..proc[p].buf :
       /\ IF Dst(p) = Outside
          THEN shown' = [shown EXCEPT ![p[1]] = @ + m] /\ UNCHANGED fill
          ELSE /\ ~Broken(Dst(p)) /\ fill[Dst(p)] + m <= PIPE_BUF
               /\ fill' = [fill EXCEPT ![Dst(p)] = @ + m] /\ UNCHANGED shown
       /\ proc' = [proc EXCEPT ![p].buf = 0, ![p].pc = AfterWrite(p)]
  /\ UNCHANGED <<left, count>>

\* write_all and printf: what fits, until all is written
Write(p) ==
  /\ proc[p].pc = "write"
  /\ \E m \in 1..proc[p].buf :
       /\ IF Dst(p) = Outside
          THEN shown' = [shown EXCEPT ![p[1]] = @ + m] /\ UNCHANGED fill
          ELSE /\ ~Broken(Dst(p)) /\ fill[Dst(p)] + m <= PIPE_BUF
               /\ fill' = [fill EXCEPT ![Dst(p)] = @ + m] /\ UNCHANGED shown
       /\ proc' = [proc EXCEPT ![p].buf = @ - m,
                               ![p].pc = IF m < proc[p].buf THEN @ ELSE AfterWrite(p)]
  /\ UNCHANGED <<left, count>>

SigPipe(p) ==
  /\ Goto(p, "write", "killed")
  /\ Dst(p) # Outside /\ Broken(Dst(p))
  /\ UNCHANGED streams

\* any other error of read or write ends the program; it may happen and need not
IoError(p) ==
  /\ \E from \in {"read", "write"} : Goto(p, from, "failed")
  /\ UNCHANGED streams

Filter(p) ==
  \/ Exec(p) \/ Start(p) \/ StartFails(p)
  \/ ParentCloses(p) \/ KidOfCat(p) \/ KidOfCounter(p)
  \/ Read(p) \/ ReadEnds(p) \/ Reap(p) \/ Write(p) \/ SigPipe(p)
=============================================================================
