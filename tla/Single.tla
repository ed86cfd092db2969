------------------------------- MODULE Single -------------------------------
(***************************************************************************)
(* The exam program of Final_test/single.c: every process prints Hello or  *)
(* Goodbye, one character a second, depending on how many processes        *)
(* already print.  The processes share the counter active in shared memory *)
(* and a semaphore that guards it.  Ctrl-C only sets stop_flag, except     *)
(* before the handler is installed.                                        *)
(*                                                                         *)
(* The two strings have the same length Len here; each write(2) is a step, *)
(* because a signal or the death of the reader can fall between any two.   *)
(***************************************************************************)
EXTENDS ControlPoints

CONSTANTS
  Procs,    \* the processes started from the shell
  Piped,    \* those whose stdout is a pipe to another process of their job
  Len       \* characters of a message

ASSUME SingleAssumption ==
  /\ IsFiniteSet(Procs)
  /\ Piped \subseteq Procs
  /\ Len \in Nat \ {0}

VARIABLES
  pc,          \* where each process is in main
  sem,         \* the named semaphore
  active,      \* shared_state.active
  registered,  \* g_registered of each process
  msg,         \* the string a process has chosen
  i,           \* the index of the print loop
  stop_flag,   \* set by sigint_handler
  reader       \* the processes whose reader still lives

locals == <<registered, msg, i>>
vars == <<pc, sem, active, locals, stop_flag, reader>>

Goto(p, from, to) ==
  /\ pc[p] = from
  /\ pc' = [pc EXCEPT ![p] = to]

Init ==
  /\ pc = [p \in Procs |-> "start"]
  /\ sem = 1
  /\ active = 0
  /\ registered = [p \in Procs |-> FALSE]
  /\ msg = [p \in Procs |-> "none"]
  /\ i = [p \in Procs |-> 0]
  /\ stop_flag = [p \in Procs |-> FALSE]
  /\ reader = Piped

-----------------------------------------------------------------------------
\* sigaction, then the semaphore and the shared memory are opened
Open(p) ==
  /\ Goto(p, "start", "wait")
  /\ UNCHANGED <<sem, active, locals, stop_flag, reader>>

\* sem_wait_retry, before the choice of the string and in the cleanup
SemWait(p, from, to) ==
  /\ Goto(p, from, to)
  /\ sem > 0
  /\ sem' = sem - 1
  /\ UNCHANGED <<active, locals, stop_flag, reader>>

Greeting == IF active = 0 THEN "Hello" ELSE "Goodbye"

\* mutated Register: only the process that says Hello is counted
CountHello(p) ==
  /\ Goto(p, "register", "write")
  /\ msg' = [msg EXCEPT ![p] = Greeting]
  /\ active' = IF active = 0 THEN 1 ELSE active
  /\ registered' = [registered EXCEPT ![p] = TRUE]
  /\ sem' = sem + 1
  /\ UNCHANGED <<i, stop_flag, reader>>

\* the first critical section, up to sem_post
Register(p) ==
  /\ Goto(p, "register", "write")
  /\ msg' = [msg EXCEPT ![p] = Greeting]
  /\ active' = active + 1
  /\ registered' = [registered EXCEPT ![p] = TRUE]
  /\ sem' = sem + 1
  /\ UNCHANGED <<i, stop_flag, reader>>

\* a write to a pipe nobody reads kills the process (SIGPIPE)
Broken(p) == p \in Piped \ reader

SigPipe(p) ==
  /\ Broken(p)
  /\ \/ Goto(p, "write", "killed")
     \/ stop_flag[p] /\ Goto(p, "newline", "killed")
  /\ UNCHANGED <<sem, active, locals, stop_flag, reader>>

Write(p) ==
  /\ ~Broken(p)
  /\ Goto(p, "write", "written")
  /\ UNCHANGED <<sem, active, locals, stop_flag, reader>>

\* any error but EINTR leaves the loop
WriteError(p) ==
  /\ ~Broken(p)
  /\ Goto(p, "write", "newline")
  /\ UNCHANGED <<sem, active, locals, stop_flag, reader>>

\* the first test of stop_flag
AfterWrite(p) ==
  /\ Goto(p, "written", IF stop_flag[p] THEN "newline" ELSE "pause")
  /\ UNCHANGED <<sem, active, locals, stop_flag, reader>>

\* sleep(1) has ended or was interrupted; the second test, then the loop
AfterPause(p) ==
  LET again == ~stop_flag[p] /\ i[p] + 1 < Len IN
  /\ Goto(p, "pause", IF again THEN "write" ELSE "newline")
  /\ i' = [i EXCEPT ![p] = IF again THEN @ + 1 ELSE @]
  /\ UNCHANGED <<sem, active, registered, msg, stop_flag, reader>>

\* the newline after an interrupted string; its errors are ignored
Newline(p) ==
  /\ ~(stop_flag[p] /\ Broken(p))
  /\ Goto(p, "newline", "cleanup")
  /\ UNCHANGED <<sem, active, locals, stop_flag, reader>>

\* mutated Unregister: the semaphore is not given back
ForgetPost(p) ==
  /\ Goto(p, "unregister", "closed")
  /\ active' = IF active > 0 THEN active - 1 ELSE active
  /\ UNCHANGED <<sem, locals, stop_flag, reader>>

\* mutated Unregister: a second post, as if sem_post had failed
PostTwice(p) ==
  /\ Goto(p, "unregister", "closed")
  /\ active' = IF active > 0 THEN active - 1 ELSE active
  /\ sem' = sem + 2
  /\ UNCHANGED <<locals, stop_flag, reader>>

\* the second critical section, then everything is closed
Unregister(p) ==
  /\ Goto(p, "unregister", "closed")
  /\ active' = IF active > 0 THEN active - 1 ELSE active
  /\ sem' = sem + 1
  /\ UNCHANGED <<locals, stop_flag, reader>>

Main(p) ==
  \/ Open(p)
  \/ SemWait(p, "wait", "register")
  \/ Register(p)
  \/ SigPipe(p)
  \/ Write(p)
  \/ WriteError(p)
  \/ AfterWrite(p)
  \/ AfterPause(p)
  \/ Newline(p)
  \/ registered[p] /\ SemWait(p, "cleanup", "unregister")
  \/ Unregister(p)

-----------------------------------------------------------------------------
Ended(p) == pc[p] \in {"closed", "killed"}

\* Ctrl-C: the default action before sigaction, sigint_handler after it
CtrlC(p) ==
  /\ ~Ended(p)
  /\ ~stop_flag[p]
  /\ \/ Goto(p, "start", "killed") /\ UNCHANGED stop_flag
     \/ /\ pc[p] # "start" /\ UNCHANGED pc
        /\ stop_flag' = [stop_flag EXCEPT ![p] = TRUE]
  /\ UNCHANGED <<sem, active, locals, reader>>

\* the same Ctrl-C reaches the reader of the pipe, which has no handler
ReaderDies(p) ==
  /\ p \in reader
  /\ stop_flag[p]
  /\ reader' = reader \ {p}
  /\ UNCHANGED <<pc, sem, active, locals, stop_flag>>

AllEnded == \A p \in Procs : Ended(p)

Terminating == AllEnded /\ UNCHANGED vars

Next ==
  \/ \E p \in Procs : Main(p) \/ CtrlC(p) \/ ReaderDies(p)
  \/ Terminating

Spec == Init /\ [][Next]_vars

\* the processes run; nobody has to press Ctrl-C
FairSpec == Spec /\ \A p \in Procs : WF_vars(Main(p))

-----------------------------------------------------------------------------
(***************************************************************************)
(* Properties                                                              *)
(***************************************************************************)

Labels == {"start", "wait", "register", "write", "written", "pause", "newline",
           "cleanup", "unregister", "closed", "killed"}

\* the processes between their two critical sections
Printing == At(pc, Procs, {"write", "written", "pause", "newline", "cleanup", "unregister"})

(* The semaphore is binary and active is never negative, although it is     *)
(* only decremented under a test.                                           *)
TypeOK ==
  /\ pc \in [Procs -> Labels]
  /\ sem \in 0..1
  /\ active \in Nat
  /\ registered \in [Procs -> BOOLEAN]
  /\ msg \in [Procs -> {"none", "Hello", "Goodbye"}]
  /\ i \in [Procs -> 0..Len-1]
  /\ stop_flag \in [Procs -> BOOLEAN]
  /\ reader \subseteq Piped

\* the processes that were killed after they had counted themselves
Lost == {p \in At(pc, Procs, {"killed"}) : registered[p]}

(* single.c:20: active is the number of processes that print, wherever      *)
(* Ctrl-C interrupts them; a process killed by SIGPIPE stays in it for ever. *)
ActiveExact == active = Cardinality(Printing \cup Lost)

(* README.md:15: a process that starts while another one prints says        *)
(* Goodbye, and one that starts alone says Hello, unless a process killed   *)
(* by SIGPIPE is still counted.                                             *)
GreetingRight ==
  [][\A p \in Procs : pc[p] = "register" /\ pc'[p] = "write" =>
       (msg'[p] = "Hello" <=> Printing \cup Lost = {})]_vars

(* At no time do two printing processes both say Hello.                     *)
HelloExclusive ==
  \A p, q \in Printing : msg[p] = "Hello" /\ msg[q] = "Hello" => p = q

(* README.md:19: after all processes have ended, some of them by Ctrl-C,    *)
(* the shared state is as good as new: the next process will say Hello and  *)
(* can enter its critical section.                                          *)
StateSurvives == AllEnded => active = 0 /\ sem = 1

(* Every process ends, with or without Ctrl-C.                              *)
EveryoneEnds == <>AllEnded
=============================================================================
