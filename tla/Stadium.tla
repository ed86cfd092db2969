------------------------------- MODULE Stadium -------------------------------
(***************************************************************************)
(* The relay race of Lesson_5: the judge forks n runners, waits until all  *)
(* have arrived, gives the baton to the first and waits for it to come     *)
(* back.  lesson5_stadium.c has one System V queue whose messages are told *)
(* apart by their type; lesson5_stadium_posix.c has one POSIX queue per    *)
(* process, opened by name.  Both are here, chosen by the initial state.   *)
(*                                                                         *)
(* A message is the runner_id it carries.  box[i] holds what is on its way *)
(* to runner i, box[Judge] what is on its way to the judge; the arrivals   *)
(* have a type of their own in the System V queue and no queue of their    *)
(* own with POSIX.  Every call on a queue is a step.                       *)
(***************************************************************************)
EXTENDS ControlPoints, Sequences, FiniteSetsExt, Functions

CONSTANTS
  n,           \* the command line argument
  Variants,    \* {"SysV", "POSIX"} or one of them
  Capacity     \* messages a queue holds: msg_qbytes / 4, or mq_maxmsg

ASSUME StadiumAssumption ==
  /\ n \in Nat \ {0}
  /\ Variants \subseteq {"SysV", "POSIX"}
  /\ Capacity \in Nat \ {0}

Runners == 1..n
Judge == 0
Arrivals == -1
Addresses == Arrivals..n

VARIABLES
  variant,
  pc,        \* where the judge and each runner are
  box,       \* the messages on their way to each address
  exists,    \* the queues can be opened, and with System V used
  arrived    \* the judge's count

vars == <<variant, pc, box, exists, arrived>>

Goto(p, from, to) ==
  /\ pc[p] = from
  /\ pc' = [pc EXCEPT ![p] = to]
  /\ UNCHANGED variant

Stored == SumFunction([a \in Addresses |-> Len(box[a])])

\* msgsnd and mq_send wait for a place, in the one queue or in that of a
Space(a) ==
  IF variant = "SysV" THEN exists /\ Stored < Capacity ELSE Len(box[a]) < Capacity

Send(a, id) == Space(a) /\ box' = [box EXCEPT ![a] = Append(@, id)]

Receive(a) == box[a] # <<>> /\ box' = [box EXCEPT ![a] = Tail(@)]

ArrivalBox == IF variant = "SysV" THEN Arrivals ELSE Judge

\* main, with its queues created
Init ==
  /\ variant \in Variants
  /\ pc = [p \in {Judge} \cup Runners |-> IF p = Judge THEN "fork" ELSE "unborn"]
  /\ box = [a \in Addresses |-> <<>>]
  /\ exists = TRUE
  /\ arrived = 0

-----------------------------------------------------------------------------
(***************************************************************************)
(* runner_proc                                                             *)
(***************************************************************************)

\* the three mq_open calls
Open(i) ==
  /\ Goto(i, "open", IF exists THEN "arrive" ELSE "died")
  /\ UNCHANGED <<box, exists, arrived>>

Arrive(i) ==
  /\ Goto(i, "arrive", "baton")
  /\ Send(ArrivalBox, i)
  /\ UNCHANGED <<exists, arrived>>

TakeBaton(i) ==
  /\ Goto(i, "baton", "pass")
  /\ Receive(i)
  /\ UNCHANGED <<exists, arrived>>

\* mutated NextOf: the last runner gives the baton to the first
RoundAgain(i) == (i % n) + 1

NextOf(i) == IF i < n THEN i + 1 ELSE Judge

\* after the 5 ms of running
Pass(i) ==
  /\ Goto(i, "pass", "exited")
  /\ Send(NextOf(i), i)
  /\ UNCHANGED <<exists, arrived>>

\* msgsnd or msgrcv on the removed queue
QueueGone(i) ==
  /\ ~exists
  /\ \E from \in {"arrive", "baton", "pass"} : Goto(i, from, "died")
  /\ UNCHANGED <<box, exists, arrived>>

runner_sysv(i) == variant = "SysV" /\ (Arrive(i) \/ TakeBaton(i) \/ Pass(i) \/ QueueGone(i))

runner_posix(i) == variant = "POSIX" /\ (Open(i) \/ Arrive(i) \/ TakeBaton(i) \/ Pass(i))

-----------------------------------------------------------------------------
(***************************************************************************)
(* main                                                                    *)
(***************************************************************************)

Unborn == {i \in Runners : pc[i] = "unborn"}

\* the runners are forked in their order
Fork ==
  LET i == Min(Unborn) IN
  /\ pc[Judge] = "fork"
  /\ pc' = [pc EXCEPT ![i] = IF variant = "SysV" THEN "arrive" ELSE "open",
                      ![Judge] = IF i = n THEN "arrivals" ELSE "fork"]
  /\ UNCHANGED <<variant, box, exists, arrived>>

\* die: the judge exits, the queues and the runners stay
ForkFails ==
  /\ Goto(Judge, "fork", "died")
  /\ UNCHANGED <<box, exists, arrived>>

\* mutated TakeArrival: the loop ends one arrival early
TakeFewer ==
  /\ Goto(Judge, "arrivals", IF arrived + 2 < n THEN "arrivals" ELSE "start")
  /\ Receive(ArrivalBox)
  /\ arrived' = arrived + 1
  /\ UNCHANGED exists

TakeArrival ==
  /\ Goto(Judge, "arrivals", IF arrived + 1 < n THEN "arrivals" ELSE "start")
  /\ Receive(ArrivalBox)
  /\ arrived' = arrived + 1
  /\ UNCHANGED exists

Start ==
  /\ Goto(Judge, "start", "finish")
  /\ Send(1, 0)
  /\ UNCHANGED <<exists, arrived>>

TakeFinish ==
  /\ Goto(Judge, "finish", "remove")
  /\ Receive(Judge)
  /\ UNCHANGED <<exists, arrived>>

\* IPC_RMID destroys the messages; mq_unlink takes the names away
Remove ==
  /\ Goto(Judge, "remove", "wait")
  /\ exists' = FALSE
  /\ box' = IF variant = "SysV" THEN [a \in Addresses |-> <<>>] ELSE box
  /\ UNCHANGED arrived

Wait ==
  /\ \A i \in Runners : pc[i] \in {"exited", "died"}
  /\ Goto(Judge, "wait", "exited")
  /\ UNCHANGED <<box, exists, arrived>>

judge == Fork \/ ForkFails \/ TakeArrival \/ Start \/ TakeFinish \/ Remove \/ Wait

main_sysv == variant = "SysV" /\ judge

main_posix == variant = "POSIX" /\ judge

AllExited == \A p \in DOMAIN pc : pc[p] = "exited"

Terminating == AllExited /\ UNCHANGED vars

Next ==
  \/ main_sysv \/ main_posix
  \/ \E i \in Runners : runner_sysv(i) \/ runner_posix(i)
  \/ Terminating

Spec == Init /\ [][Next]_vars

\* every process that can run does, and nanosleep returns
FairSpec ==
  /\ Spec
  /\ WF_vars(main_sysv \/ main_posix)
  /\ \A i \in Runners : WF_vars(runner_sysv(i) \/ runner_posix(i))

-----------------------------------------------------------------------------
(***************************************************************************)
(* Properties                                                              *)
(***************************************************************************)

(* Arrivals, batons and the finish never mix: before the start the messages *)
(* are those of runners that have arrived and are not counted, during the   *)
(* race there is the baton alone, on its way or in a hand, and at the end   *)
(* nothing is left.  So no baton ever waits for a place in a full queue.    *)
MessagesExact ==
  CASE pc[Judge] \in {"fork", "arrivals", "died"} ->
         arrived + Stored + Cardinality(At(pc, Runners, {"unborn", "open", "arrive"})) = n
    [] pc[Judge] = "finish" -> Stored + Cardinality(At(pc, Runners, {"pass"})) = 1
    [] OTHER -> Stored = 0

Race == INSTANCE Relay WITH
  present <- At(pc, Runners, {"baton", "pass", "exited"}),
  passed <- At(pc, Runners, {"exited"}),
  clock <- CASE pc[Judge] = "finish" -> "running"
             [] pc[Judge] \in {"remove", "wait", "exited"} -> "stopped"
             [] OTHER -> "before"

(* Lesson_5/README.md, "Scenario": both programs implement the race, and    *)
(* the time that is printed is the time of the whole lap.  After a failed   *)
(* fork nobody runs.                                                        *)
ImplementsRelay == Race!Spec

(* If no fork fails, all end with status 0, none of them on a queue that    *)
(* has been removed under it, and no queue is left behind.                  *)
EveryoneEnds == [](pc[Judge] # "died") => <>(AllExited /\ ~exists)
=============================================================================
