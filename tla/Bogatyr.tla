------------------------------- MODULE Bogatyr -------------------------------
(***************************************************************************)
(* Bogatyr/lesson13_bogatyr.c: n processes sing a song through one System  *)
(* V message queue.  Whoever takes the LOCK message is the conductor; it   *)
(* collects the registrations, gives every distinct character of the song  *)
(* to one process, and then hands out turns character by character.        *)
(*                                                                         *)
(* msgrcv takes the first message of one type, so the queue is modelled    *)
(* per type: lock, reg, ack and one mailbox per process.  msgsnd blocks    *)
(* while the queue holds QCap messages.  Every call on the queue is a      *)
(* step.  A fork that fails ends the launcher, and only the launcher.        *)
(***************************************************************************)
EXTENDS Integers, Sequences, FiniteSets

CONSTANTS
  Procs,      \* the pids of the processes, a set of integers
  Launcher,   \* the process that creates the queue and forks the others
  Songs,      \* the songs that may be asked for
  QCap        \* messages the queue can hold (msg_qbytes / message size)

n == Cardinality(Procs)

ASSUME BogatyrAssumption ==
  /\ IsFiniteSet(Procs) /\ Procs \subseteq Nat
  /\ Launcher \in Procs
  /\ QCap \in Nat \ {0}
  /\ \A s \in Songs : s \in Seq(STRING \ {"silent"})   \* my_ch is 0 for silence

VARIABLES
  song,
  pc,        \* where each process is in main
  status,    \* exit status of each process
  lock,      \* is the LOCK message in the queue
  reg,       \* the REG messages: pids
  ack,       \* the ACK and BYE messages
  box,       \* the messages MT_TO each pid
  removed,   \* the queue has been removed
  joined,    \* pids collected by a conductor
  idx,       \* the loop variable of a conductor
  my_ch,     \* the character of each process, or "silent"
  turn,      \* the last TURN a process received
  sung       \* what has been written to stdout

queue == <<lock, reg, ack, box, removed>>
locals == <<joined, idx, my_ch, turn>>
vars == <<song, pc, status, queue, locals, sung>>

Goto(p, from, to) ==
  /\ pc[p] = from
  /\ pc' = [pc EXCEPT ![p] = to]
  /\ UNCHANGED <<song, status>>

Exit(p, from, code) ==
  /\ pc[p] = from
  /\ pc' = [pc EXCEPT ![p] = "exited"]
  /\ status' = [status EXCEPT ![p] = code]
  /\ UNCHANGED song

\* the messages in the queue
Stored ==
  LET boxed == {pk \in Procs \X (1..QCap) : pk[2] <= Len(box[pk[1]])} IN
  (IF lock THEN 1 ELSE 0) + Len(reg) + Len(ack) + Cardinality(boxed)

Space == ~removed /\ Stored < QCap

\* msgsnd to the mailbox of p
Post(p, m) ==
  /\ Space
  /\ box' = [box EXCEPT ![p] = Append(@, m)]
  /\ UNCHANGED <<lock, reg, ack, removed>>

Remove ==
  /\ removed' = TRUE
  /\ lock' = FALSE
  /\ reg' = <<>>
  /\ ack' = <<>>
  /\ box' = [p \in Procs |-> <<>>]

\* main, up to the first fork
Init ==
  /\ song \in Songs
  /\ pc = [p \in Procs |-> IF p = Launcher THEN "fork" ELSE "unborn"]
  /\ status = [p \in Procs |-> 0]
  /\ lock = TRUE
  /\ reg = <<>>
  /\ ack = <<>>
  /\ box = [p \in Procs |-> <<>>]
  /\ removed = FALSE
  /\ joined = [p \in Procs |-> {}]
  /\ idx = [p \in Procs |-> 1]
  /\ my_ch = [p \in Procs |-> "silent"]
  /\ turn = [p \in Procs |-> 0]
  /\ sung = <<>>

Fork(p) ==
  /\ pc[Launcher] = "fork"
  /\ Goto(p, "unborn", "register")
  /\ UNCHANGED <<queue, locals, sung>>

ForksDone ==
  /\ \A p \in Procs : pc[p] # "unborn"
  /\ Goto(Launcher, "fork", "register")
  /\ UNCHANGED <<queue, locals, sung>>

\* die("fork"): the launcher leaves without a registration of its own
ForkFails ==
  /\ \E p \in Procs : pc[p] = "unborn"
  /\ Exit(Launcher, "fork", 1)
  /\ UNCHANGED <<queue, locals, sung>>

Register(p) ==
  /\ Space
  /\ Goto(p, "register", "elect")
  /\ reg' = Append(reg, p)
  /\ UNCHANGED <<lock, ack, box, removed, locals, sung>>

\* msgrcv(MT_LOCK, IPC_NOWAIT)
TakeLock(p) ==
  /\ lock
  /\ Goto(p, "elect", "collect")
  /\ lock' = FALSE
  /\ UNCHANGED <<reg, ack, box, removed, locals, sung>>

NoLock(p) ==
  /\ ~lock
  /\ Goto(p, "elect", "await")
  /\ UNCHANGED <<queue, locals, sung>>

-----------------------------------------------------------------------------
(***************************************************************************)
(* The conductor                                                           *)
(***************************************************************************)

Chars == {song[k] : k \in DOMAIN song}

\* the place of character c in collect_unique: how many distinct characters
\* the song has up to the first c
Rank(c) ==
  LET k == CHOOSE k \in DOMAIN song : song[k] = c /\ \A j \in 1..k-1 : song[j] # c
  IN  Cardinality({song[j] : j \in 1..k})

\* the place of process p among the sorted pids
Place(p) == Cardinality({q \in Procs : q <= p})
Pid(k) == CHOOSE p \in Procs : Place(p) = k

Owner(c) == Pid(Rank(c))

Voice(p) == IF \E c \in Chars : Owner(c) = p
            THEN CHOOSE c \in Chars : Owner(c) = p ELSE "silent"

TooFew == Cardinality(Chars) > n

\* receive one REG; the last one decides whether the song can be cast
Collect(p) ==
  /\ reg # <<>>
  /\ joined' = [joined EXCEPT ![p] = @ \cup {Head(reg)}]
  /\ reg' = Tail(reg)
  /\ Goto(p, "collect",
       IF Cardinality(joined'[p]) < n THEN "collect"
       ELSE IF TooFew THEN "abort" ELSE "assign")
  /\ UNCHANGED <<lock, ack, box, removed, idx, my_ch, turn, sung>>

\* too few processes: DONE to all, then the queue is removed
AbortOne(p) ==
  /\ idx[p] <= n
  /\ Goto(p, "abort", "abort")
  /\ Post(Pid(idx[p]), [kind |-> "DONE"])
  /\ idx' = [idx EXCEPT ![p] = @ + 1]
  /\ UNCHANGED <<joined, my_ch, turn, sung>>

AbortEnd(p) ==
  /\ idx[p] > n
  /\ Exit(p, "abort", 3)
  /\ Remove
  /\ UNCHANGED <<locals, sung>>

\* ASSIGN to every process, the conductor included
AssignOne(p) ==
  LET q == Pid(idx[p]) IN
  /\ idx[p] <= n
  /\ Goto(p, "assign", "assign")
  /\ Post(q, [kind |-> "ASSIGN", ch |-> Voice(q)])
  /\ my_ch' = IF q = p THEN [my_ch EXCEPT ![p] = Voice(q)] ELSE my_ch
  /\ idx' = [idx EXCEPT ![p] = @ + 1]
  /\ UNCHANGED <<joined, turn, sung>>

AssignEnd(p) ==
  /\ idx[p] > n
  /\ Goto(p, "assign", "sing")
  /\ idx' = [idx EXCEPT ![p] = 1]
  /\ UNCHANGED <<queue, joined, my_ch, turn, sung>>

Current(p) == song[idx[p]]

\* the conductor's own character
SingSelf(p) ==
  /\ Goto(p, "sing", "sing")
  /\ idx[p] <= Len(song)
  /\ Owner(Current(p)) = p
  /\ sung' = IF my_ch[p] # "silent" THEN Append(sung, Current(p)) ELSE sung
  /\ idx' = [idx EXCEPT ![p] = @ + 1]
  /\ UNCHANGED <<queue, joined, my_ch, turn>>

\* mutated GiveTurn: the next turn does not wait for the ACK
GiveTurnAsync(p) ==
  LET q == Owner(Current(p)) IN
  /\ Goto(p, "sing", "sing")
  /\ idx[p] <= Len(song)
  /\ q # p
  /\ Post(q, [kind |-> "TURN", seq |-> idx[p], ch |-> Current(p)])
  /\ idx' = [idx EXCEPT ![p] = @ + 1]
  /\ UNCHANGED <<joined, my_ch, turn, sung>>

GiveTurn(p) ==
  LET q == Owner(Current(p)) IN
  /\ Goto(p, "sing", "ack")
  /\ idx[p] <= Len(song)
  /\ q # p
  /\ Post(q, [kind |-> "TURN", seq |-> idx[p], ch |-> Current(p)])
  /\ UNCHANGED <<locals, sung>>

\* the ACK must be the one of this turn
TakeAck(p) ==
  /\ ack # <<>>
  /\ ack' = Tail(ack)
  /\ UNCHANGED <<lock, reg, box, removed, joined, my_ch, turn, sung>>
  /\ IF Head(ack) = [kind |-> "ACK", seq |-> idx[p]]
     THEN Goto(p, "ack", "sing") /\ idx' = [idx EXCEPT ![p] = @ + 1]
     ELSE Exit(p, "ack", 4) /\ UNCHANGED idx

\* the song is over: a newline, unless it ends with one
EndSong(p) ==
  /\ idx[p] > Len(song)
  /\ Goto(p, "sing", "dismiss")
  /\ sung' = IF song = <<>> \/ song[Len(song)] # "newline"
             THEN Append(sung, "newline") ELSE sung
  /\ idx' = [idx EXCEPT ![p] = 1]
  /\ UNCHANGED <<queue, joined, my_ch, turn>>

DismissOne(p) ==
  /\ idx[p] <= n
  /\ Goto(p, "dismiss", "dismiss")
  /\ idx' = [idx EXCEPT ![p] = @ + 1]
  /\ IF Pid(idx[p]) = p THEN UNCHANGED queue ELSE Post(Pid(idx[p]), [kind |-> "DONE"])
  /\ UNCHANGED <<joined, my_ch, turn, sung>>

\* mutated DismissEnd: the conductor does not wait for the BYEs
DismissAtOnce(p) ==
  /\ idx[p] > n
  /\ Goto(p, "dismiss", "bye")
  /\ idx' = [idx EXCEPT ![p] = 0]
  /\ UNCHANGED <<queue, joined, my_ch, turn, sung>>

\* mutated DismissEnd: the conductor waits for a BYE of its own
ByeFromAll(p) ==
  /\ idx[p] > n
  /\ Goto(p, "dismiss", "bye")
  /\ idx' = [idx EXCEPT ![p] = n]
  /\ UNCHANGED <<queue, joined, my_ch, turn, sung>>

\* bye_need starts at n - 1
DismissEnd(p) ==
  /\ idx[p] > n
  /\ Goto(p, "dismiss", "bye")
  /\ idx' = [idx EXCEPT ![p] = n - 1]
  /\ UNCHANGED <<queue, joined, my_ch, turn, sung>>

TakeBye(p) ==
  /\ idx[p] > 0
  /\ ack # <<>>
  /\ Goto(p, "bye", "bye")
  /\ ack' = Tail(ack)
  /\ idx' = [idx EXCEPT ![p] = IF Head(ack).kind = "BYE" THEN @ - 1 ELSE @]
  /\ UNCHANGED <<lock, reg, box, removed, joined, my_ch, turn, sung>>

ByeEnd(p) ==
  /\ idx[p] = 0
  /\ Exit(p, "bye", 0)
  /\ Remove
  /\ UNCHANGED <<locals, sung>>

Conductor(p) ==
  \/ Collect(p)
  \/ AbortOne(p) \/ AbortEnd(p)
  \/ AssignOne(p) \/ AssignEnd(p)
  \/ SingSelf(p) \/ GiveTurn(p) \/ TakeAck(p) \/ EndSong(p)
  \/ DismissOne(p) \/ DismissEnd(p)
  \/ TakeBye(p) \/ ByeEnd(p)

-----------------------------------------------------------------------------
(***************************************************************************)
(* The workers                                                             *)
(***************************************************************************)

\* the first message must be the ASSIGN
TakeAssign(p) ==
  /\ box[p] # <<>>
  /\ box' = [box EXCEPT ![p] = Tail(@)]
  /\ UNCHANGED <<lock, reg, ack, removed, joined, idx, turn, sung>>
  /\ IF Head(box[p]).kind = "ASSIGN"
     THEN /\ Goto(p, "await", "listen")
          /\ my_ch' = [my_ch EXCEPT ![p] = Head(box[p]).ch]
     ELSE /\ Exit(p, "await", 5)
          /\ UNCHANGED my_ch

\* sing the character, if it is mine
TakeTurn(p) ==
  LET m == Head(box[p]) IN
  /\ box[p] # <<>>
  /\ m.kind = "TURN"
  /\ Goto(p, "listen", "acking")
  /\ box' = [box EXCEPT ![p] = Tail(@)]
  /\ sung' = IF my_ch[p] = m.ch THEN Append(sung, m.ch) ELSE sung
  /\ turn' = [turn EXCEPT ![p] = m.seq]
  /\ UNCHANGED <<lock, reg, ack, removed, joined, idx, my_ch>>

SendAck(p) ==
  /\ Space
  /\ Goto(p, "acking", "listen")
  /\ ack' = Append(ack, [kind |-> "ACK", seq |-> turn[p]])
  /\ UNCHANGED <<lock, reg, box, removed, locals, sung>>

TakeDone(p) ==
  /\ box[p] # <<>>
  /\ Head(box[p]).kind = "DONE"
  /\ Goto(p, "listen", "leaving")
  /\ box' = [box EXCEPT ![p] = Tail(@)]
  /\ UNCHANGED <<lock, reg, ack, removed, locals, sung>>

SendBye(p) ==
  /\ Space
  /\ Exit(p, "leaving", 0)
  /\ ack' = Append(ack, [kind |-> "BYE", seq |-> 0])
  /\ UNCHANGED <<lock, reg, box, removed, locals, sung>>

\* die: any call on the removed queue fails
QueueGone(p) ==
  /\ removed
  /\ \E from \in {"await", "listen", "acking", "leaving"} : Exit(p, from, 1)
  /\ UNCHANGED <<queue, locals, sung>>

Worker(p) ==
  \/ TakeAssign(p)
  \/ TakeTurn(p) \/ SendAck(p)
  \/ TakeDone(p) \/ SendBye(p)
  \/ QueueGone(p)

-----------------------------------------------------------------------------
Main(p) ==
  \/ Fork(p)
  \/ Register(p)
  \/ TakeLock(p) \/ NoLock(p)
  \/ Conductor(p)
  \/ Worker(p)

AllExited == \A p \in Procs : pc[p] = "exited"

\* the launcher is gone and some process was never started
ForkFailed == pc[Launcher] = "exited" /\ \E p \in Procs : pc[p] = "unborn"

\* after a failed fork the children wait for ever: nothing is left to happen
Terminating == (AllExited \/ ForkFailed) /\ UNCHANGED vars

Next == (\E p \in Procs : Main(p)) \/ ForksDone \/ ForkFails \/ Terminating

Spec == Init /\ [][Next]_vars

\* every process that can run does; no fork has to fail.  After a failed fork
\* the launcher has exited and the fork loop with it
FairSpec == Spec /\ WF_vars(ForksDone) /\ \A p \in Procs : WF_vars(Main(p))

-----------------------------------------------------------------------------
(***************************************************************************)
(* Properties                                                              *)
(***************************************************************************)

(* At most one process may sing at a time: there is one TURN, one singer    *)
(* that has not acknowledged, or one ACK, and only while the conductor      *)
(* waits for it.                                                            *)
OneVoice ==
  LET turns == {p \in Procs : \E k \in DOMAIN box[p] : box[p][k].kind = "TURN"}
      acking == {p \in Procs : pc[p] = "acking"}
      acks == {k \in DOMAIN ack : ack[k].kind = "ACK"}
      waiting == {p \in Procs : pc[p] = "ack"}
  IN  Cardinality(turns) + Cardinality(acking) + Cardinality(acks) = Cardinality(waiting)

(* What the audience hears.                                                 *)
Heard == INSTANCE Choir

(* The song is sung character by character in its order, whoever the        *)
(* conductor is and however the processes are scheduled.                    *)
SingsInOrder == Heard!Spec

(* How it ends.  With enough processes everyone ends with status 0: no     *)
(* unexpected message, no ACK of another turn, the queue is removed only    *)
(* after everybody has stopped using it, and the whole song has been heard. *)
(* A song with too many characters is refused: nothing is sung, one         *)
(* conductor reports status 3 and nobody claims success.  After a failed    *)
(* fork only the launcher ends: the children it had started never hear of   *)
(* it, sing nothing and keep the queue, for lack of its registration.       *)
Outcome ==
  CASE ForkFailed -> /\ sung = <<>> /\ ~removed
                     /\ \A p \in Procs \ {Launcher} : pc[p] # "exited"
    [] TooFew /\ ~ForkFailed ->
         /\ sung = <<>>
         /\ AllExited => /\ Cardinality({p \in Procs : status[p] = 3}) = 1
                         /\ \A p \in Procs : status[p] # 0
    [] OTHER -> /\ \A p \in Procs : status[p] = 0
                /\ AllExited => sung = Heard!Full(song)

(* Unless a fork fails, every process ends, also when the song is refused   *)
(* and the queue is removed under the workers, and the queue is not left    *)
(* behind.                                                                  *)
EveryoneExits == <>((AllExited /\ removed) \/ ForkFailed)
=============================================================================
