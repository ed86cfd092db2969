------------------------------ MODULE SignalCat ------------------------------
(***************************************************************************)
(* lesson11_signal_cat.c: a parent sends its string to its child bit by    *)
(* bit with queued real-time signals, and waits for an ACK after each.     *)
(* A bit carries here its place in the string; at the receiver the signals *)
(* of one number keep their order, and sigwaitinfo takes the lowest number *)
(* first.  Every sigqueue and every sigwaitinfo is a step.                 *)
(***************************************************************************)
EXTENDS Integers, Sequences, FiniteSetsExt

CONSTANTS
  Lengths,     \* the lengths of the string to try
  Nuisances    \* bounds the signals that other processes send to the two

ASSUME SignalCatAssumption == Lengths \subseteq Nat /\ Nuisances \in Nat

BITS == 8

\* sig_bit, sig_ack and sig_fin as offsets from SIGRTMIN
Bit == 0
Ack == 1
Fin == 2
Signals == {Bit, Ack, Fin}

VARIABLES
  len,
  pc,          \* where the two processes are
  pending,     \* the signals queued for each process, by number
  sent,        \* bits the parent has sent, BITS * i + b in parent_send
  buf,         \* bits the child has stored
  nuisances

vars == <<len, pc, pending, sent, buf, nuisances>>

size == BITS * len

Goto(p, from, to) == pc[p] = from /\ pc' = [pc EXCEPT ![p] = to]

x_sigqueue(from, to, sig, val) ==
  pending' = [pending EXCEPT ![to][sig] = Append(@, [sig |-> sig, pid |-> from, val |-> val])]

First(p) == Min({s \in Signals : pending[p][s] # <<>>})

info(p) == Head(pending[p][First(p)])

x_sigwaitinfo(p) ==
  /\ \E s \in Signals : pending[p][s] # <<>>
  /\ pending' = [pending EXCEPT ![p][First(p)] = Tail(@)]

\* main, with the three signals blocked
Init ==
  /\ len \in Lengths
  /\ pc = [parent |-> "fork", child |-> "unborn"]
  /\ pending = [p \in {"parent", "child"} |-> [s \in Signals |-> <<>>]]
  /\ sent = 0
  /\ buf = <<>>
  /\ nuisances = 0

-----------------------------------------------------------------------------
(***************************************************************************)
(* parent_send and main                                                    *)
(***************************************************************************)

Fork ==
  /\ pc.parent = "fork"
  /\ pc' = [parent |-> "send", child |-> IF len = 0 THEN "fin" ELSE "bit"]
  /\ UNCHANGED <<len, pending, sent, buf, nuisances>>

SendBit ==
  /\ sent < size
  /\ Goto("parent", "send", "ack")
  /\ x_sigqueue("parent", "child", Bit, sent + 1)
  /\ sent' = sent + 1
  /\ UNCHANGED <<len, buf, nuisances>>

\* mutated IsAck: any process can acknowledge
AnyAck(i) == i.sig = Ack

IsAck(i) == i.sig = Ack /\ i.pid = "child"

\* the loops at 57-62 and 72-76: other signals are dropped
WaitAck(from, to) ==
  /\ x_sigwaitinfo("parent")
  /\ Goto("parent", from, IF IsAck(info("parent")) THEN to ELSE from)
  /\ UNCHANGED <<len, sent, buf, nuisances>>

SendFin ==
  /\ sent = size
  /\ Goto("parent", "send", "finack")
  /\ x_sigqueue("parent", "child", Fin, 2)
  /\ UNCHANGED <<len, sent, buf, nuisances>>

\* waitpid; the status of the child becomes that of the parent
Reap ==
  /\ pc.child \in {"exited", "died"}
  /\ Goto("parent", "reap", pc.child)
  /\ UNCHANGED <<len, pending, sent, buf, nuisances>>

parent_send == SendBit \/ WaitAck("ack", "send") \/ SendFin \/ WaitAck("finack", "reap")

-----------------------------------------------------------------------------
(***************************************************************************)
(* child_recv                                                              *)
(***************************************************************************)

\* mutated FromParent: the sender is not looked at
FromAnyone(i) == TRUE

FromParent(i) == i.pid = "parent"

IsFin(i) == i.sig = Fin /\ i.val = 2

\* a FIN in the middle ends the reception without an ACK
TakeBit ==
  LET i == info("child") IN
  /\ x_sigwaitinfo("child")
  /\ IF ~FromParent(i) \/ i.sig = Ack
     THEN Goto("child", "bit", "bit") /\ UNCHANGED buf
     ELSE IF IsFin(i)
     THEN Goto("child", "bit", "done") /\ UNCHANGED buf
     ELSE Goto("child", "bit", "ack") /\ buf' = Append(buf, i.val)
  /\ UNCHANGED <<len, sent, nuisances>>

AckBit ==
  /\ Goto("child", "ack", IF Len(buf) < size THEN "bit" ELSE "fin")
  /\ x_sigqueue("child", "parent", Ack, 0)
  /\ UNCHANGED <<len, sent, buf, nuisances>>

TakeFin ==
  LET i == info("child") IN
  /\ x_sigwaitinfo("child")
  /\ Goto("child", "fin", IF FromParent(i) /\ IsFin(i) THEN "finack" ELSE "fin")
  /\ UNCHANGED <<len, sent, buf, nuisances>>

\* mutated AckFin: the child is content to leave
LeaveQuietly ==
  /\ Goto("child", "finack", "done")
  /\ UNCHANGED <<len, pending, sent, buf, nuisances>>

AckFin ==
  /\ Goto("child", "finack", "done")
  /\ x_sigqueue("child", "parent", Ack, 0)
  /\ UNCHANGED <<len, sent, buf, nuisances>>

\* puts, printf, fflush and exit
Puts ==
  /\ Goto("child", "done", "exited")
  /\ UNCHANGED <<len, pending, sent, buf, nuisances>>

child_recv == TakeBit \/ AckBit \/ TakeFin \/ AckFin \/ Puts

-----------------------------------------------------------------------------
(***************************************************************************)
(* What goes wrong around them                                             *)
(***************************************************************************)

\* fork or sigqueue fails, with EAGAIN: the caller exits with a failure
Die(p) ==
  /\ pc[p] \in IF p = "parent" THEN {"fork", "send"} ELSE {"ack", "finack"}
  /\ pc' = [pc EXCEPT ![p] = "died"]
  /\ UNCHANGED <<len, pending, sent, buf, nuisances>>

\* any process of the user may queue the same signals
Nuisance ==
  /\ nuisances < Nuisances
  /\ nuisances' = nuisances + 1
  /\ \E p \in {"parent", "child"}, s \in Signals : x_sigqueue("other", p, s, 2)
  /\ UNCHANGED <<len, pc, sent, buf>>

Terminating == pc.parent \in {"exited", "died"} /\ UNCHANGED vars

Next ==
  \/ Fork \/ parent_send \/ Reap \/ child_recv
  \/ Die("parent") \/ Die("child") \/ Nuisance \/ Terminating

Spec == Init /\ [][Next]_vars

\* both processes go on; the others send only so many signals
FairSpec ==
  /\ Spec
  /\ WF_vars(Fork \/ parent_send \/ Reap)
  /\ WF_vars(child_recv)

-----------------------------------------------------------------------------
(***************************************************************************)
(* Properties                                                              *)
(***************************************************************************)

Truth(b) == IF b THEN 1 ELSE 0

\* the places of the signals of one process in a queue
Positions(queue, from) == {k \in DOMAIN queue : queue[k].pid = from}

\* the signals of the protocol that are under way
UnderWay(p, from, s) == Cardinality(Positions(pending[p][s], from))

(* For every signal the parent waits for there is one bit, FIN or ACK on   *)
(* its way, or the child about to answer: the stop-and-wait never has two  *)
(* signals pending, whose order sigwaitinfo would choose by number.  And   *)
(* when the parent awaits an ACK of a child that awaits the FIN, that ACK  *)
(* is on its way.                                                          *)
StopAndWait ==
  pc.parent # "died" /\ pc.child # "died" =>
    /\ UnderWay("child", "parent", Bit) + UnderWay("child", "parent", Fin)
         + UnderWay("parent", "child", Ack) + Truth(pc.child \in {"ack", "finack"})
       = Truth(pc.parent \in {"ack", "finack"})
    /\ pc.child = "fin" /\ pc.parent = "ack" => UnderWay("parent", "child", Ack) = 1

Cat == INSTANCE Printing WITH
  out <- IF pc.child = "exited" THEN buf ELSE <<>>,
  result <- CASE pc.parent = "exited" -> "complete"
              [] pc.parent = "died" -> "failed"
              [] OTHER -> "running"

(* What the child prints is the parent's string, all of it in one piece, or *)
(* it prints nothing, whatever others send and wherever a fork or sigqueue  *)
(* fails.  A parent that reports success has had it printed, one that gives *)
(* up has not and never will.                                               *)
ImplementsPrinting == Cat!Spec

(* If no fork and no sigqueue fails, both end and report success.          *)
BothEnd ==
  [](pc.parent # "died" /\ pc.child # "died") =>
    <>(pc.parent = "exited" /\ pc.child = "exited")
=============================================================================
