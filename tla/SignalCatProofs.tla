--------------------------- MODULE SignalCatProofs ---------------------------
(***************************************************************************)
(* Proofs about SignalCat, for strings of any length, any number of        *)
(* signals from other processes and a failure of either side at any        *)
(* moment.  The signals under way are counted in the queues; the           *)
(* stop-and-wait discipline is that the count and the places of the two    *)
(* processes determine each other, and the refinement of Printing follows. *)
(***************************************************************************)
EXTENDS SignalCat, FiniteSetTheorems, SequenceTheorems, TLAPS

Procs == {"parent", "child"}
Senders == Procs \cup {"other"}
Infos == [sig : Signals, pid : Senders, val : Nat]
Labels == {"fork", "send", "ack", "finack", "reap", "exited", "died",
           "unborn", "bit", "fin", "done"}

Bits == UnderWay("child", "parent", Bit)
Fins == UnderWay("child", "parent", Fin)
Acks == UnderWay("parent", "child", Ack)

TypeInv ==
  /\ len \in Nat
  /\ pc \in [Procs -> Labels]
  /\ pending \in [Procs -> [Signals -> Seq(Infos)]]
  /\ sent \in Nat
  /\ buf \in Seq(Nat)
  /\ nuisances \in Nat

\* a signal lies in the queue of its number; those of the protocol say what
\* they said when they were sent
Contents ==
  \A s \in Signals :
    /\ \A k \in DOMAIN pending["child"][s] :
         LET i == pending["child"][s][k] IN
         /\ i.sig = s
         /\ i.pid = "parent" => (s = Bit /\ i.val = sent) \/ (s = Fin /\ i.val = 2)
    /\ \A k \in DOMAIN pending["parent"][s] :
         LET i == pending["parent"][s][k] IN
         i.sig = s /\ (i.pid = "child" => s = Ack)

\* the child has stored the bits sent so far, but for the one under way
Stored ==
  /\ Len(buf) + Bits = sent /\ sent <= size
  /\ \A k \in 1..Len(buf) : buf[k] = k

\* what the parent waits for is under way or about to be sent, or was never
\* sent because the child died
Balance ==
  Bits + Fins + Acks + Truth(pc.child \in {"ack", "finack", "died"})
    = Truth(pc.parent \in {"ack", "finack"})

Phases ==
  \/ pc.parent = "fork" /\ pc.child = "unborn"
  \/ pc.parent = "send" /\ pc.child \in {"bit", "fin"}
  \/ pc.parent = "ack" /\ pc.child \in {"bit", "ack", "fin", "died"}
  \/ pc.parent = "finack" /\ pc.child \in {"fin", "finack", "done", "exited", "died"}
  \/ pc.parent = "reap" /\ pc.child \in {"done", "exited"}
  \/ pc.parent = "exited" /\ pc.child = "exited"
  \/ pc.parent = "died" /\ pc.child \in {"unborn", "bit", "fin"}

\* which signal can be under way where the two processes are
Signalling ==
  /\ Bits > 0 => pc.parent = "ack" /\ pc.child = "bit"
  /\ Fins > 0 => pc.parent = "finack" /\ pc.child = "fin"
  /\ Acks > 0 => \/ pc.parent = "ack" /\ pc.child \in {"bit", "fin"}
                 \/ pc.parent = "finack" /\ pc.child \in {"done", "exited"}

\* how far the string has got
Progress ==
  /\ pc.child = "unborn" => sent = 0
  /\ pc.child = "bit" => Len(buf) < size
  /\ pc.child \in {"fin", "finack", "done", "exited"} => Len(buf) = size
  /\ pc.parent = "finack" => sent = size

IInv == TypeInv /\ Contents /\ Stored /\ Balance /\ Phases /\ Signalling /\ Progress

-----------------------------------------------------------------------------
(***************************************************************************)
(* Counting the signals of one process in a queue                          *)
(***************************************************************************)

LEMMA PositionsFinite ==
  ASSUME NEW q \in Seq(Infos), NEW f
  PROVE  /\ IsFiniteSet(Positions(q, f)) /\ Cardinality(Positions(q, f)) \in Nat
         /\ Positions(q, f) \subseteq 1..Len(q)
<1>1. Positions(q, f) \subseteq 1..Len(q)
  BY LenProperties DEF Positions
<1>2. IsFiniteSet(1..Len(q))
  BY FS_Interval, LenProperties
<1> QED
  BY <1>1, <1>2, FS_Subset, FS_CardinalityType

LEMMA CountAppend ==
  ASSUME NEW q \in Seq(Infos), NEW i \in Infos, NEW f
  PROVE  Cardinality(Positions(Append(q, i), f))
           = Cardinality(Positions(q, f)) + IF i.pid = f THEN 1 ELSE 0
<1> DEFINE n == Len(q) + 1
<1>1. /\ Len(q) \in Nat /\ DOMAIN q = 1..Len(q)
      /\ DOMAIN Append(q, i) = 1..n
      /\ \A k \in 1..Len(q) : Append(q, i)[k] = q[k]
      /\ Append(q, i)[n] = i
  BY AppendProperties, LenProperties
<1>2. IsFiniteSet(Positions(q, f)) /\ Cardinality(Positions(q, f)) \in Nat /\ n \notin Positions(q, f)
  BY <1>1, PositionsFinite
<1>3. CASE i.pid = f
  <2>1. Positions(Append(q, i), f) = Positions(q, f) \cup {n}
    BY <1>1, <1>3 DEF Positions
  <2> QED
    BY <1>2, <1>3, <2>1, FS_AddElement
<1>4. CASE i.pid # f
  <2>1. Positions(Append(q, i), f) = Positions(q, f)
    BY <1>1, <1>4 DEF Positions
  <2> QED
    BY <1>2, <1>4, <2>1
<1> QED
  BY <1>3, <1>4

LEMMA CountTail ==
  ASSUME NEW q \in Seq(Infos), q # <<>>, NEW f
  PROVE  Cardinality(Positions(Tail(q), f))
           = Cardinality(Positions(q, f)) - IF Head(q).pid = f THEN 1 ELSE 0
<1> DEFINE T == Positions(Tail(q), f)
           S == Positions(q, f) \ {1}
           next == [k \in T |-> k + 1]
<1>1. /\ Len(q) \in Nat /\ Len(q) > 0 /\ DOMAIN q = 1..Len(q)
      /\ Tail(q) \in Seq(Infos) /\ DOMAIN Tail(q) = 1..Len(q)-1
      /\ \A k \in 1..Len(q)-1 : Tail(q)[k] = q[k+1]
      /\ Head(q) = q[1]
  BY HeadTailProperties, LenProperties, EmptySeq
<1>2. ExistsBijection(T, S)
  <2>1. next \in [T -> S]
    BY <1>1 DEF Positions
  <2>2. \A j, k \in T : next[j] = next[k] => j = k
    BY <1>1 DEF Positions
  <2>3. \A k \in S : \E j \in T : next[j] = k
    <3> TAKE k \in S
    <3>1. k - 1 \in T
      BY <1>1 DEF Positions
    <3>2. next[k-1] = k
      BY <1>1, <3>1 DEF Positions
    <3> QED
      BY <3>1, <3>2
  <2>4. next \in Bijection(T, S)
    <3> HIDE DEF next, S, T
    <3> QED
      BY <2>1, <2>2, <2>3 DEF Bijection, Injection, Surjection, IsInjective
  <2> QED
    BY <2>4 DEF ExistsBijection
<1>3. IsFiniteSet(T) /\ IsFiniteSet(Positions(q, f)) /\ Cardinality(Positions(q, f)) \in Nat
  BY <1>1, PositionsFinite
<1>4. Cardinality(S) = Cardinality(T)
  BY <1>2, <1>3, FS_Bijection
<1>5. CASE Head(q).pid = f
  <2>1. 1 \in Positions(q, f)
    BY <1>1, <1>5 DEF Positions
  <2>2. Cardinality(S) = Cardinality(Positions(q, f)) - 1
    BY <1>3, <2>1, FS_RemoveElement
  <2> QED
    BY <1>4, <1>5, <2>2
<1>6. CASE Head(q).pid # f
  <2>1. S = Positions(q, f)
    BY <1>1, <1>6 DEF Positions
  <2>2. Cardinality(T) = Cardinality(Positions(q, f))
    BY <1>4, <2>1
  <2> QED
    BY <1>3, <1>6, <2>2
<1> QED
  BY <1>5, <1>6

-----------------------------------------------------------------------------
(***************************************************************************)
(* The two system calls                                                    *)
(***************************************************************************)

Added(b) == IF b THEN 1 ELSE 0

LEMMA Tools ==
  /\ Signals = {0, 1, 2} /\ Bit = 0 /\ Ack = 1 /\ Fin = 2
  /\ Procs \subseteq Senders
  BY DEF Signals, Bit, Ack, Fin, Procs, Senders

LEMMA Naturals ==
  ASSUME TypeInv
  PROVE  Bits \in Nat /\ Fins \in Nat /\ Acks \in Nat
<1>1. \A p \in Procs, s \in Signals : pending[p][s] \in Seq(Infos)
  BY DEF TypeInv
<1> QED
  BY <1>1, PositionsFinite, Tools DEF Bits, Fins, Acks, UnderWay, Procs

(* sigqueue puts one more signal under way.                                *)
LEMMA Queued ==
  ASSUME TypeInv, NEW from \in Senders, NEW to \in Procs, NEW sig \in Signals, NEW val \in Nat,
         x_sigqueue(from, to, sig, val)
  PROVE  /\ pending' \in [Procs -> [Signals -> Seq(Infos)]]
         /\ Bits' = Bits + Added(to = "child" /\ from = "parent" /\ sig = Bit)
         /\ Fins' = Fins + Added(to = "child" /\ from = "parent" /\ sig = Fin)
         /\ Acks' = Acks + Added(to = "parent" /\ from = "child" /\ sig = Ack)
<1> DEFINE i == [sig |-> sig, pid |-> from, val |-> val]
<1>1. i \in Infos /\ i.pid = from
  BY DEF Infos
<1>2. \A p \in Procs, s \in Signals :
        /\ pending[p][s] \in Seq(Infos)
        /\ pending'[p][s] = IF p = to /\ s = sig THEN Append(pending[p][s], i) ELSE pending[p][s]
  BY DEF TypeInv, x_sigqueue
<1>3. pending' \in [Procs -> [Signals -> Seq(Infos)]]
  <2>1. Append(pending[to][sig], i) \in Seq(Infos)
    BY <1>1, <1>2, AppendProperties
  <2> HIDE DEF i
  <2>2. pending' = [pending EXCEPT ![to][sig] = Append(@, i)]
    BY DEF x_sigqueue, i
  <2> QED
    BY <2>1, <2>2 DEF TypeInv
<1>4. ASSUME NEW p \in Procs, NEW s \in Signals, NEW f
      PROVE  Cardinality(Positions(pending'[p][s], f))
               = Cardinality(Positions(pending[p][s], f)) + Added(p = to /\ s = sig /\ f = from)
  <2> HIDE DEF i
  <2>1. CASE p = to /\ s = sig
    BY <1>1, <1>2, <2>1, CountAppend DEF Added
  <2>2. CASE ~(p = to /\ s = sig)
    <3>1. Cardinality(Positions(pending[p][s], f)) \in Nat
      BY <1>2, PositionsFinite
    <3> QED
      BY <1>2, <2>2, <3>1 DEF Added
  <2> QED
    BY <2>1, <2>2
<1> HIDE DEF i
<1> QED
  BY <1>3, <1>4, Tools DEF Bits, Fins, Acks, UnderWay, Procs, Added

(* sigwaitinfo takes one signal from the queues of its caller.             *)
LEMMA Taken ==
  ASSUME TypeInv, NEW p \in Procs, x_sigwaitinfo(p)
  PROVE  /\ First(p) \in Signals /\ pending[p][First(p)] # <<>>
         /\ info(p) = pending[p][First(p)][1] /\ 1 \in DOMAIN pending[p][First(p)]
         /\ info(p) \in Infos
         /\ pending' \in [Procs -> [Signals -> Seq(Infos)]]
         /\ Bits' = Bits - Added(p = "child" /\ First(p) = Bit /\ info(p).pid = "parent")
         /\ Fins' = Fins - Added(p = "child" /\ First(p) = Fin /\ info(p).pid = "parent")
         /\ Acks' = Acks - Added(p = "parent" /\ First(p) = Ack /\ info(p).pid = "child")
<1> DEFINE sig == First(p)
<1>1. sig \in Signals /\ pending[p][sig] # <<>>
  <2> DEFINE S == {s \in Signals : pending[p][s] # <<>>}
  <2>1. S # {} /\ S \subseteq {0, 1, 2}
    BY Tools DEF x_sigwaitinfo
  <2>2. \E x \in S : \A y \in S : x <= y
    <3> HIDE DEF S
    <3>1. CASE 0 \in S
      BY <2>1, <3>1
    <3>2. CASE 0 \notin S /\ 1 \in S
      BY <2>1, <3>2
    <3>3. CASE 0 \notin S /\ 1 \notin S
      <4>1. S = {2}
        BY <2>1, <3>3
      <4> QED
        BY <4>1
    <3> QED
      BY <3>1, <3>2, <3>3
  <2>3. Min(S) \in S
    <3> HIDE DEF S
    <3> QED
      BY <2>2 DEF Min
  <2> QED
    BY <2>3 DEF First
<1>2. \A q \in Procs, s \in Signals : pending[q][s] \in Seq(Infos)
  BY DEF TypeInv
<1>3. pending[p][sig] \in Seq(Infos) /\ pending[p][sig] # <<>>
  BY <1>1, <1>2
<1>4. /\ info(p) = pending[p][sig][1] /\ 1 \in DOMAIN pending[p][sig] /\ info(p) \in Infos
      /\ info(p) = Head(pending[p][sig])
      /\ Tail(pending[p][sig]) \in Seq(Infos)
  <2>1. info(p) = Head(pending[p][sig])
    BY DEF info
  <2> HIDE DEF sig
  <2> QED
    BY <1>3, <2>1, HeadTailProperties, LenProperties, EmptySeq
<1>5. pending' = [pending EXCEPT ![p][sig] = Tail(@)]
  BY DEF x_sigwaitinfo
<1> HIDE DEF sig
<1>6. pending' \in [Procs -> [Signals -> Seq(Infos)]]
  BY <1>1, <1>4, <1>5 DEF TypeInv
<1>7. ASSUME NEW q \in Procs, NEW s \in Signals, NEW f
      PROVE  Cardinality(Positions(pending'[q][s], f))
               = Cardinality(Positions(pending[q][s], f))
                   - Added(q = p /\ s = sig /\ f = info(p).pid)
  <2>1. pending'[q][s] = IF q = p /\ s = sig THEN Tail(pending[q][s]) ELSE pending[q][s]
    BY <1>1, <1>5 DEF TypeInv
  <2>2. CASE q = p /\ s = sig
    BY <1>3, <1>4, <2>1, <2>2, CountTail DEF Added
  <2>3. CASE ~(q = p /\ s = sig)
    <3>1. Cardinality(Positions(pending[q][s], f)) \in Nat
      BY <1>2, PositionsFinite
    <3> QED
      BY <2>1, <2>3, <3>1 DEF Added
  <2> QED
    BY <2>2, <2>3
<1>8. /\ Bits' = Bits - Added(p = "child" /\ sig = Bit /\ info(p).pid = "parent")
      /\ Fins' = Fins - Added(p = "child" /\ sig = Fin /\ info(p).pid = "parent")
      /\ Acks' = Acks - Added(p = "parent" /\ sig = Ack /\ info(p).pid = "child")
  BY <1>7, Tools DEF Bits, Fins, Acks, UnderWay, Procs, Added
<1> QED
  BY <1>1, <1>4, <1>6, <1>8 DEF sig

(* What is in the queues stays true when a signal is taken ...             *)
LEMMA ContentsTaken ==
  ASSUME TypeInv, Contents, NEW p \in Procs, x_sigwaitinfo(p), sent' = sent
  PROVE  Contents'
<1>1. First(p) \in Signals /\ pending[p][First(p)] # <<>>
  BY Taken
<1>2. \A q \in Procs, s \in Signals :
        pending'[q][s] = IF q = p /\ s = First(p) THEN Tail(pending[q][s]) ELSE pending[q][s]
  BY <1>1 DEF TypeInv, x_sigwaitinfo
<1>3. ASSUME NEW q \in Procs, NEW s \in Signals, NEW k \in DOMAIN pending'[q][s]
      PROVE  \E j \in DOMAIN pending[q][s] : pending'[q][s][k] = pending[q][s][j]
  <2>1. CASE q = p /\ s = First(p)
    <3>1. pending[q][s] \in Seq(Infos) /\ pending[q][s] # <<>> /\ pending'[q][s] = Tail(pending[q][s])
      BY <1>1, <1>2, <2>1 DEF TypeInv
    <3>2. /\ Len(pending[q][s]) \in Nat /\ DOMAIN pending[q][s] = 1..Len(pending[q][s])
          /\ DOMAIN Tail(pending[q][s]) = 1..Len(pending[q][s])-1
          /\ \A j \in 1..Len(pending[q][s])-1 : Tail(pending[q][s])[j] = pending[q][s][j+1]
      BY <3>1, HeadTailProperties, LenProperties
    <3>3. k \in 1..Len(pending[q][s])-1 /\ k + 1 \in 1..Len(pending[q][s])
      BY <1>3, <3>1, <3>2
    <3> QED
      BY <3>1, <3>2, <3>3
  <2>2. CASE ~(q = p /\ s = First(p))
    BY <1>2, <1>3, <2>2
  <2> QED
    BY <2>1, <2>2
<1> QED
  BY <1>3 DEF Contents, Procs

(* ... and when one is sent that says what it should.                      *)
LEMMA ContentsQueued ==
  ASSUME TypeInv, Contents, NEW from \in Senders, NEW to \in Procs, NEW sig \in Signals,
         NEW val \in Nat, x_sigqueue(from, to, sig, val),
         sent' = sent \/ Bits = 0,
         to = "child" /\ from = "parent" =>
           (sig = Bit /\ val = sent') \/ (sig = Fin /\ val = 2),
         to = "parent" /\ from = "child" => sig = Ack
  PROVE  Contents'
<1> DEFINE i == [sig |-> sig, pid |-> from, val |-> val]
<1>1. i \in Infos /\ i.pid = from /\ i.sig = sig /\ i.val = val
  BY DEF Infos
<1>2. \A q \in Procs, s \in Signals :
        /\ pending[q][s] \in Seq(Infos)
        /\ pending'[q][s] = IF q = to /\ s = sig THEN Append(pending[q][s], i) ELSE pending[q][s]
  BY DEF TypeInv, x_sigqueue
<1> HIDE DEF i
<1>3. ASSUME NEW q \in Procs, NEW s \in Signals, NEW k \in DOMAIN pending'[q][s]
      PROVE  \/ k \in DOMAIN pending[q][s] /\ pending'[q][s][k] = pending[q][s][k]
             \/ q = to /\ s = sig /\ pending'[q][s][k] = i
  <2>1. CASE q = to /\ s = sig
    <3>1. /\ Len(pending[q][s]) \in Nat /\ DOMAIN pending[q][s] = 1..Len(pending[q][s])
          /\ DOMAIN Append(pending[q][s], i) = 1..Len(pending[q][s])+1
          /\ \A j \in 1..Len(pending[q][s]) : Append(pending[q][s], i)[j] = pending[q][s][j]
          /\ Append(pending[q][s], i)[Len(pending[q][s])+1] = i
      BY <1>1, <1>2, AppendProperties, LenProperties
    <3>2. k \in 1..Len(pending[q][s])+1
      BY <1>2, <1>3, <2>1, <3>1
    <3>3. k \in 1..Len(pending[q][s]) \/ k = Len(pending[q][s]) + 1
      BY <3>1, <3>2
    <3> QED
      BY <1>2, <2>1, <3>1, <3>3
  <2>2. CASE ~(q = to /\ s = sig)
    BY <1>2, <1>3, <2>2
  <2> QED
    BY <2>1, <2>2
<1>4. ASSUME Bits = 0, NEW k \in DOMAIN pending["child"][Bit]
      PROVE  pending["child"][Bit][k].pid # "parent"
  <2>1. pending["child"][Bit] \in Seq(Infos)
    BY <1>2, Tools DEF Procs
  <2>2. Positions(pending["child"][Bit], "parent") = {}
    BY <1>4, <2>1, PositionsFinite, FS_EmptySet DEF Bits, UnderWay
  <2> QED
    BY <1>4, <2>2 DEF Positions
<1>5. ASSUME NEW s \in Signals, NEW k \in DOMAIN pending'["child"][s]
      PROVE  LET j == pending'["child"][s][k] IN
             /\ j.sig = s
             /\ j.pid = "parent" => (s = Bit /\ j.val = sent') \/ (s = Fin /\ j.val = 2)
  <2>1. CASE k \in DOMAIN pending["child"][s] /\ pending'["child"][s][k] = pending["child"][s][k]
    BY <1>4, <2>1 DEF Contents
  <2>2. CASE to = "child" /\ s = sig /\ pending'["child"][s][k] = i
    BY <1>1, <2>2
  <2> QED
    BY <1>3, <1>5, <2>1, <2>2 DEF Procs
<1>6. ASSUME NEW s \in Signals, NEW k \in DOMAIN pending'["parent"][s]
      PROVE  LET j == pending'["parent"][s][k] IN j.sig = s /\ (j.pid = "child" => s = Ack)
  <2>1. CASE k \in DOMAIN pending["parent"][s] /\ pending'["parent"][s][k] = pending["parent"][s][k]
    BY <2>1 DEF Contents
  <2>2. CASE to = "parent" /\ s = sig /\ pending'["parent"][s][k] = i
    BY <1>1, <2>2
  <2> QED
    BY <1>3, <1>6, <2>1, <2>2 DEF Procs
<1> QED
  BY <1>5, <1>6 DEF Contents

-----------------------------------------------------------------------------
(***************************************************************************)
(* The invariant                                                           *)
(***************************************************************************)

LEMMA Size ==
  ASSUME TypeInv
  PROVE  size \in Nat /\ (len' = len => size' = size) /\ (size = 0 <=> len = 0)
  BY DEF TypeInv, size, BITS

(* The parts of the invariant, and the numbers it speaks of.               *)
LEMMA Facts ==
  ASSUME IInv
  PROVE  /\ TypeInv /\ Contents /\ Stored /\ Balance /\ Phases /\ Signalling /\ Progress
         /\ size \in Nat /\ Bits \in Nat /\ Fins \in Nat /\ Acks \in Nat
         /\ Len(buf) \in Nat /\ sent \in Nat
  BY Size, Naturals, LenProperties DEF IInv, TypeInv

LEMMA InitIInv == Init => IInv
<1> SUFFICES ASSUME Init PROVE IInv
  OBVIOUS
<1>1. TypeInv
  <2>1. len \in Nat
    BY SignalCatAssumption DEF Init
  <2>2. <<>> \in Seq(Infos) /\ <<>> \in Seq(Nat)
    BY EmptySeq
  <2>3. pending \in [Procs -> [Signals -> Seq(Infos)]]
    BY <2>2 DEF Init, Procs
  <2>4. pc \in [Procs -> Labels]
    BY DEF Init, Procs, Labels
  <2> QED
    BY <2>1, <2>2, <2>3, <2>4 DEF Init, TypeInv
<1>2. \A p \in Procs, s \in Signals : pending[p][s] = <<>>
  BY DEF Init, Procs
<1>3. \A f : Positions(<<>>, f) = {}
  BY DEF Positions
<1>4. Bits = 0 /\ Fins = 0 /\ Acks = 0
  BY <1>2, <1>3, FS_EmptySet, Tools DEF Bits, Fins, Acks, UnderWay, Procs
<1>5. Contents
  BY <1>2 DEF Contents, Procs
<1>6. /\ pc.parent = "fork" /\ pc.child = "unborn" /\ sent = 0 /\ buf = <<>> /\ Len(buf) = 0
  BY EmptySeq DEF Init
<1> QED
  BY <1>1, <1>4, <1>5, <1>6, Size DEF IInv, Stored, Balance, Phases, Signalling, Progress, Truth

(* A step of one process.                                                  *)
LEMMA Moved ==
  ASSUME TypeInv, NEW p \in Procs, NEW from, NEW to \in Labels, Goto(p, from, to)
  PROVE  /\ pc' \in [Procs -> Labels]
         /\ p = "parent" => pc.parent = from /\ pc'.parent = to /\ pc'.child = pc.child
         /\ p = "child" => pc.child = from /\ pc'.child = to /\ pc'.parent = pc.parent
  BY DEF TypeInv, Goto, Procs

LEMMA ForkIInv ==
  ASSUME IInv, Fork
  PROVE  IInv'
<1>1. TypeInv /\ Contents /\ size' = size /\ (size = 0 <=> len = 0)
  BY Facts, Size DEF Fork
<1>2. /\ pc.parent = "fork" /\ UNCHANGED <<len, pending, sent, buf, nuisances>>
      /\ pc'.parent = "send" /\ pc'.child = (IF len = 0 THEN "fin" ELSE "bit")
      /\ pc' \in [Procs -> Labels]
  BY DEF Fork, Procs, Labels
<1>3. Bits' = Bits /\ Fins' = Fins /\ Acks' = Acks /\ Contents'
  BY <1>1, <1>2 DEF Bits, Fins, Acks, UnderWay, Contents
<1>4. pc.child = "unborn" /\ sent = 0
  BY <1>2, Facts DEF Phases, Progress
<1>5. Stored' /\ Balance' /\ Signalling'
  BY <1>1, <1>2, <1>3, <1>4, Facts DEF Stored, Balance, Signalling, Truth
<1>6. Phases' /\ Progress'
  <2>1. Len(buf) = 0
    BY <1>4, Facts DEF Stored
  <2>2. CASE len = 0
    BY <1>1, <1>2, <2>1, <2>2 DEF Phases, Progress
  <2>3. CASE len # 0
    BY <1>1, <1>2, <2>1, <2>3, Facts DEF Phases, Progress
  <2> QED
    BY <2>2, <2>3
<1> QED
  BY <1>1, <1>2, <1>3, <1>5, <1>6 DEF IInv, TypeInv

LEMMA SendBitIInv ==
  ASSUME IInv, SendBit
  PROVE  IInv'
<1>1. TypeInv /\ Contents /\ size' = size
  BY Facts, Size DEF SendBit
<1>2. /\ pc.parent = "send" /\ pc'.parent = "ack" /\ pc'.child = pc.child
      /\ pc' \in [Procs -> Labels]
      /\ sent < size /\ sent' = sent + 1 /\ UNCHANGED <<len, buf, nuisances>>
  BY <1>1, Moved DEF SendBit, Procs, Labels
<1>3. Bits = 0 /\ Fins = 0 /\ Acks = 0 /\ pc.child = "bit"
  BY <1>2, Facts DEF Signalling, Phases, Progress, Stored
<1>4. x_sigqueue("parent", "child", Bit, sent + 1) /\ sent + 1 \in Nat
  BY Facts DEF SendBit
<1>5. /\ pending' \in [Procs -> [Signals -> Seq(Infos)]]
      /\ Bits' = 1 /\ Fins' = 0 /\ Acks' = 0
  BY <1>1, <1>3, <1>4, Queued, Tools DEF Procs, Senders, Added
<1>6. Contents'
  BY <1>1, <1>2, <1>3, <1>4, ContentsQueued, Tools DEF Procs, Senders
<1>7. Stored' /\ Balance' /\ Signalling'
  BY <1>1, <1>2, <1>3, <1>5, Facts DEF Stored, Balance, Signalling, Truth
<1>8. Phases' /\ Progress'
  BY <1>1, <1>2, <1>3, Facts DEF Phases, Progress
<1> QED
  BY <1>1, <1>2, <1>5, <1>6, <1>7, <1>8 DEF IInv, TypeInv

LEMMA SendFinIInv ==
  ASSUME IInv, SendFin
  PROVE  IInv'
<1>1. TypeInv /\ Contents /\ size' = size
  BY Facts, Size DEF SendFin
<1>2. /\ pc.parent = "send" /\ pc'.parent = "finack" /\ pc'.child = pc.child
      /\ pc' \in [Procs -> Labels]
      /\ sent = size /\ UNCHANGED <<len, sent, buf, nuisances>>
  BY <1>1, Moved DEF SendFin, Procs, Labels
<1>3. Bits = 0 /\ Fins = 0 /\ Acks = 0 /\ pc.child = "fin"
  BY <1>2, Facts DEF Signalling, Phases, Progress, Stored
<1>4. x_sigqueue("parent", "child", Fin, 2)
  BY DEF SendFin
<1>5. /\ pending' \in [Procs -> [Signals -> Seq(Infos)]]
      /\ Bits' = 0 /\ Fins' = 1 /\ Acks' = 0
  BY <1>1, <1>3, <1>4, Queued, Tools DEF Procs, Senders, Added
<1>6. Contents'
  BY <1>1, <1>2, <1>4, ContentsQueued, Tools DEF Procs, Senders
<1>7. Stored' /\ Balance' /\ Signalling'
  BY <1>1, <1>2, <1>3, <1>5, Facts DEF Stored, Balance, Signalling, Truth
<1>8. Phases' /\ Progress'
  BY <1>1, <1>2, <1>3, Facts DEF Phases, Progress
<1> QED
  BY <1>1, <1>2, <1>5, <1>6, <1>7, <1>8 DEF IInv, TypeInv

(* The parent takes a signal: an ACK of the child, or one to be dropped.   *)
LEMMA WaitAckIInv ==
  ASSUME IInv, WaitAck("ack", "send") \/ WaitAck("finack", "reap")
  PROVE  IInv'
<1>1. TypeInv /\ Contents /\ size' = size
  BY Facts, Size DEF WaitAck
<1>2. PICK from, to :
        /\ WaitAck(from, to)
        /\ \/ from = "ack" /\ to = "send"
           \/ from = "finack" /\ to = "reap"
  OBVIOUS
<1>3. x_sigwaitinfo("parent") /\ UNCHANGED <<len, sent, buf, nuisances>>
  BY <1>2 DEF WaitAck
<1>4. /\ info("parent") \in Infos
      /\ info("parent").pid = "child" =>
           info("parent").sig = First("parent") /\ First("parent") = Ack
      /\ pending' \in [Procs -> [Signals -> Seq(Infos)]]
      /\ Bits' = Bits /\ Fins' = Fins
      /\ Acks' = Acks - Added(First("parent") = Ack /\ info("parent").pid = "child")
  BY <1>1, <1>3, Taken, Facts DEF Contents, Procs, Added
<1>5. Contents'
  BY <1>1, <1>3, ContentsTaken DEF Procs
<1>6. CASE IsAck(info("parent"))
  <2>1. /\ pc.parent = from /\ pc'.parent = to /\ pc'.child = pc.child /\ pc' \in [Procs -> Labels]
    BY <1>1, <1>2, <1>6, Moved DEF WaitAck, Procs, Labels
  <2>2. Acks' = Acks - 1
    BY <1>4, <1>6 DEF IsAck, Added
  <2>3. Acks = 1 /\ Acks' = 0 /\ Bits = 0 /\ Fins = 0
    <3>1. Acks' \in Nat
      <4>1. pending'["parent"][Ack] \in Seq(Infos)
        BY <1>4, Tools DEF Procs
      <4> QED
        BY <4>1, PositionsFinite DEF Acks, UnderWay
    <3> QED
      BY <1>2, <2>1, <2>2, <3>1, Facts DEF Balance, Truth
  <2>4. \/ from = "ack" /\ pc.child \in {"bit", "fin"}
        \/ from = "finack" /\ pc.child \in {"done", "exited"}
    BY <1>2, <2>1, <2>3, Facts DEF Signalling
  <2>5. Stored' /\ Balance' /\ Signalling'
    BY <1>1, <1>2, <1>3, <1>4, <2>1, <2>3, <2>4, Facts DEF Stored, Balance, Signalling, Truth
  <2>6. Phases' /\ Progress'
    BY <1>1, <1>2, <1>3, <2>1, <2>4, Facts DEF Phases, Progress
  <2> QED
    BY <1>1, <1>3, <1>4, <1>5, <2>1, <2>5, <2>6 DEF IInv, TypeInv
<1>7. CASE ~IsAck(info("parent"))
  <2>1. /\ pc'.parent = pc.parent /\ pc'.child = pc.child /\ pc' \in [Procs -> Labels]
    BY <1>1, <1>2, <1>7, Moved DEF WaitAck, Procs, Labels
  <2>2. Acks' = Acks
    BY <1>4, <1>7, Facts DEF IsAck, Added
  <2> QED
    BY <1>1, <1>3, <1>4, <1>5, <2>1, <2>2, Facts DEF IInv, TypeInv, Stored, Balance, Phases,
       Signalling, Progress
<1> QED
  BY <1>6, <1>7

LEMMA AckBitIInv ==
  ASSUME IInv, AckBit
  PROVE  IInv'
<1>1. TypeInv /\ Contents /\ size' = size
  BY Facts, Size DEF AckBit
<1>2. /\ pc.child = "ack" /\ pc'.child = (IF Len(buf) < size THEN "bit" ELSE "fin")
      /\ pc'.parent = pc.parent /\ pc' \in [Procs -> Labels]
      /\ UNCHANGED <<len, sent, buf, nuisances>>
  BY <1>1, Moved DEF AckBit, Procs, Labels
<1>3. pc.parent = "ack" /\ Bits = 0 /\ Fins = 0 /\ Acks = 0
  BY <1>2, Facts DEF Phases, Balance, Truth
<1>4. x_sigqueue("child", "parent", Ack, 0)
  BY DEF AckBit
<1>5. /\ pending' \in [Procs -> [Signals -> Seq(Infos)]]
      /\ Bits' = 0 /\ Fins' = 0 /\ Acks' = 1
  BY <1>1, <1>3, <1>4, Queued, Tools DEF Procs, Senders, Added
<1>6. Contents'
  BY <1>1, <1>2, <1>4, ContentsQueued, Tools DEF Procs, Senders
<1>7. Stored' /\ Balance' /\ Signalling'
  BY <1>1, <1>2, <1>3, <1>5, Facts DEF Stored, Balance, Signalling, Truth
<1>8. Phases' /\ Progress'
  <2>1. Len(buf) <= size
    BY <1>3, Facts DEF Stored
  <2> QED
    BY <1>1, <1>2, <1>3, <2>1, Facts DEF Phases, Progress
<1> QED
  BY <1>1, <1>2, <1>5, <1>6, <1>7, <1>8 DEF IInv, TypeInv

LEMMA AckFinIInv ==
  ASSUME IInv, AckFin
  PROVE  IInv'
<1>1. TypeInv /\ Contents /\ size' = size
  BY Facts, Size DEF AckFin
<1>2. /\ pc.child = "finack" /\ pc'.child = "done"
      /\ pc'.parent = pc.parent /\ pc' \in [Procs -> Labels]
      /\ UNCHANGED <<len, sent, buf, nuisances>>
  BY <1>1, Moved DEF AckFin, Procs, Labels
<1>3. pc.parent = "finack" /\ Bits = 0 /\ Fins = 0 /\ Acks = 0
  BY <1>2, Facts DEF Phases, Balance, Truth
<1>4. x_sigqueue("child", "parent", Ack, 0)
  BY DEF AckFin
<1>5. /\ pending' \in [Procs -> [Signals -> Seq(Infos)]]
      /\ Bits' = 0 /\ Fins' = 0 /\ Acks' = 1
  BY <1>1, <1>3, <1>4, Queued, Tools DEF Procs, Senders, Added
<1>6. Contents'
  BY <1>1, <1>2, <1>4, ContentsQueued, Tools DEF Procs, Senders
<1>7. Stored' /\ Balance' /\ Signalling'
  BY <1>1, <1>2, <1>3, <1>5, Facts DEF Stored, Balance, Signalling, Truth
<1>8. Phases' /\ Progress'
  BY <1>1, <1>2, <1>3, Facts DEF Phases, Progress
<1> QED
  BY <1>1, <1>2, <1>5, <1>6, <1>7, <1>8 DEF IInv, TypeInv

(* The numbers of signals under way stay natural numbers.                  *)
LEMMA NaturalsNext ==
  ASSUME pending' \in [Procs -> [Signals -> Seq(Infos)]]
  PROVE  Bits' \in Nat /\ Fins' \in Nat /\ Acks' \in Nat
<1>1. \A p \in Procs, s \in Signals : pending'[p][s] \in Seq(Infos)
  OBVIOUS
<1> QED
  BY <1>1, PositionsFinite, Tools DEF Bits, Fins, Acks, UnderWay, Procs

(* The child takes a signal: what comes from the parent says what the      *)
(* parent meant, and lay in the queue of its number.                       *)
LEMMA ChildTakes ==
  ASSUME IInv, x_sigwaitinfo("child"), UNCHANGED <<len, sent, nuisances>>
  PROVE  LET i == info("child") IN
         /\ pending' \in [Procs -> [Signals -> Seq(Infos)]]
         /\ Contents' /\ i \in Infos
         /\ Bits' \in Nat /\ Fins' \in Nat /\ Acks' = Acks
         /\ i.pid = "parent" =>
              \/ i.sig = Bit /\ i.val = sent /\ Bits' = Bits - 1 /\ Fins' = Fins
              \/ i.sig = Fin /\ i.val = 2 /\ Bits' = Bits /\ Fins' = Fins - 1
         /\ i.pid # "parent" => Bits' = Bits /\ Fins' = Fins
<1>1. TypeInv /\ Contents /\ "child" \in Procs /\ sent' = sent
  BY Facts DEF Procs
<1>2. Contents'
  BY <1>1, ContentsTaken
<1> DEFINE i == info("child")
<1>3. /\ First("child") \in Signals /\ i \in Infos
      /\ i = pending["child"][First("child")][1]
      /\ 1 \in DOMAIN pending["child"][First("child")]
      /\ pending' \in [Procs -> [Signals -> Seq(Infos)]]
      /\ Bits' = Bits - Added(First("child") = Bit /\ i.pid = "parent")
      /\ Fins' = Fins - Added(First("child") = Fin /\ i.pid = "parent")
      /\ Acks' = Acks
  BY <1>1, Taken, Facts DEF Added
<1>4. Bits' \in Nat /\ Fins' \in Nat
  BY <1>3, NaturalsNext
<1>5. /\ i.sig = First("child")
      /\ i.pid = "parent" => (i.sig = Bit /\ i.val = sent) \/ (i.sig = Fin /\ i.val = 2)
  BY <1>1, <1>3 DEF Contents
<1> HIDE DEF i
<1>6. i.pid = "parent" =>
        \/ i.sig = Bit /\ i.val = sent /\ Bits' = Bits - 1 /\ Fins' = Fins
        \/ i.sig = Fin /\ i.val = 2 /\ Bits' = Bits /\ Fins' = Fins - 1
  BY <1>3, <1>5, Facts, Tools DEF Added
<1>7. i.pid # "parent" => Bits' = Bits /\ Fins' = Fins
  BY <1>3, Facts DEF Added
<1> QED
  BY <1>2, <1>3, <1>4, <1>6, <1>7 DEF i

LEMMA TakeBitIInv ==
  ASSUME IInv, TakeBit
  PROVE  IInv'
<1> DEFINE i == info("child")
<1>1. TypeInv /\ Contents /\ size' = size /\ x_sigwaitinfo("child") /\ pc.child = "bit"
      /\ UNCHANGED <<len, sent, nuisances>>
  BY Facts, Size DEF TakeBit, Goto
<1>2. /\ pending' \in [Procs -> [Signals -> Seq(Infos)]]
      /\ Contents' /\ i \in Infos
      /\ Bits' \in Nat /\ Fins' \in Nat /\ Acks' = Acks
      /\ i.pid = "parent" =>
           \/ i.sig = Bit /\ i.val = sent /\ Bits' = Bits - 1 /\ Fins' = Fins
           \/ i.sig = Fin /\ i.val = 2 /\ Bits' = Bits /\ Fins' = Fins - 1
      /\ i.pid # "parent" => Bits' = Bits /\ Fins' = Fins
  BY <1>1, ChildTakes
<1>3. Fins = 0
  BY <1>1, Facts DEF Signalling
<1>4. CASE i.pid = "parent"
  <2>1. i.sig = Bit /\ i.val = sent /\ Bits' = Bits - 1 /\ Fins' = 0
    BY <1>2, <1>3, <1>4, Facts
  <2>2. Bits = 1 /\ Bits' = 0 /\ Acks = 0 /\ pc.parent = "ack"
    BY <1>1, <1>2, <1>3, <2>1, Facts DEF Signalling, Balance, Truth
  <2>3. Goto("child", "bit", "ack") /\ buf' = Append(buf, sent)
    BY <1>4, <2>1, Tools DEF TakeBit, FromParent, IsFin
  <2>4. /\ pc'.parent = "ack" /\ pc'.child = "ack" /\ pc' \in [Procs -> Labels]
    BY <1>1, <2>2, <2>3, Moved DEF Procs, Labels
  <2>5. /\ buf \in Seq(Nat) /\ sent \in Nat /\ Len(buf) \in Nat /\ Len(buf) + 1 = sent
        /\ sent <= size /\ \A k \in 1..Len(buf) : buf[k] = k
    BY <1>1, <2>2, Facts DEF Stored, TypeInv
  <2>6. /\ buf' \in Seq(Nat) /\ Len(buf') = sent
        /\ \A k \in 1..Len(buf) : buf'[k] = buf[k]
        /\ buf'[sent] = sent
    BY <2>3, <2>5, AppendProperties
  <2>7. \A k \in 1..Len(buf') : buf'[k] = k
    <3> TAKE k \in 1..Len(buf')
    <3>1. k \in 1..Len(buf) \/ k = sent
      BY <2>5, <2>6
    <3> QED
      BY <2>5, <2>6, <3>1
  <2>8. Stored'
    BY <1>1, <2>2, <2>5, <2>6, <2>7 DEF Stored
  <2>9. Balance' /\ Phases' /\ Signalling' /\ Progress'
    BY <1>2, <2>1, <2>2, <2>4 DEF Balance, Phases, Signalling, Progress, Truth
  <2> QED
    BY <1>1, <1>2, <2>4, <2>6, <2>8, <2>9 DEF IInv, TypeInv
<1>5. CASE i.pid # "parent"
  <2>1. Goto("child", "bit", "bit") /\ buf' = buf
    BY <1>5 DEF TakeBit, FromParent
  <2>2. pc'.parent = pc.parent /\ pc'.child = pc.child /\ pc' \in [Procs -> Labels]
    BY <1>1, <2>1, Moved DEF Procs, Labels
  <2> QED
    BY <1>1, <1>2, <1>5, <2>1, <2>2, Facts DEF IInv, TypeInv, Stored, Balance, Phases,
       Signalling, Progress
<1> QED
  BY <1>4, <1>5

LEMMA TakeFinIInv ==
  ASSUME IInv, TakeFin
  PROVE  IInv'
<1> DEFINE i == info("child")
<1>1. TypeInv /\ Contents /\ size' = size /\ x_sigwaitinfo("child") /\ pc.child = "fin"
      /\ UNCHANGED <<len, sent, buf, nuisances>>
  BY Facts, Size DEF TakeFin, Goto
<1>2. /\ pending' \in [Procs -> [Signals -> Seq(Infos)]]
      /\ Contents' /\ i \in Infos
      /\ Bits' \in Nat /\ Fins' \in Nat /\ Acks' = Acks
      /\ i.pid = "parent" =>
           \/ i.sig = Bit /\ i.val = sent /\ Bits' = Bits - 1 /\ Fins' = Fins
           \/ i.sig = Fin /\ i.val = 2 /\ Bits' = Bits /\ Fins' = Fins - 1
      /\ i.pid # "parent" => Bits' = Bits /\ Fins' = Fins
  BY <1>1, ChildTakes
<1>3. Bits = 0
  BY <1>1, Facts DEF Signalling
<1>4. CASE i.pid = "parent"
  <2>1. i.sig = Fin /\ i.val = 2 /\ Bits' = 0 /\ Fins' = Fins - 1
    BY <1>2, <1>3, <1>4, Facts
  <2>2. Fins = 1 /\ Fins' = 0 /\ Acks = 0 /\ pc.parent = "finack"
    BY <1>1, <1>2, <1>3, <2>1, Facts DEF Signalling, Balance, Truth
  <2>3. Goto("child", "fin", "finack")
    BY <1>4, <2>1, Tools DEF TakeFin, FromParent, IsFin
  <2>4. /\ pc'.parent = "finack" /\ pc'.child = "finack" /\ pc' \in [Procs -> Labels]
    BY <1>1, <2>2, <2>3, Moved DEF Procs, Labels
  <2>5. Stored'
    BY <1>1, <1>3, <2>1, Facts DEF Stored
  <2>6. Balance' /\ Phases' /\ Signalling'
    BY <1>2, <2>1, <2>2, <2>4 DEF Balance, Phases, Signalling, Truth
  <2>7. Progress'
    BY <1>1, <2>2, <2>4, Facts DEF Progress
  <2> QED
    BY <1>1, <1>2, <2>4, <2>5, <2>6, <2>7 DEF IInv, TypeInv
<1>5. CASE i.pid # "parent"
  <2>1. Goto("child", "fin", "fin")
    BY <1>5 DEF TakeFin, FromParent
  <2>2. pc'.parent = pc.parent /\ pc'.child = pc.child /\ pc' \in [Procs -> Labels]
    BY <1>1, <2>1, Moved DEF Procs, Labels
  <2> QED
    BY <1>1, <1>2, <1>5, <2>1, <2>2, Facts DEF IInv, TypeInv, Stored, Balance, Phases,
       Signalling, Progress
<1> QED
  BY <1>4, <1>5

(* The steps that move one of the two and leave the queues alone.          *)
LEMMA QuietIInv ==
  ASSUME IInv, UNCHANGED <<len, pending, sent, buf, nuisances>>,
         pc' \in [Procs -> Labels], Phases', Balance', Signalling', Progress'
  PROVE  IInv'
<1>1. TypeInv /\ Contents /\ Stored /\ size' = size
  BY Facts, Size
<1>2. Bits' = Bits
  BY DEF Bits, UnderWay
<1> QED
  BY <1>1, <1>2 DEF IInv, TypeInv, Contents, Stored

LEMMA Quiet ==
  ASSUME IInv, UNCHANGED <<len, pending>>
  PROVE  TypeInv /\ size' = size /\ Bits' = Bits /\ Fins' = Fins /\ Acks' = Acks
  BY Facts, Size DEF Bits, Fins, Acks, UnderWay

LEMMA PutsIInv ==
  ASSUME IInv, Puts
  PROVE  IInv'
<1>1. UNCHANGED <<len, pending, sent, buf, nuisances>>
  BY DEF Puts
<1>2. TypeInv /\ size' = size /\ Bits' = Bits /\ Fins' = Fins /\ Acks' = Acks
  BY <1>1, Quiet
<1>3. /\ pc.child = "done" /\ pc'.child = "exited" /\ pc'.parent = pc.parent
      /\ pc' \in [Procs -> Labels]
  BY <1>2, Moved DEF Puts, Procs, Labels
<1>4. pc.parent \in {"finack", "reap"}
  BY <1>3, Facts DEF Phases
<1>5. Phases' /\ Balance' /\ Signalling' /\ Progress'
  BY <1>1, <1>2, <1>3, <1>4, Facts DEF Phases, Balance, Signalling, Progress, Truth
<1> QED
  BY <1>1, <1>3, <1>5, QuietIInv

LEMMA ReapIInv ==
  ASSUME IInv, Reap
  PROVE  IInv' /\ pc.child = "exited" /\ pc'.parent = "exited" /\ pc'.child = "exited"
<1>1. UNCHANGED <<len, pending, sent, buf, nuisances>>
  BY DEF Reap
<1>2. TypeInv /\ size' = size /\ Bits' = Bits /\ Fins' = Fins /\ Acks' = Acks
  BY <1>1, Quiet
<1>3. pc.parent = "reap" /\ pc.child = "exited"
  <2>1. pc.parent = "reap" /\ pc.child \in {"exited", "died"}
    BY DEF Reap, Goto
  <2> QED
    BY <2>1, Facts DEF Phases
<1>4. Goto("parent", "reap", "exited")
  BY <1>3 DEF Reap
<1>5. pc'.parent = "exited" /\ pc'.child = "exited" /\ pc' \in [Procs -> Labels]
  BY <1>2, <1>3, <1>4, Moved DEF Procs, Labels
<1>6. Phases' /\ Balance' /\ Signalling' /\ Progress'
  BY <1>1, <1>2, <1>3, <1>5, Facts DEF Phases, Balance, Signalling, Progress, Truth
<1> QED
  BY <1>1, <1>3, <1>5, <1>6, QuietIInv

LEMMA DieIInv ==
  ASSUME IInv, Die("parent") \/ Die("child")
  PROVE  IInv'
<1>1. UNCHANGED <<len, pending, sent, buf, nuisances>>
  BY DEF Die
<1>2. TypeInv /\ size' = size /\ Bits' = Bits /\ Fins' = Fins /\ Acks' = Acks
  BY <1>1, Quiet
<1>3. CASE Die("parent")
  <2>1. /\ pc.parent \in {"fork", "send"} /\ pc'.parent = "died" /\ pc'.child = pc.child
        /\ pc' \in [Procs -> Labels]
    BY <1>2, <1>3 DEF Die, TypeInv, Procs, Labels
  <2>2. Phases' /\ Balance' /\ Signalling' /\ Progress'
    BY <1>1, <1>2, <2>1, Facts DEF Phases, Balance, Signalling, Progress, Truth
  <2> QED
    BY <1>1, <2>1, <2>2, QuietIInv
<1>4. CASE Die("child")
  <2>1. /\ pc.child \in {"ack", "finack"} /\ pc'.child = "died" /\ pc'.parent = pc.parent
        /\ pc' \in [Procs -> Labels]
    BY <1>2, <1>4 DEF Die, TypeInv, Procs, Labels
  <2>2. Phases' /\ Balance' /\ Signalling' /\ Progress'
    BY <1>1, <1>2, <2>1, Facts DEF Phases, Balance, Signalling, Progress, Truth
  <2> QED
    BY <1>1, <2>1, <2>2, QuietIInv
<1> QED
  BY <1>3, <1>4

(* A signal of a stranger counts for nothing.                              *)
LEMMA NuisanceIInv ==
  ASSUME IInv, Nuisance
  PROVE  IInv'
<1>1. TypeInv /\ Contents /\ size' = size
  BY Facts, Size DEF Nuisance
<1>2. /\ UNCHANGED <<len, pc, sent, buf>>
      /\ nuisances' \in Nat
  BY <1>1 DEF Nuisance, TypeInv
<1>3. PICK p \in Procs, s \in Signals : x_sigqueue("other", p, s, 2)
  BY DEF Nuisance, Procs
<1>4. "other" \in Senders /\ 2 \in Nat
  BY DEF Senders
<1>5. /\ pending' \in [Procs -> [Signals -> Seq(Infos)]]
      /\ Bits' = Bits /\ Fins' = Fins /\ Acks' = Acks
  BY <1>1, <1>3, <1>4, Queued, Facts DEF Added
<1>6. Contents'
  BY <1>1, <1>2, <1>3, <1>4, ContentsQueued
<1> QED
  BY <1>1, <1>2, <1>5, <1>6, Facts DEF IInv, TypeInv, Stored, Balance, Phases, Signalling, Progress

LEMMA StepIInv == IInv /\ [Next]_vars => IInv'
<1> SUFFICES ASSUME IInv, [Next]_vars PROVE IInv'
  OBVIOUS
<1>1. CASE parent_send
  BY <1>1, SendBitIInv, SendFinIInv, WaitAckIInv DEF parent_send
<1>2. CASE child_recv
  BY <1>2, TakeBitIInv, AckBitIInv, TakeFinIInv, AckFinIInv, PutsIInv DEF child_recv
<1>3. CASE UNCHANGED vars
  <2>1. TypeInv /\ Bits' = Bits /\ Fins' = Fins /\ Acks' = Acks /\ pc' = pc
    BY <1>3, Quiet DEF vars
  <2> QED
    BY <1>3, <2>1, QuietIInv, Facts, Size DEF vars, TypeInv, Phases, Balance, Signalling, Progress
<1> QED
  BY <1>1, <1>2, <1>3, ForkIInv, ReapIInv, DieIInv, NuisanceIInv DEF Next, Terminating

(* The counts, the places of the two processes and the string agree,      *)
(* whatever signals others send and wherever a sigqueue fails.             *)
THEOREM Inductive == Spec => []IInv
  BY InitIInv, StepIInv, PTL DEF Spec

(* lesson11_signal_cat.c never has two signals of the protocol pending at  *)
(* once, and neither process waits for a signal nobody will send.          *)
THEOREM Discipline == Spec => []StopAndWait
<1>1. IInv => StopAndWait
  <2> SUFFICES ASSUME IInv, pc.parent # "died", pc.child # "died"
               PROVE  /\ Bits + Fins + Acks + Truth(pc.child \in {"ack", "finack"})
                           = Truth(pc.parent \in {"ack", "finack"})
                      /\ pc.child = "fin" /\ pc.parent = "ack" => Acks = 1
    BY DEF StopAndWait, Bits, Fins, Acks
  <2>1. Truth(pc.child \in {"ack", "finack", "died"}) = Truth(pc.child \in {"ack", "finack"})
    BY DEF Truth
  <2>2. pc.child = "fin" /\ pc.parent = "ack" => Acks = 1
    BY Facts DEF Balance, Signalling, Truth
  <2> QED
    BY <2>1, <2>2, Facts DEF Balance
<1> QED
  BY <1>1, Inductive, PTL

-----------------------------------------------------------------------------
(***************************************************************************)
(* The refinement of Printing                                              *)
(***************************************************************************)

Printed == IF pc.child = "exited" THEN buf ELSE <<>>

Outcome == CASE pc.parent = "exited" -> "complete"
             [] pc.parent = "died" -> "failed"
             [] OTHER -> "running"

(* What has been stored of a string that has arrived is the string.        *)
LEMMA WholeString ==
  ASSUME IInv, Len(buf) = size
  PROVE  buf = Cat!Text
<1>1. buf \in Seq(Nat) /\ size \in Nat /\ \A k \in 1..size : buf[k] = k
  BY Facts DEF TypeInv, Stored
<1>2. buf = [k \in 1..size |-> buf[k]]
  BY <1>1, LenProperties
<1> QED
  BY <1>1, <1>2 DEF Cat!Text

LEMMA InitCat == Init => Cat!Init
  BY SignalCatAssumption DEF Init, Cat!Init, size, BITS

LEMMA StepCat == IInv /\ [Next]_vars => [Cat!Next]_<<size, Printed, Outcome>>
<1> SUFFICES ASSUME IInv, [Next]_vars PROVE [Cat!Next]_<<size, Printed, Outcome>>
  OBVIOUS
<1>1. TypeInv /\ size' = size
  BY Facts, Size DEF Next, vars, Fork, parent_send, child_recv, Reap, Die, Nuisance, Terminating,
     SendBit, WaitAck, SendFin, TakeBit, AckBit, TakeFin, AckFin, Puts
<1>2. CASE Puts
  <2>1. pc.child = "done" /\ pc'.child = "exited" /\ pc'.parent = pc.parent /\ buf' = buf
    BY <1>1, <1>2, Moved DEF Puts, Procs, Labels
  <2>2. pc.parent \in {"finack", "reap"} /\ Len(buf) = size
    BY <2>1, Facts DEF Phases, Progress
  <2>3. Printed = <<>> /\ Printed' = buf /\ Outcome = "running" /\ Outcome' = "running"
    BY <2>1, <2>2 DEF Printed, Outcome
  <2>4. buf = Cat!Text
    BY <2>2, WholeString
  <2>5. Cat!Put
    BY <1>1, <2>3, <2>4 DEF Cat!Put, Printed, Outcome
  <2> QED
    BY <2>5 DEF Cat!Next
<1>3. CASE Reap
  <2>1. /\ pc.parent = "reap" /\ pc.child = "exited"
        /\ pc'.parent = "exited" /\ pc'.child = "exited" /\ buf' = buf
    BY <1>3, ReapIInv DEF Reap, Goto
  <2>2. Len(buf) = size
    BY <2>1, Facts DEF Progress
  <2>3. Printed = Cat!Text /\ Printed' = Printed /\ Outcome = "running" /\ Outcome' = "complete"
    BY <2>1, <2>2, WholeString DEF Printed, Outcome
  <2>4. Cat!Complete
    BY <1>1, <2>3 DEF Cat!Complete, Printed, Outcome
  <2> QED
    BY <2>4 DEF Cat!Next
<1>4. CASE Die("parent")
  <2>1. /\ pc.parent \in {"fork", "send"} /\ pc'.parent = "died" /\ pc'.child = pc.child
        /\ buf' = buf
    BY <1>1, <1>4 DEF Die, TypeInv, Procs, Labels
  <2>2. Printed = <<>> /\ Printed' = <<>> /\ Outcome = "running" /\ Outcome' = "failed"
    <3>1. pc.child # "exited"
      BY <2>1, Facts DEF Phases
    <3> QED
      BY <2>1, <3>1 DEF Printed, Outcome
  <2>3. Cat!Fail
    BY <1>1, <2>2 DEF Cat!Fail, Printed, Outcome
  <2> QED
    BY <2>3 DEF Cat!Next
<1>5. ASSUME \/ UNCHANGED <<pc, buf>>
             \/ pc'.child = pc.child /\ buf' = buf /\ {pc.parent, pc'.parent} \cap {"exited", "died"} = {}
             \/ pc'.parent = pc.parent /\ "exited" \notin {pc.child, pc'.child}
             \/ "exited" \notin {pc.child, pc'.child} /\ {pc.parent, pc'.parent} \cap {"exited", "died"} = {}
      PROVE  UNCHANGED <<size, Printed, Outcome>>
  BY <1>1, <1>5 DEF Printed, Outcome
<1>6. CASE Fork
  BY <1>5, <1>6, Facts DEF Fork, Phases
<1>7. CASE SendBit \/ SendFin
  <2>1. /\ pc.parent = "send" /\ pc'.parent \in {"ack", "finack"} /\ pc'.child = pc.child
        /\ buf' = buf
    BY <1>1, <1>7, Moved DEF SendBit, SendFin, Procs, Labels
  <2> QED
    BY <1>5, <2>1
<1>8. CASE WaitAck("ack", "send") \/ WaitAck("finack", "reap")
  <2>1. /\ {pc.parent, pc'.parent} \subseteq {"ack", "send", "finack", "reap"}
        /\ pc'.child = pc.child /\ buf' = buf
    BY <1>1, <1>8, Moved DEF WaitAck, Procs, Labels
  <2> QED
    BY <1>5, <2>1
<1>9. CASE TakeBit \/ AckBit \/ TakeFin \/ AckFin
  <2>1. /\ {pc.child, pc'.child} \subseteq {"bit", "ack", "fin", "finack", "done"}
        /\ pc'.parent = pc.parent
    BY <1>1, <1>9, Moved DEF TakeBit, AckBit, TakeFin, AckFin, Procs, Labels
  <2> QED
    BY <1>5, <2>1
<1>10. CASE Die("child")
  <2>1. pc.child \in {"ack", "finack"} /\ pc'.child = "died" /\ pc'.parent = pc.parent
    BY <1>1, <1>10 DEF Die, TypeInv, Procs, Labels
  <2> QED
    BY <1>5, <2>1
<1>11. CASE Nuisance \/ UNCHANGED vars
  BY <1>5, <1>11 DEF Nuisance, vars
<1> QED
  BY <1>2, <1>3, <1>4, <1>6, <1>7, <1>8, <1>9, <1>10, <1>11
     DEF Next, parent_send, child_recv, Terminating

(* What the child of lesson11_signal_cat.c prints is the parent's string,  *)
(* all of it in one piece; the parent reports success only when that has   *)
(* happened and failure only when it never will.                           *)
THEOREM Refinement == Spec => ImplementsPrinting
<1>1. Spec => [][Cat!Next]_<<size, Printed, Outcome>>
  BY StepCat, Inductive, PTL DEF Spec
<1> QED
  BY <1>1, InitCat, PTL DEF Spec, ImplementsPrinting, Cat!Spec, Printed, Outcome
=============================================================================
