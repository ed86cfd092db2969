---------------------------- MODULE BogatyrProofs ----------------------------
(***************************************************************************)
(* Proofs about Bogatyr, for any number of processes, any songs and any    *)
(* size of the queue.  A run goes through phases: the processes gather;    *)
(* one conductor refuses the song, or it performs it; and the queue is     *)
(* gone.  Each phase says where every process is and what lies in its      *)
(* mailbox; the steps are proved phase by phase.                           *)
(***************************************************************************)
EXTENDS Bogatyr, FiniteSetTheorems, SequenceTheorems, WellFoundedInduction, TLAPS

Labels == {"fork", "unborn", "register", "elect", "exited",
           "collect", "abort", "assign", "sing", "ack", "dismiss", "bye",
           "await", "listen", "acking", "leaving"}

TypeInv ==
  /\ song \in Songs
  /\ pc \in [Procs -> Labels]
  /\ reg \in Seq(Procs)
  /\ joined \in [Procs -> SUBSET Procs]
  /\ idx \in [Procs -> Nat]
  /\ DOMAIN status = Procs /\ DOMAIN box = Procs
  /\ DOMAIN my_ch = Procs /\ DOMAIN turn = Procs

\* the messages
Part(q) == [kind |-> "ASSIGN", ch |-> Voice(q)]
Turn(k) == [kind |-> "TURN", seq |-> k, ch |-> song[k]]
Done == [kind |-> "DONE"]
AckOf(k) == [kind |-> "ACK", seq |-> k]
Bye == [kind |-> "BYE", seq |-> 0]

Quiet == ack = <<>> /\ \A p \in Procs : box[p] = <<>>

\* the first k characters of the song have been heard, and nothing else
Sung(k) ==
  sung \in Seq(STRING) /\ Len(sung) = k /\ \A j \in 1..k : sung[j] = song[j]

-----------------------------------------------------------------------------
(***************************************************************************)
(* The phases                                                              *)
(***************************************************************************)

Joined == {q \in Procs : pc[q] \in {"elect", "await", "collect"}}

Unborn == {q \in Procs : pc[q] = "unborn"}

\* the processes start, register and elect a conductor, which counts them; a
\* launcher whose fork failed stays uncounted
Gathering ==
  /\ ~removed /\ Quiet /\ sung = <<>>
  /\ \A p \in Procs :
       /\ \/ pc[p] \in {"fork", "unborn", "register", "elect", "await", "collect"} /\ status[p] = 0
          \/ pc[p] = "exited" /\ p = Launcher /\ Unborn # {}
       /\ joined[p] \subseteq Joined
       /\ idx[p] = 1 /\ my_ch[p] = "silent"
  /\ \A k \in DOMAIN reg : reg[k] \in Joined
  /\ IF lock THEN \A p \in Procs : pc[p] # "collect"
     ELSE \E c \in Procs : {p \in Procs : pc[p] = "collect"} = {c}

\* conductor c tells the processes one by one that there will be no song
Refusal(c) ==
  /\ ~removed /\ ~lock /\ TooFew
  /\ sung = <<>> /\ ack = <<>>
  /\ pc[c] = "abort" /\ idx[c] \in 1..n+1
  /\ \A q \in Procs :
       \/ /\ IF q = c THEN pc[q] = "abort" ELSE pc[q] \in {"elect", "await"}
          /\ box[q] = IF Place(q) < idx[c] THEN <<Done>> ELSE <<>>
          /\ status[q] = 0
       \/ /\ q # c /\ pc[q] = "exited"
          /\ box[q] = <<>> /\ Place(q) < idx[c]
          /\ status[q] = 5

Refused ==
  /\ removed /\ ~lock /\ TooFew
  /\ Quiet /\ sung = <<>>
  /\ \E c \in Procs :
       /\ pc[c] = "exited" /\ status[c] = 3
       /\ \A q \in Procs \ {c} : \/ pc[q] \in {"elect", "await"}
                                 \/ pc[q] = "exited" /\ status[q] \in {1, 5}

\* what q has been told by conductor c
Assigned(q, c) == pc[c] = "assign" => Place(q) < idx[c]
Dismissed(q, c) == pc[c] = "bye" \/ (pc[c] = "dismiss" /\ Place(q) < idx[c])
Turned(q, c) == pc[c] = "ack" /\ ack = <<>> /\ Owner(song[idx[c]]) = q

\* what lies in the mailbox of q, before and after it has taken its part
Letters(q, c) ==
  IF Turned(q, c) THEN <<Part(q), Turn(idx[c])>>
  ELSE IF Dismissed(q, c) THEN <<Part(q), Done>>
  ELSE <<Part(q)>>

Rest(q, c) ==
  IF Turned(q, c) THEN <<Turn(idx[c])>>
  ELSE IF Dismissed(q, c) THEN <<Done>>
  ELSE <<>>

Singer(q, c) ==
  /\ status[q] = 0
  /\ \/ /\ pc[q] \in {"elect", "await"}
        /\ box[q] = IF Assigned(q, c) THEN Letters(q, c) ELSE <<>>
     \/ /\ pc[q] = "listen" /\ Assigned(q, c)
        /\ box[q] = Rest(q, c) /\ my_ch[q] = Voice(q)
     \/ /\ pc[q] = "acking" /\ Turned(q, c) /\ turn[q] = idx[c]
        /\ box[q] = <<>> /\ my_ch[q] = Voice(q)
     \/ /\ pc[q] \in {"leaving", "exited"} /\ Dismissed(q, c)
        /\ box[q] = <<>>

Gone == {q \in Procs : pc[q] = "exited"}

\* how far conductor c has got
Assigning(c) ==
  /\ pc[c] = "assign" /\ idx[c] \in 1..n+1
  /\ ack = <<>> /\ sung = <<>>
  /\ my_ch[c] = IF Assigned(c, c) THEN Voice(c) ELSE "silent"

Singing(c) ==
  /\ pc[c] = "sing" /\ idx[c] \in 1..Len(song)+1
  /\ ack = <<>> /\ Sung(idx[c] - 1)
  /\ my_ch[c] = Voice(c)

Waiting(c) ==
  LET o == Owner(song[idx[c]]) IN
  /\ pc[c] = "ack" /\ idx[c] \in 1..Len(song) /\ o # c
  /\ ack \in {<<>>, <<AckOf(idx[c])>>}
  /\ Sung(IF ack = <<>> /\ pc[o] # "acking" THEN idx[c] - 1 ELSE idx[c])
  /\ my_ch[c] = Voice(c)

Dismissing(c) ==
  /\ pc[c] = "dismiss" /\ idx[c] \in 1..n+1
  /\ ack \in Seq({Bye}) /\ Len(ack) = Cardinality(Gone)
  /\ sung = Heard!Full(song)

Leaving(c) ==
  /\ pc[c] = "bye"
  /\ ack \in Seq({Bye}) /\ idx[c] + Cardinality(Gone) = n - 1 + Len(ack)
  /\ sung = Heard!Full(song)

Performance(c) ==
  /\ ~removed /\ ~lock /\ ~TooFew
  /\ status[c] = 0 /\ box[c] = IF Assigned(c, c) THEN <<Part(c)>> ELSE <<>>
  /\ \A q \in Procs \ {c} : Singer(q, c)
  /\ Assigning(c) \/ Singing(c) \/ Waiting(c) \/ Dismissing(c) \/ Leaving(c)

Finished ==
  /\ removed /\ ~lock /\ ~TooFew
  /\ Quiet /\ sung = Heard!Full(song)
  /\ \A p \in Procs : pc[p] = "exited" /\ status[p] = 0

Phase ==
  \/ Gathering
  \/ \E c \in Procs : Refusal(c) \/ Performance(c)
  \/ Refused \/ Finished

IInv == TypeInv /\ Phase

-----------------------------------------------------------------------------
(***************************************************************************)
(* The order of the pids and of the characters                             *)
(***************************************************************************)

LEMMA Least ==
  ASSUME NEW S, S \subseteq Nat, S # {}
  PROVE  \E k \in S : \A j \in S : k <= j
<1> DEFINE R == {jk \in Nat \X Nat : jk[1] < jk[2]}
<1>1. IsWellFoundedOn(R, Nat)
  BY NatLessThanWellFounded DEF OpToRel
<1>2. PICK k \in S : \A j \in S : ~(<<j, k>> \in R)
  <2> HIDE DEF R
  <2> QED
    BY <1>1, WFMin
<1>3. \A j \in S : ~(j < k)
  BY <1>2
<1> QED
  BY <1>3

LEMMA Numbers == n \in Nat \ {0}
<1>1. n \in Nat
  BY BogatyrAssumption, FS_CardinalityType DEF n
<1>2. n # 0
  BY BogatyrAssumption, FS_EmptySet DEF n
<1> QED
  BY <1>1, <1>2

(* The sorted pids are numbered from 1 to n.                               *)
LEMMA Pids ==
  /\ \A p \in Procs : Place(p) \in 1..n
  /\ \A p, q \in Procs : Place(p) = Place(q) => p = q
  /\ \A k \in 1..n : Pid(k) \in Procs /\ Place(Pid(k)) = k
<1> DEFINE Below(p) == {q \in Procs : q <= p}
           place == [p \in Procs |-> Place(p)]
<1>1. ASSUME NEW p \in Procs
      PROVE  IsFiniteSet(Below(p)) /\ Place(p) = Cardinality(Below(p)) /\ Place(p) \in 1..n
  <2>1. Below(p) \in SUBSET Procs /\ p \in Below(p)
    BY BogatyrAssumption
  <2>2. IsFiniteSet(Below(p)) /\ Cardinality(Below(p)) <= n
    BY <2>1, BogatyrAssumption, FS_Subset DEF n
  <2>3. Cardinality(Below(p)) \in Nat /\ Cardinality(Below(p)) # 0
    BY <2>1, <2>2, FS_CardinalityType, FS_EmptySet
  <2>4. Place(p) = Cardinality(Below(p))
    BY DEF Place
  <2> QED
    BY <2>2, <2>3, <2>4, Numbers
<1>2. ASSUME NEW p \in Procs, NEW q \in Procs, p < q
      PROVE  Place(p) # Place(q)
  <2>1. Below(p) \in SUBSET Below(q) /\ q \in Below(q) /\ q \notin Below(p)
    <3>1. p \in Nat /\ q \in Nat /\ \A r \in Procs : r \in Nat
      BY BogatyrAssumption
    <3>2. \A r \in Procs : r <= p => r <= q
      BY <1>2, <3>1
    <3>3. q <= q /\ ~(q <= p)
      BY <1>2, <3>1
    <3> QED
      BY <3>2, <3>3
  <2>2. Cardinality(Below(p)) # Cardinality(Below(q))
    <3> HIDE DEF Below
    <3> QED
      BY <1>1, <2>1, FS_Subset
  <2> QED
    BY <1>1, <2>2
<1>3. \A p, q \in Procs : Place(p) = Place(q) => p = q
  <2> TAKE p, q \in Procs
  <2>1. p < q \/ q < p \/ p = q
    BY BogatyrAssumption
  <2> QED
    BY <1>2, <2>1
<1>4. place \in Surjection(Procs, 1..n)
  <2>1. place \in Injection(Procs, 1..n)
    BY <1>1, <1>3 DEF Injection, IsInjective
  <2>2. IsFiniteSet(1..n) /\ Cardinality(1..n) = Cardinality(Procs)
    BY Numbers, FS_Interval DEF n
  <2> HIDE DEF place
  <2> QED
    BY <2>1, <2>2, FS_Injection
<1>5. ASSUME NEW k \in 1..n
      PROVE  Pid(k) \in Procs /\ Place(Pid(k)) = k
  <2>1. \E p \in Procs : Place(p) = k
    BY <1>4 DEF Surjection
  <2> QED
    BY <2>1 DEF Pid
<1> QED
  BY <1>1, <1>3, <1>5

LEMMA Pids2 ==
  \A k \in 1..n, q \in Procs : Place(q) = k <=> q = Pid(k)
  BY Pids

LEMMA SongFacts ==
  ASSUME song \in Songs
  PROVE  /\ song \in Seq(STRING \ {"silent"}) /\ Len(song) \in Nat /\ DOMAIN song = 1..Len(song)
         /\ \A k \in 1..Len(song) : song[k] \in Chars /\ song[k] \in STRING /\ song[k] # "silent"
<1>1. song \in Seq(STRING \ {"silent"})
  BY BogatyrAssumption
<1>2. Len(song) \in Nat /\ DOMAIN song = 1..Len(song)
  BY <1>1, LenProperties
<1>3. \A k \in 1..Len(song) : song[k] \in STRING \ {"silent"}
  BY <1>1, ElementOfSeq
<1> QED
  BY <1>1, <1>2, <1>3 DEF Chars

(* The characters are numbered by where they first occur.                  *)
LEMMA Ranks ==
  ASSUME song \in Songs
  PROVE  /\ IsFiniteSet(Chars)
         /\ \A c \in Chars : Rank(c) \in 1..Cardinality(Chars)
         /\ \A c, d \in Chars : Rank(c) = Rank(d) => c = d
<1> DEFINE Heads(k) == {song[j] : j \in 1..k}
           First(c) == CHOOSE k \in DOMAIN song : song[k] = c /\ \A j \in 1..k-1 : song[j] # c
<1>1. Len(song) \in Nat /\ DOMAIN song = 1..Len(song) /\ song \in Seq(STRING \ {"silent"})
  BY SongFacts
<1>2. IsFiniteSet(Chars)
  <2>1. song \in Surjection(1..Len(song), Chars)
    BY <1>1 DEF Chars, Surjection
  <2> QED
    BY <1>1, <2>1, FS_Interval, FS_Surjection
<1>3. ASSUME NEW c \in Chars
      PROVE  /\ First(c) \in 1..Len(song) /\ song[First(c)] = c
             /\ \A j \in 1..First(c)-1 : song[j] # c
  <2> DEFINE S == {k \in 1..Len(song) : song[k] = c}
  <2>1. S \subseteq Nat /\ S # {}
    BY <1>1, <1>3 DEF Chars
  <2>2. PICK k \in S : \A j \in S : k <= j
    <3> HIDE DEF S
    <3> QED
      BY <2>1, Least
  <2>3. k \in DOMAIN song /\ song[k] = c /\ \A j \in 1..k-1 : song[j] # c
    BY <1>1, <2>2
  <2>4. First(c) \in DOMAIN song /\ song[First(c)] = c /\ \A j \in 1..First(c)-1 : song[j] # c
    BY <2>3
  <2> QED
    BY <1>1, <2>4
<1>4. ASSUME NEW c \in Chars
      PROVE  Rank(c) = Cardinality(Heads(First(c)))
  BY DEF Rank
<1> HIDE DEF First
<1>5. ASSUME NEW k \in 1..Len(song)
      PROVE  /\ Heads(k) \in SUBSET Chars /\ IsFiniteSet(Heads(k))
             /\ Cardinality(Heads(k)) \in 1..Cardinality(Chars)
  <2>1. Heads(k) \in SUBSET Chars /\ song[k] \in Heads(k)
    BY <1>1 DEF Chars
  <2> HIDE DEF Heads
  <2>2. IsFiniteSet(Heads(k)) /\ Cardinality(Heads(k)) <= Cardinality(Chars)
    BY <1>2, <2>1, FS_Subset
  <2>3. Cardinality(Heads(k)) \in Nat /\ Cardinality(Chars) \in Nat /\ Cardinality(Heads(k)) # 0
    BY <1>2, <2>1, <2>2, FS_CardinalityType, FS_EmptySet
  <2> QED
    BY <2>1, <2>2, <2>3
<1>6. ASSUME NEW c \in Chars, NEW d \in Chars, First(c) < First(d)
      PROVE  Rank(c) # Rank(d)
  <2>1. First(c) \in 1..Len(song) /\ First(d) \in 1..Len(song) /\ song[First(d)] = d
    BY <1>3
  <2>2. d \in Heads(First(d)) /\ d \notin Heads(First(c))
    <3>1. \A j \in 1..First(c) : j \in 1..First(d)-1
      BY <1>6, <2>1
    <3> QED
      BY <1>3, <2>1, <3>1
  <2>3. Heads(First(c)) \in SUBSET Heads(First(d))
    BY <1>6, <2>1
  <2>4. IsFiniteSet(Heads(First(d))) /\ Heads(First(c)) # Heads(First(d))
    BY <1>5, <2>1, <2>2
  <2>5. Cardinality(Heads(First(c))) # Cardinality(Heads(First(d)))
    <3> HIDE DEF Heads
    <3> QED
      BY <2>3, <2>4, FS_Subset
  <2> QED
    BY <1>4, <2>5
<1>7. \A c, d \in Chars : Rank(c) = Rank(d) => c = d
  <2> TAKE c, d \in Chars
  <2>1. /\ First(c) \in Int /\ First(d) \in Int
        /\ First(c) = First(d) => c = d
    BY <1>3
  <2> QED
    BY <1>6, <2>1
<1>8. \A c \in Chars : Rank(c) \in 1..Cardinality(Chars)
  BY <1>3, <1>4, <1>5
<1> QED
  BY <1>2, <1>7, <1>8

(* With enough processes every character has a singer of its own.          *)
LEMMA Owners ==
  ASSUME song \in Songs, ~TooFew, NEW c \in Chars
  PROVE  Owner(c) \in Procs /\ Voice(Owner(c)) = c
<1>1. Cardinality(Chars) \in Nat /\ Cardinality(Chars) <= n
  BY Ranks, FS_CardinalityType, Numbers DEF TooFew
<1>2. \A d \in Chars : Rank(d) \in 1..n /\ Owner(d) \in Procs /\ Place(Owner(d)) = Rank(d)
  <2> TAKE d \in Chars
  <2>1. Rank(d) \in 1..n
    BY <1>1, Ranks, Numbers
  <2> QED
    BY <2>1, Pids DEF Owner
<1>3. \A d \in Chars : Owner(d) = Owner(c) => d = c
  BY <1>2, Ranks
<1> QED
  BY <1>2, <1>3 DEF Voice

(* None of this changes, as the song does not.                             *)
LEMMA SameSong ==
  ASSUME song' = song
  PROVE  /\ TooFew' = TooFew /\ Heard!Full(song)' = Heard!Full(song)
         /\ \A c : Owner(c)' = Owner(c)
         /\ \A p : Voice(p)' = Voice(p)
<1>1. Chars' = Chars
  BY DEF Chars
<1>2. \A c : Owner(c)' = Owner(c)
  BY DEF Owner, Rank
<1> QED
  BY <1>1, <1>2 DEF TooFew, Voice, Heard!Full

-----------------------------------------------------------------------------
(***************************************************************************)
(* Steps of one process                                                    *)
(***************************************************************************)

LEMMA Mailbox ==
  ASSUME NEW a, NEW b
  PROVE  /\ Append(<<>>, a) = <<a>> /\ Append(<<a>>, b) = <<a, b>>
         /\ Head(<<a>>) = a /\ Tail(<<a>>) = <<>> /\ <<a>> # <<>>
         /\ Head(<<a, b>>) = a /\ Tail(<<a, b>>) = <<b>> /\ <<a, b>> # <<>>
<1>1. Append(<<>>, a) = <<a>>
  OBVIOUS
<1>2. Append(<<a>>, b) = <<a, b>>
  <2>1. <<a>> \in Seq({a, b}) /\ <<a, b>> \in Seq({a, b}) /\ b \in {a, b}
    OBVIOUS
  <2>2. /\ Append(<<a>>, b) \in Seq({a, b}) /\ Len(Append(<<a>>, b)) = 2
        /\ Append(<<a>>, b)[1] = a /\ Append(<<a>>, b)[2] = b
    BY <2>1, AppendProperties
  <2>3. Len(<<a, b>>) = 2
    OBVIOUS
  <2>4. \A k \in 1..2 : k = 1 \/ k = 2
    OBVIOUS
  <2>5. \A k \in 1..2 : Append(<<a>>, b)[k] = <<a, b>>[k]
    BY <2>2, <2>4
  <2> QED
    BY <2>1, <2>2, <2>3, <2>5, SeqEqual
<1>3. Head(<<a>>) = a /\ Head(<<a, b>>) = a
  OBVIOUS
<1>4. Tail(<<a>>) = <<>>
  OBVIOUS
<1>5. Tail(<<a, b>>) = <<b>>
  OBVIOUS
<1>6. <<a>> # <<>> /\ <<a, b>> # <<>>
  OBVIOUS
<1> QED
  BY <1>1, <1>2, <1>3, <1>4, <1>5, <1>6

LEMMA Moved ==
  ASSUME TypeInv, NEW p \in Procs, NEW from, NEW to \in Labels, Goto(p, from, to)
  PROVE  /\ pc[p] = from /\ pc'[p] = to /\ pc' \in [Procs -> Labels]
         /\ \A q \in Procs \ {p} : pc'[q] = pc[q]
         /\ song' = song /\ status' = status
  BY DEF TypeInv, Goto

LEMMA Ended ==
  ASSUME TypeInv, NEW p \in Procs, NEW from, NEW code, Exit(p, from, code)
  PROVE  /\ pc[p] = from /\ pc'[p] = "exited" /\ pc' \in [Procs -> Labels]
         /\ \A q \in Procs \ {p} : pc'[q] = pc[q]
         /\ status'[p] = code /\ DOMAIN status' = Procs
         /\ \A q \in Procs \ {p} : status'[q] = status[q]
         /\ song' = song
  BY DEF TypeInv, Exit, Labels

(* The types stay, and so does the song.                                   *)
LEMMA TypeStep ==
  ASSUME TypeInv, [Next]_vars
  PROVE  TypeInv' /\ song' = song
<1>1. CASE UNCHANGED vars
  BY <1>1 DEF TypeInv, vars, queue, locals
<1>2. CASE ForksDone
  BY <1>2, BogatyrAssumption DEF TypeInv, ForksDone, Goto, queue, locals, Labels
<1>3. CASE ForkFails
  BY <1>3, BogatyrAssumption DEF TypeInv, ForkFails, Exit, queue, locals, Labels
<1>4. ASSUME NEW p \in Procs, Fork(p) \/ TakeLock(p) \/ NoLock(p)
      PROVE  TypeInv' /\ song' = song
  BY <1>4 DEF TypeInv, Fork, TakeLock, NoLock, Goto, queue, locals, Labels
<1>5. ASSUME NEW p \in Procs, Register(p)
      PROVE  TypeInv' /\ song' = song
  <2>1. reg' \in Seq(Procs)
    BY <1>5, AppendProperties DEF TypeInv, Register
  <2> QED
    BY <1>5, <2>1 DEF TypeInv, Register, Goto, locals, Labels
<1>6. ASSUME NEW p \in Procs, Collect(p)
      PROVE  TypeInv' /\ song' = song
  <2>1. Head(reg) \in Procs /\ reg' \in Seq(Procs)
    BY <1>6, HeadTailProperties DEF TypeInv, Collect
  <2>2. joined' \in [Procs -> SUBSET Procs]
    BY <1>6, <2>1 DEF TypeInv, Collect
  <2>3. pc' \in [Procs -> Labels]
    BY <1>6 DEF TypeInv, Collect, Goto, Labels
  <2> QED
    BY <1>6, <2>1, <2>2, <2>3 DEF TypeInv, Collect, Goto
<1>7. ASSUME NEW p \in Procs, AbortOne(p) \/ AssignOne(p) \/ AssignEnd(p) \/ SingSelf(p) \/ EndSong(p)
      PROVE  TypeInv' /\ song' = song
  <2>1. idx' \in [Procs -> Nat]
    <3>1. idx' = [idx EXCEPT ![p] = @ + 1] \/ idx' = [idx EXCEPT ![p] = 1]
      BY <1>7 DEF AbortOne, AssignOne, AssignEnd, SingSelf, EndSong
    <3> QED
      BY <3>1 DEF TypeInv
  <2>2. pc' \in [Procs -> Labels] /\ song' = song /\ status' = status
    BY <1>7 DEF TypeInv, AbortOne, AssignOne, AssignEnd, SingSelf, EndSong, Goto, Labels
  <2>3. DOMAIN box' = Procs /\ DOMAIN my_ch' = Procs
    BY <1>7 DEF TypeInv, AbortOne, AssignOne, AssignEnd, SingSelf, EndSong, Post, queue
  <2> QED
    BY <1>7, <2>1, <2>2, <2>3 DEF TypeInv, AbortOne, AssignOne, AssignEnd, SingSelf, EndSong,
       Post, queue
<1>8. ASSUME NEW p \in Procs, AbortEnd(p) \/ ByeEnd(p)
      PROVE  TypeInv' /\ song' = song
  <2>1. <<>> \in Seq(Procs)
    BY EmptySeq
  <2> QED
    BY <1>8, <2>1 DEF TypeInv, AbortEnd, ByeEnd, Exit, Remove, locals, Labels
<1>9. ASSUME NEW p \in Procs, GiveTurn(p) \/ TakeAck(p)
      PROVE  TypeInv' /\ song' = song
  <2>1. pc' \in [Procs -> Labels] /\ song' = song /\ DOMAIN status' = Procs
    BY <1>9 DEF TypeInv, GiveTurn, TakeAck, Goto, Exit, Labels
  <2>2. idx' \in [Procs -> Nat] /\ DOMAIN box' = Procs
    BY <1>9 DEF TypeInv, GiveTurn, TakeAck, Post, locals
  <2> QED
    BY <1>9, <2>1, <2>2 DEF TypeInv, GiveTurn, TakeAck, Post, locals
<1>10. ASSUME NEW p \in Procs, DismissOne(p) \/ DismissEnd(p) \/ TakeBye(p)
       PROVE  TypeInv' /\ song' = song
  <2>1. pc' \in [Procs -> Labels] /\ song' = song /\ status' = status
    BY <1>10 DEF TypeInv, DismissOne, DismissEnd, TakeBye, Goto, Labels
  <2>2. idx' \in [Procs -> Nat]
    <3>1. \/ idx' = [idx EXCEPT ![p] = @ + 1] \/ idx' = [idx EXCEPT ![p] = n - 1]
          \/ idx[p] > 0 /\ idx' = [idx EXCEPT ![p] = @ - 1]
          \/ idx' = [idx EXCEPT ![p] = @]
      BY <1>10 DEF DismissOne, DismissEnd, TakeBye
    <3>2. idx[p] \in Nat /\ idx[p] + 1 \in Nat /\ n - 1 \in Nat /\ (idx[p] > 0 => idx[p] - 1 \in Nat)
      BY Numbers DEF TypeInv
    <3> QED
      BY <3>1, <3>2 DEF TypeInv
  <2>3. DOMAIN box' = Procs /\ reg' = reg
    BY <1>10 DEF TypeInv, DismissOne, DismissEnd, TakeBye, Post, queue
  <2> QED
    BY <1>10, <2>1, <2>2, <2>3 DEF TypeInv, DismissOne, DismissEnd, TakeBye
<1>11. ASSUME NEW p \in Procs, Worker(p)
       PROVE  TypeInv' /\ song' = song
  <2>1. pc' \in [Procs -> Labels] /\ song' = song /\ DOMAIN status' = Procs
    BY <1>11 DEF TypeInv, Worker, TakeAssign, TakeTurn, SendAck, TakeDone, SendBye, QueueGone,
       Goto, Exit, Labels
  <2>2. DOMAIN box' = Procs /\ DOMAIN my_ch' = Procs /\ DOMAIN turn' = Procs
    BY <1>11 DEF TypeInv, Worker, TakeAssign, TakeTurn, SendAck, TakeDone, SendBye, QueueGone,
       queue, locals
  <2> QED
    BY <1>11, <2>1, <2>2 DEF TypeInv, Worker, TakeAssign, TakeTurn, SendAck, TakeDone, SendBye,
       QueueGone, queue, locals
<1> QED
  BY <1>1, <1>2, <1>3, <1>4, <1>5, <1>6, <1>7, <1>8, <1>9, <1>10, <1>11
     DEF Next, Main, Conductor, Terminating

LEMMA InitIInv == Init => IInv
<1> SUFFICES ASSUME Init PROVE IInv
  OBVIOUS
<1>1. TypeInv
  BY EmptySeq, BogatyrAssumption DEF Init, TypeInv, Labels
<1>2. Gathering
  BY <1>1, BogatyrAssumption DEF Init, Gathering, Quiet
<1> QED
  BY <1>1, <1>2 DEF IInv, Phase

(* Which steps a process can take from where it is.                        *)
LEMMA Where ==
  ASSUME NEW p \in Procs, Main(p)
  PROVE  /\ pc[p] \notin {"fork", "exited"}
         /\ pc[p] = "unborn" => Fork(p)
         /\ pc[p] = "register" => Register(p)
         /\ pc[p] = "elect" => TakeLock(p) \/ NoLock(p)
         /\ pc[p] = "collect" => Collect(p)
         /\ pc[p] = "abort" => AbortOne(p) \/ AbortEnd(p)
         /\ pc[p] = "assign" => AssignOne(p) \/ AssignEnd(p)
         /\ pc[p] = "sing" => SingSelf(p) \/ GiveTurn(p) \/ EndSong(p)
         /\ pc[p] = "ack" => TakeAck(p)
         /\ pc[p] = "dismiss" => DismissOne(p) \/ DismissEnd(p)
         /\ pc[p] = "bye" => TakeBye(p) \/ ByeEnd(p)
         /\ pc[p] = "await" => TakeAssign(p) \/ QueueGone(p)
         /\ pc[p] = "listen" => TakeTurn(p) \/ TakeDone(p) \/ QueueGone(p)
         /\ pc[p] = "acking" => SendAck(p) \/ QueueGone(p)
         /\ pc[p] = "leaving" => SendBye(p) \/ QueueGone(p)
<1>1. /\ Fork(p) => pc[p] = "unborn"
      /\ Register(p) => pc[p] = "register"
      /\ TakeLock(p) \/ NoLock(p) => pc[p] = "elect"
      /\ Collect(p) => pc[p] = "collect"
  BY DEF Fork, Register, TakeLock, NoLock, Collect, Goto
<1>2. /\ AbortOne(p) \/ AbortEnd(p) => pc[p] = "abort"
      /\ AssignOne(p) \/ AssignEnd(p) => pc[p] = "assign"
      /\ SingSelf(p) \/ GiveTurn(p) \/ EndSong(p) => pc[p] = "sing"
  BY DEF AbortOne, AbortEnd, AssignOne, AssignEnd, SingSelf, GiveTurn, EndSong, Goto, Exit
<1>3. /\ TakeAck(p) => pc[p] = "ack"
      /\ DismissOne(p) \/ DismissEnd(p) => pc[p] = "dismiss"
      /\ TakeBye(p) \/ ByeEnd(p) => pc[p] = "bye"
  BY DEF TakeAck, DismissOne, DismissEnd, TakeBye, ByeEnd, Goto, Exit
<1>4. /\ TakeAssign(p) => pc[p] = "await"
      /\ TakeTurn(p) \/ TakeDone(p) => pc[p] = "listen"
      /\ SendAck(p) => pc[p] = "acking"
      /\ SendBye(p) => pc[p] = "leaving"
      /\ QueueGone(p) => pc[p] \in {"await", "listen", "acking", "leaving"}
  BY DEF TakeAssign, TakeTurn, TakeDone, SendAck, SendBye, QueueGone, Goto, Exit
<1> QED
  BY <1>1, <1>2, <1>3, <1>4 DEF Main, Conductor, Worker

(* The launcher forks before anything else happens.                        *)
LEMMA NoFork ==
  ASSUME Next, \A p \in Procs : pc[p] \notin {"fork", "unborn"}
  PROVE  (\E p \in Procs : Main(p)) \/ UNCHANGED vars
  BY BogatyrAssumption DEF Next, ForksDone, ForkFails, Terminating, Goto, Exit

-----------------------------------------------------------------------------
(***************************************************************************)
(* The phases, step by step                                                *)
(***************************************************************************)

(* A launcher whose fork failed is never counted, so when all are counted  *)
(* all have registered.                                                    *)
LEMMA GatheringStep ==
  ASSUME TypeInv, Gathering, [Next]_vars, TypeInv', song' = song
  PROVE  Phase'
<1> USE BogatyrAssumption
<1> DEFINE Here(p) ==
      /\ \/ pc[p] \in {"fork", "unborn", "register", "elect", "await", "collect"} /\ status[p] = 0
         \/ pc[p] = "exited" /\ p = Launcher /\ Unborn # {}
      /\ joined[p] \subseteq Joined
      /\ idx[p] = 1 /\ my_ch[p] = "silent"
    Elected == IF lock THEN \A p \in Procs : pc[p] # "collect"
               ELSE \E c \in Procs : {p \in Procs : pc[p] = "collect"} = {c}
<1>1. /\ ~removed /\ Quiet /\ sung = <<>> /\ \A p \in Procs : Here(p)
      /\ \A k \in DOMAIN reg : reg[k] \in Joined
      /\ Elected
  BY DEF Gathering
<1>2. ASSUME ~removed', Quiet', sung' = <<>>, \A p \in Procs : Here(p)',
             \A k \in DOMAIN reg' : reg'[k] \in Joined', Elected'
      PROVE  Phase'
  BY <1>2 DEF Phase, Gathering
<1>3. ASSUME UNCHANGED <<queue, locals, sung>>, \A p \in Procs : pc[p] = "collect" <=> pc'[p] = "collect"
      PROVE  ~removed' /\ Quiet' /\ sung' = <<>> /\ Elected'
  BY <1>1, <1>3 DEF Quiet, queue, locals
<1>4. CASE UNCHANGED vars
  <2>1. UNCHANGED <<queue, locals, sung>> /\ pc' = pc /\ status' = status
    BY <1>4 DEF vars
  <2>2. Joined' = Joined /\ Unborn' = Unborn
    BY <2>1 DEF Joined, Unborn
  <2>3. \A p \in Procs : Here(p)'
    BY <1>1, <2>1, <2>2 DEF locals
  <2>4. \A k \in DOMAIN reg' : reg'[k] \in Joined'
    BY <1>1, <2>1, <2>2 DEF queue
  <2> QED
    BY <1>2, <1>3, <2>1, <2>3, <2>4
<1>5. CASE ForksDone
  <2>1. /\ UNCHANGED <<queue, locals, sung>> /\ pc[Launcher] = "fork" /\ status' = status
        /\ pc'[Launcher] = "register" /\ \A q \in Procs \ {Launcher} : pc'[q] = pc[q]
    BY <1>5, Moved DEF ForksDone, Labels
  <2>2. Joined' = Joined /\ Unborn' = Unborn
    BY <2>1 DEF Joined, Unborn
  <2>3. \A p \in Procs : Here(p)'
    BY <1>1, <2>1, <2>2 DEF locals
  <2>4. \A k \in DOMAIN reg' : reg'[k] \in Joined'
    BY <1>1, <2>1, <2>2 DEF queue
  <2> QED
    BY <1>2, <1>3, <2>1, <2>3, <2>4
<1>6. CASE ForkFails
  <2>1. /\ UNCHANGED <<queue, locals, sung>> /\ pc[Launcher] = "fork"
        /\ pc'[Launcher] = "exited" /\ \A q \in Procs \ {Launcher} : pc'[q] = pc[q]
        /\ \A q \in Procs \ {Launcher} : status'[q] = status[q]
    BY <1>6, Ended DEF ForkFails
  <2>2. Joined' = Joined /\ Unborn' = Unborn /\ Unborn # {}
    BY <1>6, <2>1 DEF Joined, Unborn, ForkFails
  <2>3. \A p \in Procs : Here(p)'
    BY <1>1, <2>1, <2>2 DEF locals
  <2>4. \A k \in DOMAIN reg' : reg'[k] \in Joined'
    BY <1>1, <2>1, <2>2 DEF queue
  <2> QED
    BY <1>2, <1>3, <2>1, <2>3, <2>4
<1>7. ASSUME NEW p \in Procs, Fork(p)
      PROVE  Phase'
  <2>1. /\ UNCHANGED <<queue, locals, sung>> /\ pc[p] = "unborn" /\ status' = status
        /\ pc'[p] = "register" /\ \A q \in Procs \ {p} : pc'[q] = pc[q]
        /\ pc[Launcher] = "fork"
    BY <1>7, Moved DEF Fork, Labels
  <2>2. Joined' = Joined
    BY <2>1 DEF Joined
  <2>3. \A q \in Procs : Here(q)'
    BY <1>1, <2>1, <2>2 DEF locals
  <2>4. \A k \in DOMAIN reg' : reg'[k] \in Joined'
    BY <1>1, <2>1, <2>2 DEF queue
  <2> QED
    BY <1>2, <1>3, <2>1, <2>3, <2>4
<1>8. ASSUME NEW p \in Procs, Register(p)
      PROVE  Phase'
  <2>1. /\ UNCHANGED <<lock, ack, box, removed, locals, sung>> /\ pc[p] = "register" /\ status' = status
        /\ pc'[p] = "elect" /\ \A q \in Procs \ {p} : pc'[q] = pc[q]
        /\ reg' = Append(reg, p)
    BY <1>8, Moved DEF Register, Labels
  <2>2. Joined' = Joined \cup {p} /\ Unborn' = Unborn
    BY <2>1 DEF Joined, Unborn
  <2>3. \A q \in Procs : Here(q)'
    BY <1>1, <2>1, <2>2 DEF locals
  <2>4. \A k \in DOMAIN reg' : reg'[k] \in Joined'
    <3>1. /\ DOMAIN reg = 1..Len(reg) /\ DOMAIN reg' = 1..Len(reg)+1 /\ Len(reg) \in Nat
          /\ \A k \in 1..Len(reg) : reg'[k] = reg[k]
          /\ reg'[Len(reg)+1] = p
      <4>1. reg \in Seq(Procs)
        BY DEF TypeInv
      <4> QED
        BY <2>1, <4>1, AppendProperties, LenProperties
    <3>2. ASSUME NEW k \in 1..Len(reg)+1
          PROVE  reg'[k] \in Joined'
      <4>1. k \in 1..Len(reg) \/ k = Len(reg)+1
        BY <3>1
      <4> QED
        BY <1>1, <2>2, <3>1, <4>1
    <3> QED
      BY <3>1, <3>2
  <2>5. Elected'
    <3>1. /\ {q \in Procs : pc'[q] = "collect"} = {q \in Procs : pc[q] = "collect"}
          /\ \A q \in Procs : pc[q] # "collect" => pc'[q] # "collect"
      BY <2>1
    <3> QED
      BY <1>1, <2>1, <3>1
  <2> QED
    BY <1>1, <1>2, <2>1, <2>3, <2>4, <2>5 DEF Quiet
<1>9. ASSUME NEW p \in Procs, TakeLock(p)
      PROVE  Phase'
  <2>1. /\ UNCHANGED <<reg, ack, box, removed, locals, sung>> /\ pc[p] = "elect" /\ status' = status
        /\ pc'[p] = "collect" /\ \A q \in Procs \ {p} : pc'[q] = pc[q]
        /\ lock /\ lock' = FALSE
    BY <1>9, Moved DEF TakeLock, Labels
  <2>2. Joined' = Joined /\ Unborn' = Unborn
    BY <2>1 DEF Joined, Unborn
  <2>3. \A q \in Procs : Here(q)'
    BY <1>1, <2>1, <2>2 DEF locals
  <2>4. {q \in Procs : pc'[q] = "collect"} = {p}
    BY <1>1, <2>1
  <2>5. Elected'
    BY <2>1, <2>4
  <2>6. \A k \in DOMAIN reg' : reg'[k] \in Joined'
    BY <1>1, <2>1, <2>2
  <2> QED
    BY <1>1, <1>2, <2>1, <2>3, <2>5, <2>6 DEF Quiet
<1>10. ASSUME NEW p \in Procs, NoLock(p)
       PROVE  Phase'
  <2>1. /\ UNCHANGED <<queue, locals, sung>> /\ pc[p] = "elect" /\ status' = status
        /\ pc'[p] = "await" /\ \A q \in Procs \ {p} : pc'[q] = pc[q]
    BY <1>10, Moved DEF NoLock, Labels
  <2>2. Joined' = Joined /\ Unborn' = Unborn
    BY <2>1 DEF Joined, Unborn
  <2>3. \A q \in Procs : Here(q)'
    BY <1>1, <2>1, <2>2 DEF locals
  <2>4. \A k \in DOMAIN reg' : reg'[k] \in Joined'
    BY <1>1, <2>1, <2>2 DEF queue
  <2> QED
    BY <1>2, <1>3, <2>1, <2>3, <2>4
<1>11. ASSUME NEW p \in Procs, Collect(p)
       PROVE  Phase'
  <2>1. /\ UNCHANGED <<lock, ack, box, removed, idx, my_ch, turn, sung>>
        /\ reg # <<>> /\ reg' = Tail(reg)
        /\ joined' = [joined EXCEPT ![p] = @ \cup {Head(reg)}]
        /\ pc[p] = "collect" /\ status' = status
        /\ \A q \in Procs \ {p} : pc'[q] = pc[q]
    BY <1>11 DEF Collect, Goto, TypeInv
  <2>2. reg \in Seq(Procs) /\ Head(reg) \in Joined /\ \A k \in DOMAIN reg' : reg'[k] \in Joined
    <3>1. reg \in Seq(Procs)
      BY DEF TypeInv
    <3>2. /\ Len(reg) \in Nat /\ Len(reg) > 0 /\ Head(reg) = reg[1] /\ DOMAIN reg = 1..Len(reg)
          /\ DOMAIN Tail(reg) = 1..Len(reg)-1 /\ \A k \in 1..Len(reg)-1 : Tail(reg)[k] = reg[k+1]
      BY <2>1, <3>1, HeadTailProperties, LenProperties, EmptySeq
    <3>3. 1 \in 1..Len(reg) /\ \A k \in 1..Len(reg)-1 : k+1 \in 1..Len(reg)
      BY <3>2
    <3> QED
      BY <1>1, <2>1, <3>1, <3>2, <3>3
  <2>3. \A q \in Procs : joined'[q] \subseteq Joined
    BY <1>1, <2>1, <2>2 DEF TypeInv
  <2>4. CASE Cardinality(joined'[p]) < n
    <3>1. pc'[p] = "collect"
      BY <1>11, <2>4 DEF Collect, Goto, TypeInv
    <3>2. \A q \in Procs : pc'[q] = pc[q]
      BY <2>1, <3>1
    <3>3. Joined' = Joined /\ Unborn' = Unborn
      BY <3>2 DEF Joined, Unborn
    <3>4. \A q \in Procs : Here(q)'
      BY <1>1, <2>1, <2>3, <3>2, <3>3
    <3>5. Elected'
      <4>1. {q \in Procs : pc'[q] = "collect"} = {q \in Procs : pc[q] = "collect"}
        BY <3>2
      <4>2. ~lock' /\ \E c \in Procs : {q \in Procs : pc[q] = "collect"} = {c}
        BY <1>1, <2>1
      <4> QED
        BY <4>1, <4>2
    <3> QED
      BY <1>1, <1>2, <2>1, <2>2, <3>3, <3>4, <3>5 DEF Quiet
  <2>5. CASE ~(Cardinality(joined'[p]) < n)
    <3>1. Joined = Procs
      <4>1. joined'[p] \in SUBSET Procs /\ Joined \in SUBSET Procs /\ joined'[p] \subseteq Joined
        BY <2>3 DEF TypeInv, Joined
      <4>2. IsFiniteSet(joined'[p]) /\ Cardinality(joined'[p]) \in Nat
        BY <4>1, FS_Subset, FS_CardinalityType
      <4>3. Cardinality(joined'[p]) = Cardinality(Procs) => joined'[p] = Procs
        BY <4>1, FS_Subset
      <4>4. Cardinality(joined'[p]) <= Cardinality(Procs)
        BY <4>1, FS_Subset
      <4>5. Cardinality(joined'[p]) = Cardinality(Procs)
        BY <2>5, <4>2, <4>4, Numbers DEF n
      <4> QED
        BY <4>1, <4>3, <4>5
    <3>2. /\ pc'[p] = IF TooFew THEN "abort" ELSE "assign"
      BY <1>11, <2>5 DEF Collect, Goto, TypeInv
    <3>3. ~lock
      BY <1>1, <2>1
    <3>4. \A q \in Procs \ {p} : pc'[q] \in {"elect", "await"}
      <4>1. \A q \in Procs : pc[q] \in {"elect", "await", "collect"}
        BY <3>1 DEF Joined
      <4>2. \A q \in Procs \ {p} : pc[q] # "collect"
        BY <1>1, <2>1, <3>3
      <4> QED
        BY <2>1, <4>1, <4>2
    <3>5. \A q \in Procs : status'[q] = 0 /\ box'[q] = <<>> /\ idx'[q] = 1 /\ my_ch'[q] = "silent"
      <4>1. \A q \in Procs : pc[q] # "exited"
        BY <3>1 DEF Joined
      <4> QED
        BY <1>1, <2>1, <4>1 DEF Quiet
    <3>6. /\ ~removed' /\ ~lock' /\ sung' = <<>> /\ ack' = <<>>
          /\ 1 \in 1..n+1 /\ \A q \in Procs : ~(Place(q) < 1)
      <4>1. \A q \in Procs : Place(q) \in 1..n
        BY Pids
      <4> QED
        BY <1>1, <2>1, <3>3, <4>1, Numbers DEF Quiet
    <3>7. TooFew' = TooFew
      BY SameSong
    <3>8. CASE TooFew
      <4>1. Refusal(p)'
        BY <3>2, <3>4, <3>5, <3>6, <3>7, <3>8 DEF Refusal
      <4> QED
        BY <4>1 DEF Phase
    <3>9. CASE ~TooFew
      <4>1. \A q \in Procs : ~Assigned(q, p)'
        BY <3>2, <3>5, <3>6, <3>9 DEF Assigned
      <4>2. \A q \in Procs \ {p} : Singer(q, p)'
        BY <3>4, <3>5, <4>1 DEF Singer
      <4>3. Assigning(p)'
        BY <3>2, <3>5, <3>6, <3>9, <4>1 DEF Assigning
      <4>4. Performance(p)'
        BY <3>5, <3>6, <3>7, <3>9, <4>1, <4>2, <4>3 DEF Performance
      <4> QED
        BY <4>4 DEF Phase
    <3> QED
      BY <3>8, <3>9
  <2> QED
    BY <2>4, <2>5
<1>12. ASSUME NEW p \in Procs, Main(p)
       PROVE  Phase'
  <2>1. pc[p] \in {"unborn", "register", "elect", "await", "collect"}
    BY <1>1, <1>12, Where
  <2>2. ~TakeAssign(p) /\ ~QueueGone(p)
    BY <1>1 DEF TakeAssign, QueueGone, Quiet
  <2> QED
    BY <1>7, <1>8, <1>9, <1>10, <1>11, <1>12, <2>1, <2>2, Where
<1> QED
  BY <1>4, <1>5, <1>6, <1>12 DEF Next, Terminating

(* Each process is told once, in the order of the pids, and leaves with    *)
(* status 5 when it reads that instead of its part.                        *)
LEMMA RefusalStep ==
  ASSUME TypeInv, NEW c \in Procs, Refusal(c), [Next]_vars, TypeInv', song' = song
  PROVE  Phase'
<1> DEFINE Told(q) ==
      \/ /\ IF q = c THEN pc[q] = "abort" ELSE pc[q] \in {"elect", "await"}
         /\ box[q] = IF Place(q) < idx[c] THEN <<Done>> ELSE <<>>
         /\ status[q] = 0
      \/ /\ q # c /\ pc[q] = "exited"
         /\ box[q] = <<>> /\ Place(q) < idx[c]
         /\ status[q] = 5
<1>1. /\ ~removed /\ ~lock /\ TooFew /\ sung = <<>> /\ ack = <<>>
      /\ pc[c] = "abort" /\ idx[c] \in 1..n+1 /\ \A q \in Procs : Told(q)
  BY DEF Refusal
<1>2. TooFew'
  BY <1>1, SameSong
<1>3. ASSUME ~removed', ~lock', sung' = <<>>, ack' = <<>>,
             pc'[c] = "abort", idx'[c] \in 1..n+1, \A q \in Procs : Told(q)'
      PROVE  Phase'
  <2>1. Refusal(c)'
    BY <1>2, <1>3 DEF Refusal
  <2> QED
    BY <2>1 DEF Phase
<1>4. CASE UNCHANGED vars
  <2>1. UNCHANGED <<removed, lock, sung, ack, pc, idx, box, status>>
    BY <1>4 DEF vars, queue, locals
  <2> QED
    BY <1>1, <1>3, <2>1
<1>5. /\ \A q \in Procs : Place(q) \in 1..n /\ n \in Nat /\ idx[c] \in Int
      /\ \A k \in 1..n, q \in Procs : Place(q) = k <=> q = Pid(k)
      /\ \A k \in 1..n : Pid(k) \in Procs
  BY <1>1, Pids, Pids2, Numbers
<1>6. CASE AbortOne(c)
  <2>1. /\ UNCHANGED <<lock, ack, removed, sung>> /\ idx[c] <= n
        /\ pc'[c] = "abort" /\ status' = status
        /\ \A q \in Procs \ {c} : pc'[q] = pc[q]
        /\ idx'[c] = idx[c] + 1
    BY <1>6, Moved DEF AbortOne, Post, TypeInv, Labels
  <2>2. PICK q0 \in Procs : q0 = Pid(idx[c])
    BY <1>1, <1>5, <2>1
  <2>3. /\ Place(q0) = idx[c] /\ box[q0] = <<>>
        /\ \A q \in Procs \ {q0} : Place(q) # idx[c]
    <3>1. idx[c] \in 1..n
      BY <1>1, <1>5, <2>1
    <3>2. Place(q0) = idx[c] /\ \A q \in Procs \ {q0} : Place(q) # idx[c]
      BY <1>5, <2>2, <3>1
    <3> QED
      BY <1>1, <3>1, <3>2
  <2>4. box'[q0] = <<Done>> /\ \A q \in Procs \ {q0} : box'[q] = box[q]
    <3>1. box' = [box EXCEPT ![q0] = Append(@, Done)]
      BY <1>6, <2>2 DEF AbortOne, Post, Done
    <3> QED
      BY <2>3, <3>1, Mailbox DEF TypeInv
  <2>5. \A q \in Procs : pc'[q] = pc[q]
    BY <1>1, <2>1
  <2>6. Told(q0)'
    <3>1. ~(Place(q0) < idx[c]) /\ Place(q0) < idx'[c]
      BY <1>5, <2>1, <2>3
    <3>2. /\ IF q0 = c THEN pc'[q0] = "abort" ELSE pc'[q0] \in {"elect", "await"}
          /\ status'[q0] = 0
      BY <1>1, <2>1, <2>5, <3>1
    <3> QED
      BY <2>4, <3>1, <3>2
  <2>7. \A q \in Procs \ {q0} : Told(q)'
    <3> TAKE q \in Procs \ {q0}
    <3>1. Place(q) < idx'[c] <=> Place(q) < idx[c]
      BY <1>5, <2>1, <2>3
    <3> QED
      BY <1>1, <2>1, <2>4, <2>5, <3>1
  <2>8. idx'[c] \in 1..n+1
    BY <1>1, <1>5, <2>1
  <2>9. ~removed' /\ ~lock' /\ sung' = <<>> /\ ack' = <<>>
    BY <1>1, <2>1
  <2> HIDE DEF Told
  <2> QED
    BY <1>3, <2>1, <2>6, <2>7, <2>8, <2>9
<1>7. CASE AbortEnd(c)
  <2>1. /\ removed' /\ ~lock' /\ ack' = <<>> /\ sung' = sung /\ idx[c] > n
        /\ pc'[c] = "exited" /\ status'[c] = 3
        /\ \A q \in Procs \ {c} : pc'[q] = pc[q] /\ status'[q] = status[q]
        /\ \A q \in Procs : box'[q] = <<>>
    BY <1>7, Ended DEF AbortEnd, Remove
  <2>2. \A q \in Procs \ {c} : \/ pc'[q] \in {"elect", "await"}
                               \/ pc'[q] = "exited" /\ status'[q] \in {1, 5}
    BY <1>1, <2>1
  <2>3. Refused'
    BY <1>1, <1>2, <2>1, <2>2 DEF Refused, Quiet
  <2> QED
    BY <2>3 DEF Phase
<1>8. ASSUME NEW p \in Procs, NoLock(p)
      PROVE  Phase'
  <2>1. /\ UNCHANGED <<removed, lock, sung, ack, idx, box>> /\ status' = status
        /\ pc[p] = "elect" /\ pc'[p] = "await" /\ \A q \in Procs \ {p} : pc'[q] = pc[q]
    BY <1>8, Moved DEF NoLock, queue, locals, Labels
  <2> QED
    BY <1>1, <1>3, <2>1
<1>9. ASSUME NEW p \in Procs, TakeAssign(p)
      PROVE  Phase'
  <2>1. pc[p] = "await" /\ box[p] # <<>> /\ p # c
    BY <1>1, <1>9 DEF TakeAssign, Goto, Exit
  <2>2. box[p] = <<Done>> /\ Place(p) < idx[c]
    BY <1>1, <2>1
  <2>3. Head(box[p]).kind # "ASSIGN" /\ Tail(box[p]) = <<>>
    BY <2>2, Mailbox DEF Done
  <2>4. /\ UNCHANGED <<removed, lock, sung, ack, idx>>
        /\ pc'[p] = "exited" /\ status'[p] = 5
        /\ \A q \in Procs \ {p} : pc'[q] = pc[q] /\ status'[q] = status[q]
    BY <1>9, <2>3, Ended DEF TakeAssign
  <2>5. box'[p] = <<>> /\ \A q \in Procs \ {p} : box'[q] = box[q]
    BY <1>9, <2>3 DEF TakeAssign, TypeInv
  <2> QED
    BY <1>1, <1>3, <2>1, <2>2, <2>4, <2>5
<1>10. ASSUME NEW p \in Procs, Main(p)
       PROVE  Phase'
  <2>1. IF p = c THEN pc[p] = "abort" ELSE pc[p] \in {"elect", "await", "exited"}
    BY <1>1
  <2>2. ~QueueGone(p) /\ ~TakeLock(p)
    BY <1>1 DEF QueueGone, TakeLock
  <2> QED
    BY <1>6, <1>7, <1>8, <1>9, <1>10, <2>1, <2>2, Where
<1>11. \A p \in Procs : pc[p] \notin {"fork", "unborn"}
  BY <1>1
<1> QED
  BY <1>4, <1>10, <1>11, NoFork

(* Whoever still waits finds the queue gone.                               *)
LEMMA RefusedStep ==
  ASSUME TypeInv, Refused, [Next]_vars, TypeInv', song' = song
  PROVE  Phase'
<1>1. PICK c \in Procs :
       /\ pc[c] = "exited" /\ status[c] = 3
       /\ \A q \in Procs \ {c} : \/ pc[q] \in {"elect", "await"}
                                 \/ pc[q] = "exited" /\ status[q] \in {1, 5}
  BY DEF Refused
<1>2. removed /\ ~lock /\ TooFew' /\ Quiet /\ sung = <<>>
  BY SameSong DEF Refused
<1>3. ASSUME UNCHANGED <<queue, sung>>, pc'[c] = "exited", status'[c] = 3,
             \A q \in Procs \ {c} : \/ pc'[q] \in {"elect", "await"}
                                    \/ pc'[q] = "exited" /\ status'[q] \in {1, 5}
      PROVE  Phase'
  <2>1. Refused'
    BY <1>2, <1>3 DEF Refused, Quiet, queue
  <2> QED
    BY <2>1 DEF Phase
<1>4. CASE UNCHANGED vars
  BY <1>1, <1>3, <1>4 DEF vars
<1>5. ASSUME NEW p \in Procs, NoLock(p)
      PROVE  Phase'
  <2>1. /\ UNCHANGED <<queue, sung>> /\ status' = status
        /\ pc[p] = "elect" /\ pc'[p] = "await" /\ \A q \in Procs \ {p} : pc'[q] = pc[q]
    BY <1>5, Moved DEF NoLock, Labels
  <2> QED
    BY <1>1, <1>3, <2>1
<1>6. ASSUME NEW p \in Procs, pc[p] # "exited", QueueGone(p)
      PROVE  Phase'
  <2>1. /\ UNCHANGED <<queue, sung>> /\ pc'[p] = "exited" /\ status'[p] = 1
        /\ \A q \in Procs \ {p} : pc'[q] = pc[q] /\ status'[q] = status[q]
    BY <1>6, Ended DEF QueueGone
  <2> QED
    BY <1>1, <1>3, <1>6, <2>1
<1>7. ASSUME NEW p \in Procs, Main(p)
      PROVE  Phase'
  <2>1. pc[p] \in {"elect", "await"}
    BY <1>1, <1>7, Where
  <2>2. ~TakeAssign(p) /\ ~TakeLock(p)
    BY <1>2 DEF TakeAssign, TakeLock, Quiet
  <2> QED
    BY <1>5, <1>6, <1>7, <2>1, <2>2, Where
<1>8. \A p \in Procs : pc[p] \notin {"fork", "unborn"}
  BY <1>1
<1> QED
  BY <1>4, <1>7, <1>8, NoFork

LEMMA FinishedStep ==
  ASSUME TypeInv, Finished, [Next]_vars, TypeInv', song' = song
  PROVE  Phase'
<1>1. \A p \in Procs : pc[p] = "exited"
  BY DEF Finished
<1>2. \A p \in Procs : ~Main(p)
  BY <1>1, Where
<1>3. UNCHANGED vars
  BY <1>1, <1>2, NoFork
<1>4. Finished'
  <2>1. UNCHANGED <<removed, lock, ack, box, sung, pc, status>>
    BY <1>3 DEF vars, queue, locals
  <2> QED
    BY <2>1, SameSong DEF Finished, Quiet
<1> QED
  BY <1>4 DEF Phase

LEMMA Kinds ==
  /\ \A q : Part(q).kind = "ASSIGN" /\ Part(q).ch = Voice(q)
  /\ \A k : Turn(k).kind = "TURN" /\ Turn(k).seq = k /\ Turn(k).ch = song[k]
  /\ Done.kind = "DONE" /\ Bye.kind = "BYE"
  /\ \A k : AckOf(k).kind = "ACK"
BY DEF Part, Turn, Done, Bye, AckOf

(* What each place of the conductor means.                                 *)
LEMMA Progress ==
  ASSUME NEW c \in Procs, Performance(c)
  PROVE  /\ ~removed /\ ~lock /\ ~TooFew /\ status[c] = 0
         /\ \A q \in Procs \ {c} : Singer(q, c)
         /\ box[c] = IF Assigned(c, c) THEN <<Part(c)>> ELSE <<>>
         /\ pc[c] \in {"assign", "sing", "ack", "dismiss", "bye"}
         /\ pc[c] = "assign" => Assigning(c)
         /\ pc[c] = "sing" => Singing(c)
         /\ pc[c] = "ack" => Waiting(c)
         /\ pc[c] = "dismiss" => Dismissing(c)
         /\ pc[c] = "bye" => Leaving(c)
  BY DEF Performance, Assigning, Singing, Waiting, Dismissing, Leaving

(* A singer nobody has spoken to stays as it was.                          *)
LEMMA SingerSame ==
  ASSUME NEW c \in Procs, NEW q \in Procs, Singer(q, c), song' = song,
         pc'[q] = pc[q], status'[q] = status[q], box'[q] = box[q],
         my_ch'[q] = my_ch[q], turn'[q] = turn[q],
         Assigned(q, c)' <=> Assigned(q, c), Dismissed(q, c)' <=> Dismissed(q, c),
         Turned(q, c)' <=> Turned(q, c), Turned(q, c) => idx'[c] = idx[c]
  PROVE  Singer(q, c)'
<1>1. Voice(q)' = Voice(q) /\ Part(q)' = Part(q)
  BY SameSong DEF Part
<1>2. Turned(q, c) => Turn(idx[c])' = Turn(idx[c])
  BY DEF Turn
<1>3. Letters(q, c)' = Letters(q, c) /\ Rest(q, c)' = Rest(q, c)
  BY <1>1, <1>2 DEF Letters, Rest
<1> QED
  BY <1>1, <1>3 DEF Singer

LEMMA AssignStep ==
  ASSUME TypeInv, NEW c \in Procs, Performance(c), AssignOne(c) \/ AssignEnd(c),
         TypeInv', song' = song
  PROVE  Performance(c)'
<1>1. /\ ~removed /\ ~lock /\ ~TooFew /\ status[c] = 0
      /\ \A q \in Procs \ {c} : Singer(q, c)
      /\ box[c] = IF Assigned(c, c) THEN <<Part(c)>> ELSE <<>>
      /\ pc[c] = "assign" /\ idx[c] \in 1..n+1 /\ ack = <<>> /\ sung = <<>>
      /\ my_ch[c] = IF Assigned(c, c) THEN Voice(c) ELSE "silent"
  <2>1. pc[c] = "assign"
    BY DEF AssignOne, AssignEnd, Goto
  <2> QED
    BY <2>1, Progress DEF Assigning
<1>2. /\ ~TooFew' /\ \A q : Voice(q)' = Voice(q) /\ Part(q)' = Part(q)
  BY <1>1, SameSong DEF Part
<1>3. /\ \A q \in Procs : Place(q) \in 1..n /\ n \in Nat /\ idx[c] \in Int
      /\ \A k \in 1..n, q \in Procs : Place(q) = k <=> q = Pid(k)
      /\ \A k \in 1..n : Pid(k) \in Procs
  BY <1>1, Pids, Pids2, Numbers
<1>4. \A q \in Procs : /\ Assigned(q, c) <=> Place(q) < idx[c]
                       /\ ~Dismissed(q, c) /\ ~Turned(q, c)
  BY <1>1 DEF Assigned, Dismissed, Turned
<1>5. CASE AssignOne(c)
  <2>1. /\ UNCHANGED <<lock, ack, removed, sung, turn>> /\ idx[c] <= n
        /\ pc'[c] = "assign" /\ status' = status
        /\ \A q \in Procs \ {c} : pc'[q] = pc[q]
        /\ idx'[c] = idx[c] + 1
    BY <1>5, Moved DEF AssignOne, Post, TypeInv, Labels
  <2>2. PICK q0 \in Procs : q0 = Pid(idx[c])
    BY <1>1, <1>3, <2>1
  <2>3. /\ Place(q0) = idx[c] /\ \A q \in Procs \ {q0} : Place(q) # idx[c]
    <3>1. idx[c] \in 1..n
      BY <1>1, <1>3, <2>1
    <3> QED
      BY <1>3, <2>2, <3>1
  <2>4. /\ ~Assigned(q0, c) /\ Assigned(q0, c)'
        /\ \A q \in Procs \ {q0} : Assigned(q, c)' <=> Assigned(q, c)
        /\ \A q \in Procs : ~Dismissed(q, c)' /\ ~Turned(q, c)'
    <3>1. \A q \in Procs : /\ Assigned(q, c)' <=> Place(q) < idx'[c]
                           /\ ~Dismissed(q, c)' /\ ~Turned(q, c)'
      BY <2>1 DEF Assigned, Dismissed, Turned
    <3> QED
      BY <1>3, <1>4, <2>1, <2>3, <3>1
  <2>5. box[q0] = <<>>
    BY <1>1, <1>4, <2>4 DEF Singer
  <2>6. box'[q0] = <<Part(q0)>> /\ \A q \in Procs \ {q0} : box'[q] = box[q]
    <3>1. box' = [box EXCEPT ![q0] = Append(@, Part(q0))]
      BY <1>5, <2>2 DEF AssignOne, Post, Part
    <3> QED
      BY <2>5, <3>1, Mailbox DEF TypeInv
  <2>7. /\ \A q \in Procs \ {c} : my_ch'[q] = my_ch[q]
        /\ my_ch'[c] = IF q0 = c THEN Voice(c) ELSE my_ch[c]
    BY <1>5, <2>2 DEF AssignOne, TypeInv
  <2>8. \A q \in Procs \ {c} : Singer(q, c)'
    <3> TAKE q \in Procs \ {c}
    <3>1. CASE q = q0
      <4>1. status[q] = 0 /\ pc[q] \in {"elect", "await"}
        BY <1>1, <1>4, <2>4, <3>1 DEF Singer
      <4>2. Letters(q, c)' = <<Part(q)>>
        BY <1>2, <2>4 DEF Letters
      <4> QED
        BY <2>1, <2>4, <2>6, <3>1, <4>1, <4>2 DEF Singer
    <3>2. CASE q # q0
      BY <1>1, <1>4, <2>1, <2>4, <2>6, <2>7, <3>2, SingerSame
    <3> QED
      BY <3>1, <3>2
  <2>9. box'[c] = IF Assigned(c, c)' THEN <<Part(c)'>> ELSE <<>>
    BY <1>1, <1>2, <2>4, <2>6
  <2>10. my_ch'[c] = IF Assigned(c, c)' THEN Voice(c)' ELSE "silent"
    BY <1>1, <1>2, <2>4, <2>7
  <2>11. Assigning(c)'
    <3>1. idx'[c] \in 1..n+1
      BY <1>1, <1>3, <2>1
    <3> QED
      BY <1>1, <2>1, <2>10, <3>1 DEF Assigning
  <2> QED
    BY <1>1, <1>2, <2>1, <2>8, <2>9, <2>11 DEF Performance
<1>6. CASE AssignEnd(c)
  <2>1. /\ UNCHANGED <<lock, ack, removed, box, sung, turn, my_ch>> /\ idx[c] > n
        /\ pc'[c] = "sing" /\ status' = status
        /\ \A q \in Procs \ {c} : pc'[q] = pc[q]
        /\ idx'[c] = 1
    BY <1>6, Moved DEF AssignEnd, TypeInv, Labels, queue
  <2>2. \A q \in Procs : /\ Assigned(q, c) /\ Assigned(q, c)'
                         /\ ~Dismissed(q, c)' /\ ~Turned(q, c)'
    <3>1. \A q \in Procs : Place(q) < idx[c]
      BY <1>3, <2>1
    <3> QED
      BY <1>4, <2>1, <3>1 DEF Assigned, Dismissed, Turned
  <2>3. \A q \in Procs \ {c} : Singer(q, c)'
    BY <1>1, <1>4, <2>1, <2>2, SingerSame
  <2>4. Singing(c)'
    <3>1. Len(song) \in Nat /\ 1 \in 1..Len(song)+1
      BY SongFacts DEF TypeInv
    <3>2. Sung(0)'
      BY <1>1, <2>1 DEF Sung
    <3>3. my_ch'[c] = Voice(c)'
      BY <1>1, <1>2, <2>1, <2>2
    <3>4. Sung(idx[c] - 1)'
      BY <2>1, <3>2 DEF Sung
    <3> QED
      BY <1>1, <2>1, <3>1, <3>3, <3>4 DEF Singing
  <2>5. box'[c] = IF Assigned(c, c)' THEN <<Part(c)'>> ELSE <<>>
    BY <1>1, <1>2, <2>1, <2>2
  <2> QED
    BY <1>1, <1>2, <2>1, <2>3, <2>4, <2>5 DEF Performance
<1> QED
  BY <1>5, <1>6

(* The song so far, and one character more.                                *)
LEMMA SungMore ==
  ASSUME song \in Songs, song' = song, NEW k \in 1..Len(song),
         Sung(k - 1), sung' = Append(sung, song[k])
  PROVE  Sung(k)'
<1>1. k \in Nat /\ k - 1 \in Nat /\ song[k] \in STRING /\ sung \in Seq(STRING) /\ Len(sung) = k - 1
  BY SongFacts DEF Sung
<1>2. /\ sung' \in Seq(STRING) /\ Len(sung') = k
      /\ \A j \in 1..k-1 : sung'[j] = sung[j] /\ sung'[k] = song[k]
  BY <1>1, AppendProperties
<1>3. ASSUME NEW j \in 1..k
      PROVE  sung'[j] = song'[j]
  <2>1. j \in 1..k-1 \/ j = k
    BY <1>1
  <2>2. sung'[k] = song[k]
    BY <1>1, AppendProperties
  <2> QED
    BY <1>2, <2>1, <2>2 DEF Sung
<1> QED
  BY <1>2, <1>3 DEF Sung

(* When the last character has been heard, what was heard is the song.     *)
LEMMA SungAll ==
  ASSUME song \in Songs, Sung(Len(song))
  PROVE  sung = song
<1>1. song \in Seq(STRING) /\ sung \in Seq(STRING) /\ Len(sung) = Len(song)
  <2>1. song \in Seq(STRING \ {"silent"}) /\ STRING \ {"silent"} \subseteq STRING
    BY SongFacts
  <2>2. Seq(STRING \ {"silent"}) \subseteq Seq(STRING)
    BY SeqMonotonic
  <2> QED
    BY <2>1, <2>2 DEF Sung
<1>2. \A k \in 1..Len(song) : sung[k] = song[k]
  BY DEF Sung
<1> QED
  BY <1>1, <1>2, SeqEqual

LEMMA SingStep ==
  ASSUME TypeInv, NEW c \in Procs, Performance(c), SingSelf(c) \/ GiveTurn(c) \/ EndSong(c),
         TypeInv', song' = song
  PROVE  Performance(c)'
<1>1. /\ ~removed /\ ~lock /\ ~TooFew /\ status[c] = 0
      /\ \A q \in Procs \ {c} : Singer(q, c)
      /\ box[c] = IF Assigned(c, c) THEN <<Part(c)>> ELSE <<>>
      /\ pc[c] = "sing" /\ idx[c] \in 1..Len(song)+1 /\ ack = <<>> /\ Sung(idx[c] - 1)
      /\ my_ch[c] = Voice(c)
  <2>1. pc[c] = "sing"
    BY DEF SingSelf, GiveTurn, EndSong, Goto
  <2> QED
    BY <2>1, Progress DEF Singing
<1>2. /\ ~TooFew' /\ \A q : Voice(q)' = Voice(q) /\ Part(q)' = Part(q)
      /\ Heard!Full(song)' = Heard!Full(song)
  BY <1>1, SameSong DEF Part
<1>3. song \in Songs /\ Len(song) \in Nat /\ idx[c] \in Int
  BY <1>1, SongFacts DEF TypeInv
<1>4. \A q \in Procs : Assigned(q, c) /\ ~Dismissed(q, c) /\ ~Turned(q, c)
  BY <1>1 DEF Assigned, Dismissed, Turned
<1>5. ASSUME idx[c] <= Len(song)
      PROVE  /\ idx[c] \in 1..Len(song) /\ Current(c) = song[idx[c]] /\ Current(c) \in Chars
             /\ Current(c) # "silent" /\ Owner(Current(c)) \in Procs
             /\ Voice(Owner(Current(c))) = Current(c)
  <2>1. idx[c] \in 1..Len(song) /\ Current(c) = song[idx[c]]
    BY <1>1, <1>3, <1>5 DEF Current
  <2>2. Current(c) \in Chars /\ Current(c) # "silent"
    BY <1>3, <2>1, SongFacts
  <2> QED
    BY <1>1, <1>3, <2>1, <2>2, Owners
<1>6. CASE SingSelf(c)
  <2>1. /\ UNCHANGED <<queue, turn, my_ch>> /\ idx[c] <= Len(song)
        /\ pc'[c] = "sing" /\ status' = status
        /\ \A q \in Procs \ {c} : pc'[q] = pc[q]
        /\ idx'[c] = idx[c] + 1
    BY <1>6, Moved DEF SingSelf, TypeInv, Labels
  <2>2. sung' = Append(sung, song[idx[c]])
    <3>1. my_ch[c] # "silent"
      BY <1>1, <1>5, <1>6, <2>1 DEF SingSelf
    <3> QED
      BY <1>5, <1>6, <2>1, <3>1 DEF SingSelf
  <2>3. \A q \in Procs : Assigned(q, c)' /\ ~Dismissed(q, c)' /\ ~Turned(q, c)'
    BY <2>1 DEF Assigned, Dismissed, Turned
  <2>4. \A q \in Procs \ {c} : Singer(q, c)'
    BY <1>1, <1>4, <2>1, <2>3, SingerSame DEF queue
  <2>5. Singing(c)'
    <3>1. PICK k \in 1..Len(song) : k = idx[c]
      BY <1>5, <2>1
    <3>2. Sung(k)'
      BY <1>1, <1>3, <2>2, <3>1, SungMore
    <3>3. Sung(idx[c] - 1)' /\ idx'[c] \in 1..Len(song')+1
      BY <1>3, <2>1, <3>1, <3>2 DEF Sung
    <3> QED
      BY <1>1, <1>2, <2>1, <3>3 DEF Singing, queue
  <2>6. box'[c] = IF Assigned(c, c)' THEN <<Part(c)'>> ELSE <<>>
    BY <1>1, <1>2, <1>4, <2>1, <2>3 DEF queue
  <2> QED
    BY <1>1, <1>2, <2>1, <2>4, <2>5, <2>6 DEF Performance, queue
<1>7. CASE GiveTurn(c)
  <2>1. /\ UNCHANGED <<lock, reg, ack, removed, joined, idx, turn, my_ch, sung>> /\ idx[c] <= Len(song)
        /\ pc'[c] = "ack" /\ status' = status
        /\ \A q \in Procs \ {c} : pc'[q] = pc[q]
    BY <1>7, Moved DEF GiveTurn, Post, Labels, locals
  <2>2. PICK q0 \in Procs \ {c} : q0 = Owner(song[idx[c]])
    BY <1>5, <1>7, <2>1 DEF GiveTurn
  <2>3. \A q \in Procs : Assigned(q, c)' /\ ~Dismissed(q, c)' /\ (Turned(q, c)' <=> q = q0)
    <3>1. Owner(song[idx[c]])' = q0
      <4>1. Owner(song[idx[c]])' = Owner(song[idx[c]])
        BY <2>1 DEF Owner, Rank
      <4> QED
        BY <2>2, <4>1
    <3> QED
      BY <1>1, <2>1, <3>1 DEF Assigned, Dismissed, Turned
  <2>4. box' = [box EXCEPT ![q0] = Append(@, Turn(idx[c]))]
    BY <1>5, <1>7, <2>1, <2>2 DEF GiveTurn, Post, Turn
  <2>5. box'[q0] = Append(box[q0], Turn(idx[c])) /\ \A q \in Procs \ {q0} : box'[q] = box[q]
    BY <2>4 DEF TypeInv
  <2>6. Singer(q0, c)'
    <3>1. /\ Letters(q0, c) = <<Part(q0)>> /\ Rest(q0, c) = <<>>
          /\ Letters(q0, c)' = <<Part(q0), Turn(idx[c])>> /\ Rest(q0, c)' = <<Turn(idx[c])>>
      BY <1>2, <1>4, <2>1, <2>3 DEF Letters, Rest, Turn
    <3>2. /\ status[q0] = 0
          /\ \/ pc[q0] \in {"elect", "await"} /\ box[q0] = <<Part(q0)>>
             \/ pc[q0] = "listen" /\ box[q0] = <<>> /\ my_ch[q0] = Voice(q0)
      BY <1>1, <1>4, <3>1 DEF Singer
    <3>3. CASE pc[q0] \in {"elect", "await"} /\ box[q0] = <<Part(q0)>>
      BY <2>1, <2>3, <2>5, <3>1, <3>2, <3>3, Mailbox DEF Singer
    <3>4. CASE pc[q0] = "listen" /\ box[q0] = <<>> /\ my_ch[q0] = Voice(q0)
      BY <1>2, <2>1, <2>3, <2>5, <3>1, <3>2, <3>4, Mailbox DEF Singer
    <3> QED
      BY <3>2, <3>3, <3>4
  <2>7. \A q \in Procs \ {c} : Singer(q, c)'
    <3> TAKE q \in Procs \ {c}
    <3>1. CASE q # q0
      BY <1>1, <1>4, <2>1, <2>3, <2>5, <3>1, SingerSame
    <3> QED
      BY <2>6, <3>1
  <2>8. Waiting(c)'
    <3>1. Owner(song[idx[c]])' = q0
      BY <2>3, <2>2 DEF Turned
    <3>2. pc'[q0] # "acking"
      BY <1>1, <1>4, <2>1 DEF Singer
    <3>3. Sung(idx[c] - 1)' /\ idx'[c] \in 1..Len(song')
      BY <1>1, <1>5, <2>1 DEF Sung
    <3> QED
      BY <1>1, <1>2, <2>1, <3>1, <3>2, <3>3 DEF Waiting
  <2>9. box'[c] = IF Assigned(c, c)' THEN <<Part(c)'>> ELSE <<>>
    BY <1>1, <1>2, <1>4, <2>3, <2>5
  <2> QED
    BY <1>1, <1>2, <2>1, <2>7, <2>8, <2>9 DEF Performance
<1>8. CASE EndSong(c)
  <2>1. /\ UNCHANGED <<queue, turn, my_ch>> /\ idx[c] > Len(song)
        /\ pc'[c] = "dismiss" /\ status' = status
        /\ \A q \in Procs \ {c} : pc'[q] = pc[q]
        /\ idx'[c] = 1
    BY <1>8, Moved DEF EndSong, TypeInv, Labels
  <2>2. sung' = Heard!Full(song')
    <3>1. Sung(Len(song))
      <4>1. idx[c] - 1 = Len(song)
        BY <1>1, <1>3, <2>1
      <4> QED
        BY <1>1, <4>1
    <3>2. sung = song
      BY <1>3, <3>1, SungAll
    <3> QED
      BY <1>8, <3>2 DEF EndSong, Heard!Full
  <2>3. \A q \in Procs : Assigned(q, c)' /\ ~Dismissed(q, c)' /\ ~Turned(q, c)'
    <3>1. \A q \in Procs : ~(Place(q) < 1)
      <4>1. \A q \in Procs : Place(q) \in 1..n /\ n \in Nat
        BY Pids, Numbers
      <4> QED
        BY <4>1
    <3> QED
      BY <2>1, <3>1 DEF Assigned, Dismissed, Turned
  <2>4. \A q \in Procs \ {c} : Singer(q, c)'
    BY <1>1, <1>4, <2>1, <2>3, SingerSame DEF queue
  <2>5. Dismissing(c)'
    <3>1. Gone' = {}
      BY <1>1, <1>4, <2>1 DEF Gone, Singer
    <3>2. Cardinality(Gone') = 0 /\ <<>> \in Seq({Bye}) /\ Len(<<>>) = 0
      BY <3>1, FS_EmptySet, EmptySeq
    <3>3. 1 \in 1..n+1
      BY Numbers
    <3> QED
      BY <1>1, <2>1, <2>2, <3>2, <3>3 DEF Dismissing, queue
  <2>6. box'[c] = IF Assigned(c, c)' THEN <<Part(c)'>> ELSE <<>>
    BY <1>1, <1>2, <1>4, <2>1, <2>3 DEF queue
  <2> QED
    BY <1>1, <1>2, <2>1, <2>4, <2>5, <2>6 DEF Performance, queue
<1> QED
  BY <1>6, <1>7, <1>8

LEMMA AckStep ==
  ASSUME TypeInv, NEW c \in Procs, Performance(c), TakeAck(c), TypeInv', song' = song
  PROVE  Performance(c)'
<1>1. /\ ~removed /\ ~lock /\ ~TooFew /\ status[c] = 0
      /\ \A q \in Procs \ {c} : Singer(q, c)
      /\ box[c] = IF Assigned(c, c) THEN <<Part(c)>> ELSE <<>>
      /\ pc[c] = "ack" /\ Waiting(c)
  <2>1. pc[c] = "ack"
    BY DEF TakeAck, Goto, Exit
  <2> QED
    BY <2>1, Progress
<1>2. /\ ~TooFew' /\ \A q : Voice(q)' = Voice(q) /\ Part(q)' = Part(q)
  BY <1>1, SameSong DEF Part
<1>3. /\ ack = <<AckOf(idx[c])>> /\ idx[c] \in 1..Len(song) /\ Sung(idx[c])
      /\ my_ch[c] = Voice(c)
  BY <1>1, Mailbox DEF Waiting, TakeAck
<1>4. /\ UNCHANGED <<lock, box, removed, my_ch, turn, sung>> /\ ack' = <<>>
      /\ pc'[c] = "sing" /\ status' = status
      /\ \A q \in Procs \ {c} : pc'[q] = pc[q]
      /\ idx'[c] = idx[c] + 1
  <2>1. Head(ack) = [kind |-> "ACK", seq |-> idx[c]] /\ Tail(ack) = <<>>
    BY <1>3, Mailbox DEF AckOf
  <2> QED
    BY <2>1, Moved DEF TakeAck, TypeInv, Labels
<1>5. \A q \in Procs : /\ Assigned(q, c) /\ ~Dismissed(q, c) /\ ~Turned(q, c)
                       /\ Assigned(q, c)' /\ ~Dismissed(q, c)' /\ ~Turned(q, c)'
  BY <1>1, <1>3, <1>4, Mailbox DEF Assigned, Dismissed, Turned
<1>6. \A q \in Procs \ {c} : Singer(q, c)'
  BY <1>1, <1>4, <1>5, SingerSame
<1>7. Singing(c)'
  <2>1. Len(song) \in Nat
    BY SongFacts DEF TypeInv
  <2>2. Sung(idx[c] - 1)' /\ idx'[c] \in 1..Len(song')+1
    BY <1>3, <1>4, <2>1 DEF Sung
  <2> QED
    BY <1>2, <1>3, <1>4, <2>2 DEF Singing
<1>8. box'[c] = IF Assigned(c, c)' THEN <<Part(c)'>> ELSE <<>>
  BY <1>1, <1>2, <1>4, <1>5
<1> QED
  BY <1>1, <1>2, <1>4, <1>6, <1>7, <1>8 DEF Performance

LEMMA DismissStep ==
  ASSUME TypeInv, NEW c \in Procs, Performance(c), DismissOne(c) \/ DismissEnd(c),
         TypeInv', song' = song
  PROVE  Performance(c)'
<1>1. /\ ~removed /\ ~lock /\ ~TooFew /\ status[c] = 0
      /\ \A q \in Procs \ {c} : Singer(q, c)
      /\ box[c] = IF Assigned(c, c) THEN <<Part(c)>> ELSE <<>>
      /\ pc[c] = "dismiss" /\ idx[c] \in 1..n+1
      /\ ack \in Seq({Bye}) /\ Len(ack) = Cardinality(Gone)
      /\ sung = Heard!Full(song)
  <2>1. pc[c] = "dismiss"
    BY DEF DismissOne, DismissEnd, Goto
  <2> QED
    BY <2>1, Progress DEF Dismissing
<1>2. /\ ~TooFew' /\ \A q : Voice(q)' = Voice(q) /\ Part(q)' = Part(q)
      /\ Heard!Full(song)' = Heard!Full(song) /\ Bye' = Bye
  BY <1>1, SameSong DEF Part, Bye
<1>3. /\ \A q \in Procs : Place(q) \in 1..n /\ n \in Nat /\ idx[c] \in Int
      /\ \A k \in 1..n, q \in Procs : Place(q) = k <=> q = Pid(k)
      /\ \A k \in 1..n : Pid(k) \in Procs
  BY <1>1, Pids, Pids2, Numbers
<1>4. \A q \in Procs : /\ Dismissed(q, c) <=> Place(q) < idx[c]
                       /\ Assigned(q, c) /\ ~Turned(q, c)
  BY <1>1 DEF Assigned, Dismissed, Turned
<1>5. CASE DismissOne(c)
  <2>1. /\ UNCHANGED <<my_ch, turn, sung>> /\ idx[c] <= n
        /\ pc'[c] = "dismiss" /\ status' = status
        /\ \A q \in Procs \ {c} : pc'[q] = pc[q]
        /\ idx'[c] = idx[c] + 1
    BY <1>5, Moved DEF DismissOne, TypeInv, Labels
  <2>2. UNCHANGED <<lock, ack, removed>>
    BY <1>5 DEF DismissOne, Post, queue
  <2>3. PICK q0 \in Procs : q0 = Pid(idx[c])
    BY <1>1, <1>3, <2>1
  <2>4. Place(q0) = idx[c] /\ \A q \in Procs \ {q0} : Place(q) # idx[c]
    <3>1. idx[c] \in 1..n
      BY <1>1, <1>3, <2>1
    <3> QED
      BY <1>3, <2>3, <3>1
  <2>5. /\ ~Dismissed(q0, c) /\ Dismissed(q0, c)'
        /\ \A q \in Procs \ {q0} : Dismissed(q, c)' <=> Dismissed(q, c)
        /\ \A q \in Procs : Assigned(q, c)' /\ ~Turned(q, c)'
    <3>1. \A q \in Procs : /\ Dismissed(q, c)' <=> Place(q) < idx'[c]
                           /\ Assigned(q, c)' /\ ~Turned(q, c)'
      BY <2>1 DEF Assigned, Dismissed, Turned
    <3> QED
      BY <1>3, <1>4, <2>1, <2>4, <3>1
  <2>6. /\ q0 # c => box'[q0] = Append(box[q0], Done)
        /\ box'[c] = box[c] /\ \A q \in Procs \ {q0} : box'[q] = box[q]
    <3>1. box' = IF q0 = c THEN box ELSE [box EXCEPT ![q0] = Append(@, Done)]
      BY <1>5, <2>3 DEF DismissOne, Post, Done, queue
    <3> QED
      BY <3>1 DEF TypeInv
  <2>7. \A q \in Procs \ {c} : Singer(q, c)'
    <3> TAKE q \in Procs \ {c}
    <3>1. CASE q = q0
      <4>1. /\ Letters(q, c) = <<Part(q)>> /\ Rest(q, c) = <<>>
            /\ Letters(q, c)' = <<Part(q), Done>> /\ Rest(q, c)' = <<Done>>
        BY <1>2, <1>4, <2>5, <3>1 DEF Letters, Rest, Done
      <4>2. /\ status[q] = 0
            /\ \/ pc[q] \in {"elect", "await"} /\ box[q] = <<Part(q)>>
               \/ pc[q] = "listen" /\ box[q] = <<>> /\ my_ch[q] = Voice(q)
        BY <1>1, <1>4, <2>5, <3>1, <4>1 DEF Singer
      <4>3. CASE pc[q] \in {"elect", "await"} /\ box[q] = <<Part(q)>>
        BY <2>1, <2>5, <2>6, <3>1, <4>1, <4>2, <4>3, Mailbox DEF Singer
      <4>4. CASE pc[q] = "listen" /\ box[q] = <<>> /\ my_ch[q] = Voice(q)
        BY <1>2, <2>1, <2>5, <2>6, <3>1, <4>1, <4>2, <4>4, Mailbox DEF Singer
      <4> QED
        BY <4>2, <4>3, <4>4
    <3>2. CASE q # q0
      BY <1>1, <1>4, <2>1, <2>5, <2>6, <3>2, SingerSame
    <3> QED
      BY <3>1, <3>2
  <2>8. Dismissing(c)'
    <3>1. Gone' = Gone
      BY <1>1, <2>1 DEF Gone
    <3>2. idx'[c] \in 1..n+1
      BY <1>1, <1>3, <2>1
    <3> QED
      BY <1>1, <1>2, <2>1, <2>2, <3>1, <3>2 DEF Dismissing
  <2>9. box'[c] = IF Assigned(c, c)' THEN <<Part(c)'>> ELSE <<>>
    BY <1>1, <1>2, <1>4, <2>5, <2>6
  <2> QED
    BY <1>1, <1>2, <2>1, <2>2, <2>7, <2>8, <2>9 DEF Performance
<1>6. CASE DismissEnd(c)
  <2>1. /\ UNCHANGED <<queue, my_ch, turn, sung>> /\ idx[c] > n
        /\ pc'[c] = "bye" /\ status' = status
        /\ \A q \in Procs \ {c} : pc'[q] = pc[q]
        /\ idx'[c] = n - 1
    BY <1>6, Moved DEF DismissEnd, TypeInv, Labels
  <2>2. \A q \in Procs : /\ Dismissed(q, c) /\ Dismissed(q, c)'
                         /\ Assigned(q, c)' /\ ~Turned(q, c)'
    <3>1. \A q \in Procs : Place(q) < idx[c]
      BY <1>3, <2>1
    <3> QED
      BY <1>4, <2>1, <3>1 DEF Assigned, Dismissed, Turned
  <2>3. \A q \in Procs \ {c} : Singer(q, c)'
    BY <1>1, <1>4, <2>1, <2>2, SingerSame DEF queue
  <2>4. Leaving(c)'
    <3>1. Gone' = Gone
      BY <1>1, <2>1 DEF Gone
    <3>2. Len(ack) \in Nat
      BY <1>1, LenProperties
    <3> QED
      BY <1>1, <1>2, <1>3, <2>1, <3>1, <3>2 DEF Leaving, queue
  <2>5. box'[c] = IF Assigned(c, c)' THEN <<Part(c)'>> ELSE <<>>
    BY <1>1, <1>2, <1>4, <2>1, <2>2 DEF queue
  <2> QED
    BY <1>1, <1>2, <2>1, <2>3, <2>4, <2>5 DEF Performance, queue
<1> QED
  BY <1>5, <1>6

(* The conductor counts the goodbyes; when none is missing everyone else   *)
(* has left, and the queue goes last.                                      *)
LEMMA ByeStep ==
  ASSUME TypeInv, NEW c \in Procs, Performance(c), TakeBye(c) \/ ByeEnd(c),
         TypeInv', song' = song
  PROVE  Performance(c)' \/ Finished'
<1>1. /\ ~removed /\ ~lock /\ ~TooFew /\ status[c] = 0
      /\ \A q \in Procs \ {c} : Singer(q, c)
      /\ box[c] = IF Assigned(c, c) THEN <<Part(c)>> ELSE <<>>
      /\ pc[c] = "bye"
      /\ ack \in Seq({Bye}) /\ idx[c] + Cardinality(Gone) = n - 1 + Len(ack)
      /\ sung = Heard!Full(song)
  <2>1. pc[c] = "bye"
    BY DEF TakeBye, ByeEnd, Goto, Exit
  <2> QED
    BY <2>1, Progress DEF Leaving
<1>2. /\ ~TooFew' /\ \A q : Voice(q)' = Voice(q) /\ Part(q)' = Part(q)
      /\ Heard!Full(song)' = Heard!Full(song) /\ Bye' = Bye
  BY <1>1, SameSong DEF Part, Bye
<1>3. /\ n \in Nat /\ idx[c] \in Nat /\ Len(ack) \in Nat
      /\ IsFiniteSet(Gone) /\ Cardinality(Gone) \in Nat
  <2>1. IsFiniteSet(Gone)
    BY BogatyrAssumption, FS_Subset DEF Gone
  <2> QED
    BY <1>1, <2>1, Numbers, LenProperties, FS_CardinalityType DEF TypeInv
<1>4. CASE TakeBye(c)
  <2>1. Head(ack) = Bye /\ Tail(ack) \in Seq({Bye}) /\ Len(Tail(ack)) = Len(ack) - 1
    BY <1>1, <1>4, HeadTailProperties DEF TakeBye
  <2>2. /\ UNCHANGED <<lock, box, removed, my_ch, turn, sung>> /\ ack' = Tail(ack)
        /\ pc'[c] = "bye" /\ status' = status
        /\ \A q \in Procs \ {c} : pc'[q] = pc[q]
        /\ idx'[c] = idx[c] - 1
    BY <1>4, <2>1, Moved, Kinds DEF TakeBye, TypeInv, Labels
  <2>3. \A q \in Procs : /\ Dismissed(q, c) /\ Assigned(q, c) /\ ~Turned(q, c)
                         /\ Dismissed(q, c)' /\ Assigned(q, c)' /\ ~Turned(q, c)'
    BY <1>1, <2>2 DEF Assigned, Dismissed, Turned
  <2>4. \A q \in Procs \ {c} : Singer(q, c)'
    BY <1>1, <2>2, <2>3, SingerSame
  <2>5. Leaving(c)'
    <3>1. Gone' = Gone
      BY <1>1, <2>2 DEF Gone
    <3>2. idx'[c] + Cardinality(Gone) = n - 1 + Len(ack')
      BY <1>1, <1>3, <2>1, <2>2
    <3> QED
      BY <1>1, <1>2, <2>1, <2>2, <3>1, <3>2 DEF Leaving
  <2>6. box'[c] = IF Assigned(c, c)' THEN <<Part(c)'>> ELSE <<>>
    BY <1>1, <1>2, <2>2, <2>3
  <2>7. Performance(c)'
    BY <1>1, <1>2, <2>2, <2>4, <2>5, <2>6 DEF Performance
  <2> QED
    BY <2>7
<1>5. CASE ByeEnd(c)
  <2>1. /\ removed' /\ ~lock' /\ ack' = <<>> /\ sung' = sung /\ idx[c] = 0
        /\ pc'[c] = "exited" /\ status'[c] = 0
        /\ \A q \in Procs \ {c} : pc'[q] = pc[q] /\ status'[q] = status[q]
        /\ \A q \in Procs : box'[q] = <<>>
    BY <1>5, Ended DEF ByeEnd, Remove
  <2>2. Gone = Procs \ {c}
    <3>1. Gone \in SUBSET (Procs \ {c})
      BY <1>1 DEF Gone
    <3>2. IsFiniteSet(Procs \ {c}) /\ Cardinality(Procs \ {c}) = n - 1
      BY BogatyrAssumption, FS_RemoveElement DEF n
    <3>3. Cardinality(Gone) <= n - 1
      BY <3>1, <3>2, FS_Subset
    <3>4. Cardinality(Gone) = n - 1
      BY <1>1, <1>3, <2>1, <3>3
    <3> QED
      BY <3>1, <3>2, <3>4, FS_Subset
  <2>3. \A q \in Procs : pc'[q] = "exited" /\ status'[q] = 0
    <3> TAKE q \in Procs
    <3>1. CASE q # c
      <4>1. pc[q] = "exited" /\ status[q] = 0
        BY <1>1, <2>2, <3>1 DEF Gone, Singer
      <4> QED
        BY <2>1, <3>1, <4>1
    <3> QED
      BY <2>1, <3>1
  <2>4. Finished'
    BY <1>1, <1>2, <2>1, <2>3 DEF Finished, Quiet
  <2> QED
    BY <2>4
<1> QED
  BY <1>4, <1>5

(* A step of a singer that the audience and the conductor do not notice.   *)
LEMMA Unnoticed ==
  ASSUME TypeInv, NEW c \in Procs, Performance(c), song' = song,
         UNCHANGED <<removed, lock, ack, sung, idx>>,
         pc'[c] = pc[c], my_ch'[c] = my_ch[c], status'[c] = status[c], box'[c] = box[c],
         Gone' = Gone, \A r \in Procs : pc'[r] = "acking" <=> pc[r] = "acking",
         \A r \in Procs \ {c} : Singer(r, c)'
  PROVE  Performance(c)'
<1>1. /\ TooFew' = TooFew /\ \A p : Voice(p)' = Voice(p) /\ Part(p)' = Part(p)
      /\ Heard!Full(song)' = Heard!Full(song)
      /\ (Assigned(c, c)' <=> Assigned(c, c)) /\ Bye' = Bye
      /\ Sung(idx[c])' = Sung(idx[c]) /\ Sung(idx[c] - 1)' = Sung(idx[c] - 1)
  BY SameSong DEF Part, Assigned, Bye, Sung
<1>2. pc[c] = "assign" => Assigning(c)'
  BY <1>1, Progress DEF Assigning
<1>3. pc[c] = "sing" => Singing(c)'
  BY <1>1, Progress DEF Singing
<1>4. ASSUME pc[c] = "ack"
      PROVE  Waiting(c)'
  <2>1. Waiting(c) /\ ~TooFew
    BY <1>4, Progress
  <2>2. PICK o \in Procs : o = Owner(song[idx[c]])
    BY <2>1, SongFacts, Owners DEF Waiting, TypeInv
  <2>3. Owner(song[idx[c]])' = o
    BY <2>2 DEF Owner, Rank
  <2>4. /\ pc[c] = "ack" /\ idx[c] \in 1..Len(song) /\ o # c
        /\ ack \in {<<>>, <<AckOf(idx[c])>>} /\ my_ch[c] = Voice(c)
        /\ Sung(IF ack = <<>> /\ pc[o] # "acking" THEN idx[c] - 1 ELSE idx[c])
    BY <2>1, <2>2 DEF Waiting
  <2>5. Sung(IF ack = <<>> /\ pc[o] # "acking" THEN idx[c] - 1 ELSE idx[c])'
    BY <1>1, <2>4 DEF Sung
  <2>6. AckOf(idx[c])' = AckOf(idx[c]) /\ pc'[o] = "acking" <=> pc[o] = "acking"
    BY DEF AckOf
  <2> QED
    BY <1>1, <2>3, <2>4, <2>5, <2>6 DEF Waiting
<1>5. pc[c] = "dismiss" => Dismissing(c)'
  BY <1>1, Progress DEF Dismissing
<1>6. pc[c] = "bye" => Leaving(c)'
  BY <1>1, Progress DEF Leaving
<1>7. box'[c] = IF Assigned(c, c)' THEN <<Part(c)'>> ELSE <<>>
  BY <1>1, Progress
<1> QED
  BY <1>1, <1>2, <1>3, <1>4, <1>5, <1>6, <1>7, Progress DEF Performance

LEMMA SingerStep ==
  ASSUME TypeInv, NEW c \in Procs, Performance(c), NEW q \in Procs \ {c},
         NoLock(q) \/ TakeAssign(q) \/ TakeTurn(q) \/ SendAck(q) \/ TakeDone(q) \/ SendBye(q),
         TypeInv', song' = song
  PROVE  Performance(c)'
<1>1. /\ ~removed /\ ~lock /\ ~TooFew /\ status[c] = 0
      /\ \A r \in Procs \ {c} : Singer(r, c)
      /\ pc[c] \in {"assign", "sing", "ack", "dismiss", "bye"}
  BY Progress
<1>2. /\ ~TooFew' /\ \A r : Voice(r)' = Voice(r) /\ Part(r)' = Part(r)
      /\ Heard!Full(song)' = Heard!Full(song) /\ Bye' = Bye
  BY <1>1, SameSong DEF Part, Bye
<1>3. UNCHANGED <<idx, removed, lock>>
  BY DEF NoLock, TakeAssign, TakeTurn, SendAck, TakeDone, SendBye, queue, locals
<1>4. song \in Songs
  BY DEF TypeInv
\* steps that leave ack alone
<1>5. ASSUME UNCHANGED ack, pc'[c] = pc[c]
      PROVE  \A r \in Procs : /\ Assigned(r, c)' <=> Assigned(r, c)
                              /\ Dismissed(r, c)' <=> Dismissed(r, c)
                              /\ Turned(r, c)' <=> Turned(r, c)
                              /\ Letters(r, c)' = Letters(r, c) /\ Rest(r, c)' = Rest(r, c)
  <2>1. \A r \in Procs : /\ Assigned(r, c)' <=> Assigned(r, c)
                         /\ Dismissed(r, c)' <=> Dismissed(r, c)
    BY <1>3, <1>5 DEF Assigned, Dismissed
  <2>2. Owner(song[idx[c]])' = Owner(song[idx[c]])
    BY <1>3 DEF Owner, Rank
  <2>3. \A r \in Procs : Turned(r, c)' <=> Turned(r, c)
    BY <1>3, <1>5, <2>2 DEF Turned
  <2>4. Turn(idx[c])' = Turn(idx[c]) /\ Done' = Done
    BY <1>3 DEF Turn, Done
  <2>5. \A r \in Procs : Letters(r, c)' = Letters(r, c) /\ Rest(r, c)' = Rest(r, c)
    BY <1>2, <2>1, <2>3, <2>4 DEF Letters, Rest
  <2> QED
    BY <2>1, <2>3, <2>5
\* only the one whose turn it is has been given it
<1>6. ASSUME Turned(q, c)
      PROVE  /\ pc[c] = "ack" /\ ack = <<>> /\ Waiting(c)
             /\ idx[c] \in 1..Len(song) /\ q = Owner(song[idx[c]]) /\ Voice(q) = song[idx[c]]
             /\ \A r \in Procs \ {q} : ~Turned(r, c)
  <2>1. pc[c] = "ack" /\ ack = <<>> /\ Waiting(c)
    BY <1>6, Progress DEF Turned
  <2>2. idx[c] \in 1..Len(song) /\ q = Owner(song[idx[c]])
    BY <1>6, <2>1 DEF Turned, Waiting
  <2>3. Voice(q) = song[idx[c]]
    BY <1>1, <1>4, <2>2, SongFacts, Owners
  <2> QED
    BY <2>1, <2>2, <2>3 DEF Turned
<1>7. CASE NoLock(q)
  <2>1. /\ UNCHANGED <<queue, locals, sung>> /\ status' = status
        /\ pc[q] = "elect" /\ pc'[q] = "await" /\ \A r \in Procs \ {q} : pc'[r] = pc[r]
    BY <1>7, Moved DEF NoLock, Labels
  <2>2. Singer(q, c)'
    BY <1>1, <1>5, <2>1 DEF Singer, queue, locals
  <2>3. \A r \in Procs \ {c} : Singer(r, c)'
    <3> TAKE r \in Procs \ {c}
    <3>1. CASE r # q
      BY <1>1, <1>3, <1>5, <2>1, <3>1, SingerSame DEF queue, locals
    <3> QED
      BY <2>2, <3>1
  <2>4. Gone' = Gone /\ \A r \in Procs : pc'[r] = "acking" <=> pc[r] = "acking"
    BY <2>1 DEF Gone
  <2> QED
    BY <2>1, <2>3, <2>4, Unnoticed DEF queue, locals
<1>8. CASE TakeAssign(q)
  <2>1. pc[q] = "await" /\ box[q] # <<>>
    BY <1>8 DEF TakeAssign, Goto, Exit
  <2>2. Assigned(q, c) /\ box[q] = Letters(q, c) /\ status[q] = 0
    BY <1>1, <2>1 DEF Singer
  <2>3. Head(box[q]) = Part(q) /\ Tail(box[q]) = Rest(q, c)
    BY <2>2, Mailbox DEF Letters, Rest
  <2>4. /\ UNCHANGED <<lock, reg, ack, removed, joined, idx, turn, sung>> /\ status' = status
        /\ pc'[q] = "listen" /\ \A r \in Procs \ {q} : pc'[r] = pc[r]
    BY <1>8, <2>3, Kinds, Moved DEF TakeAssign, Labels
  <2>5. /\ my_ch'[q] = Voice(q) /\ box'[q] = Rest(q, c)
        /\ \A r \in Procs \ {q} : my_ch'[r] = my_ch[r] /\ box'[r] = box[r]
    BY <1>8, <2>3, Kinds DEF TakeAssign, TypeInv
  <2>6. Singer(q, c)'
    BY <1>2, <1>5, <2>2, <2>4, <2>5 DEF Singer
  <2>7. \A r \in Procs \ {c} : Singer(r, c)'
    <3> TAKE r \in Procs \ {c}
    <3>1. CASE r # q
      BY <1>1, <1>3, <1>5, <2>4, <2>5, <3>1, SingerSame
    <3> QED
      BY <2>6, <3>1
  <2>8. Gone' = Gone /\ \A r \in Procs : pc'[r] = "acking" <=> pc[r] = "acking"
    BY <2>1, <2>4 DEF Gone
  <2> QED
    BY <2>4, <2>5, <2>7, <2>8, Unnoticed
<1>9. CASE TakeDone(q)
  <2>1. /\ UNCHANGED <<lock, reg, ack, removed, locals, sung>> /\ status' = status
        /\ pc[q] = "listen" /\ pc'[q] = "leaving" /\ \A r \in Procs \ {q} : pc'[r] = pc[r]
        /\ box[q] # <<>> /\ Head(box[q]).kind = "DONE"
        /\ box'[q] = Tail(box[q]) /\ \A r \in Procs \ {q} : box'[r] = box[r]
    BY <1>9, Moved DEF TakeDone, TypeInv, Labels
  <2>2. box[q] = Rest(q, c) /\ status[q] = 0
    BY <1>1, <2>1 DEF Singer
  <2>3. Dismissed(q, c) /\ box'[q] = <<>>
    BY <2>1, <2>2, Mailbox, Kinds DEF Rest
  <2>4. Singer(q, c)'
    BY <1>5, <2>1, <2>2, <2>3 DEF Singer
  <2>5. \A r \in Procs \ {c} : Singer(r, c)'
    <3> TAKE r \in Procs \ {c}
    <3>1. CASE r # q
      BY <1>1, <1>3, <1>5, <2>1, <3>1, SingerSame DEF locals
    <3> QED
      BY <2>4, <3>1
  <2>6. Gone' = Gone /\ \A r \in Procs : pc'[r] = "acking" <=> pc[r] = "acking"
    BY <2>1 DEF Gone
  <2> QED
    BY <2>1, <2>5, <2>6, Unnoticed DEF locals
<1>10. CASE TakeTurn(q)
  <2>1. /\ UNCHANGED <<lock, reg, ack, removed, joined, idx, my_ch>> /\ status' = status
        /\ pc[q] = "listen" /\ pc'[q] = "acking" /\ \A r \in Procs \ {q} : pc'[r] = pc[r]
        /\ box[q] # <<>> /\ Head(box[q]).kind = "TURN"
        /\ box'[q] = Tail(box[q]) /\ \A r \in Procs \ {q} : box'[r] = box[r]
        /\ turn'[q] = Head(box[q]).seq /\ \A r \in Procs \ {q} : turn'[r] = turn[r]
    BY <1>10, Moved DEF TakeTurn, TypeInv, Labels
  <2>2. box[q] = Rest(q, c) /\ status[q] = 0 /\ my_ch[q] = Voice(q)
    BY <1>1, <2>1 DEF Singer
  <2>3. Turned(q, c) /\ Head(box[q]) = Turn(idx[c]) /\ box'[q] = <<>>
    BY <2>1, <2>2, Mailbox, Kinds DEF Rest
  <2>4. sung' = Append(sung, song[idx[c]]) /\ turn'[q] = idx[c]
    BY <1>6, <1>10, <2>1, <2>2, <2>3, Kinds DEF TakeTurn
  <2>5. Singer(q, c)'
    BY <1>2, <1>3, <1>5, <2>1, <2>2, <2>3, <2>4 DEF Singer
  <2>6. \A r \in Procs \ {c} : Singer(r, c)'
    <3> TAKE r \in Procs \ {c}
    <3>1. CASE r # q
      BY <1>1, <1>3, <1>5, <2>1, <3>1, SingerSame
    <3> QED
      BY <2>5, <3>1
  <2>7. Waiting(c)'
    <3>1. Owner(song[idx[c]])' = q
      BY <1>6, <2>3, <1>3 DEF Owner, Rank
    <3>2. PICK k \in 1..Len(song) : k = idx[c]
      BY <1>6, <2>3
    <3>3. Sung(k - 1)
      BY <1>6, <2>1, <2>3, <3>2 DEF Waiting
    <3>4. Sung(k)'
      BY <1>4, <2>4, <3>2, <3>3, SungMore
    <3>5. Sung(idx[c])'
      BY <1>3, <3>2, <3>4 DEF Sung
    <3>6. my_ch[c] = Voice(c)
      BY <1>6, <2>3 DEF Waiting
    <3> QED
      BY <1>2, <1>3, <1>6, <2>1, <2>3, <3>1, <3>5, <3>6 DEF Waiting
  <2>8. box'[c] = IF Assigned(c, c)' THEN <<Part(c)'>> ELSE <<>>
    BY <1>2, <1>5, <2>1, Progress
  <2> QED
    BY <1>1, <1>2, <1>3, <2>1, <2>6, <2>7, <2>8 DEF Performance
<1>11. CASE SendAck(q)
  <2>1. /\ UNCHANGED <<lock, reg, box, removed, locals, sung>> /\ status' = status
        /\ pc[q] = "acking" /\ pc'[q] = "listen" /\ \A r \in Procs \ {q} : pc'[r] = pc[r]
        /\ ack' = Append(ack, AckOf(turn[q]))
    BY <1>11, Moved DEF SendAck, Labels, AckOf
  <2>2. /\ Turned(q, c) /\ turn[q] = idx[c] /\ box[q] = <<>> /\ my_ch[q] = Voice(q)
        /\ status[q] = 0
    BY <1>1, <2>1 DEF Singer
  <2>3. ack' = <<AckOf(idx[c])>> /\ ack' # <<>>
    BY <1>6, <2>1, <2>2, Mailbox
  <2>4. \A r \in Procs : /\ Assigned(r, c) /\ Assigned(r, c)'
                         /\ ~Dismissed(r, c) /\ ~Dismissed(r, c)' /\ ~Turned(r, c)'
    BY <1>6, <2>1, <2>2, <2>3 DEF Assigned, Dismissed, Turned
  <2>5. Singer(q, c)'
    <3>1. Rest(q, c)' = <<>>
      BY <2>4 DEF Rest
    <3> QED
      BY <1>2, <2>1, <2>2, <2>4, <3>1 DEF Singer, locals
  <2>6. \A r \in Procs \ {c} : Singer(r, c)'
    <3> TAKE r \in Procs \ {c}
    <3>1. CASE r # q
      BY <1>1, <1>3, <1>6, <2>1, <2>2, <2>4, <3>1, SingerSame DEF locals
    <3> QED
      BY <2>5, <3>1
  <2>7. Waiting(c)'
    <3>1. Owner(song[idx[c]])' = q
      BY <1>3, <1>6, <2>2 DEF Owner, Rank
    <3>2. Sung(idx[c])
      BY <1>6, <2>1, <2>2 DEF Waiting
    <3>3. Sung(idx[c])' /\ AckOf(idx[c])' = AckOf(idx[c])
      BY <1>3, <2>1, <3>2 DEF Sung, AckOf
    <3>4. my_ch[c] = Voice(c)
      BY <1>6, <2>2 DEF Waiting
    <3> QED
      BY <1>2, <1>3, <1>6, <2>1, <2>2, <2>3, <3>1, <3>3, <3>4 DEF Waiting, locals
  <2>8. box'[c] = IF Assigned(c, c)' THEN <<Part(c)'>> ELSE <<>>
    BY <1>2, <2>1, <2>4, Progress
  <2> QED
    BY <1>1, <1>2, <1>3, <2>1, <2>6, <2>7, <2>8 DEF Performance
<1>12. CASE SendBye(q)
  <2>1. /\ UNCHANGED <<lock, reg, box, removed, locals, sung>>
        /\ pc[q] = "leaving" /\ pc'[q] = "exited" /\ \A r \in Procs \ {q} : pc'[r] = pc[r]
        /\ status'[q] = 0 /\ \A r \in Procs \ {q} : status'[r] = status[r]
        /\ ack' = Append(ack, Bye)
    BY <1>12, Ended DEF SendBye, Bye
  <2>2. Dismissed(q, c) /\ box[q] = <<>> /\ pc[c] \in {"dismiss", "bye"}
    BY <1>1, <2>1 DEF Singer, Dismissed
  <2>3. \A r \in Procs : /\ Assigned(r, c) /\ Assigned(r, c)'
                         /\ (Dismissed(r, c)' <=> Dismissed(r, c))
                         /\ ~Turned(r, c) /\ ~Turned(r, c)'
    BY <1>3, <2>1, <2>2 DEF Assigned, Dismissed, Turned
  <2>4. \A r \in Procs \ {c} : Singer(r, c)'
    <3> TAKE r \in Procs \ {c}
    <3>1. CASE r # q
      BY <1>1, <1>3, <2>1, <2>3, <3>1, SingerSame DEF locals
    <3>2. CASE r = q
      BY <2>1, <2>2, <2>3, <3>2 DEF Singer
    <3> QED
      BY <3>1, <3>2
  <2>5. /\ ack \in Seq({Bye}) /\ sung = Heard!Full(song)
        /\ pc[c] = "dismiss" => idx[c] \in 1..n+1 /\ Len(ack) = Cardinality(Gone)
        /\ pc[c] = "bye" => idx[c] + Cardinality(Gone) = n - 1 + Len(ack)
    BY <2>2, Progress DEF Dismissing, Leaving
  <2>6. Cardinality(Gone') = Cardinality(Gone) + 1 /\ Cardinality(Gone) \in Nat
    <3>1. Gone' = Gone \cup {q} /\ q \notin Gone
      BY <2>1 DEF Gone
    <3>2. IsFiniteSet(Gone)
      BY BogatyrAssumption, FS_Subset DEF Gone
    <3> QED
      BY <3>1, <3>2, FS_AddElement, FS_CardinalityType
  <2>7. ack' \in Seq({Bye}) /\ Len(ack') = Len(ack) + 1 /\ Len(ack) \in Nat
    BY <2>1, <2>5, AppendProperties, LenProperties
  <2>8. Dismissing(c)' \/ Leaving(c)'
    <3>1. CASE pc[c] = "dismiss"
      BY <1>2, <1>3, <2>1, <2>5, <2>6, <2>7, <3>1 DEF Dismissing
    <3>2. CASE pc[c] = "bye"
      <4>1. idx[c] \in Nat /\ n \in Nat
        BY Numbers DEF TypeInv
      <4>2. idx'[c] + Cardinality(Gone') = n - 1 + Len(ack')
        BY <1>3, <2>5, <2>6, <2>7, <3>2, <4>1
      <4> QED
        BY <1>2, <1>3, <2>1, <2>5, <2>7, <3>2, <4>2 DEF Leaving
    <3> QED
      BY <2>2, <3>1, <3>2
  <2>9. box'[c] = IF Assigned(c, c)' THEN <<Part(c)'>> ELSE <<>>
    BY <1>2, <2>1, <2>3, Progress
  <2> QED
    BY <1>1, <1>2, <1>3, <2>1, <2>4, <2>8, <2>9 DEF Performance
<1> QED
  BY <1>7, <1>8, <1>9, <1>10, <1>11, <1>12

LEMMA PerformanceStep ==
  ASSUME TypeInv, NEW c \in Procs, Performance(c), [Next]_vars, TypeInv', song' = song
  PROVE  Phase'
<1>1. /\ ~removed /\ ~lock
      /\ \A q \in Procs \ {c} : Singer(q, c)
      /\ pc[c] \in {"assign", "sing", "ack", "dismiss", "bye"}
  BY Progress
<1>2. CASE UNCHANGED vars
  <2>1. /\ UNCHANGED <<removed, lock, ack, sung, idx, pc, my_ch, status, box, turn>>
    BY <1>2 DEF vars, queue, locals
  <2>2. \A r \in Procs : /\ Assigned(r, c)' <=> Assigned(r, c)
                         /\ Dismissed(r, c)' <=> Dismissed(r, c)
                         /\ Turned(r, c)' <=> Turned(r, c)
    <3>1. Owner(song[idx[c]])' = Owner(song[idx[c]])
      BY <2>1 DEF Owner, Rank
    <3> QED
      BY <2>1, <3>1 DEF Assigned, Dismissed, Turned
  <2>3. \A r \in Procs \ {c} : Singer(r, c)'
    BY <1>1, <2>1, <2>2, SingerSame
  <2>4. Gone' = Gone
    BY <2>1 DEF Gone
  <2>5. Performance(c)'
    BY <2>1, <2>3, <2>4, Unnoticed
  <2> QED
    BY <2>5 DEF Phase
<1>3. ASSUME Main(c)
      PROVE  Phase'
  <2>1. CASE pc[c] = "bye"
    BY <1>3, <2>1, Where, ByeStep DEF Phase
  <2>2. CASE pc[c] # "bye"
    <3>1. Performance(c)'
      BY <1>1, <1>3, <2>2, Where, AssignStep, SingStep, AckStep, DismissStep
    <3> QED
      BY <3>1 DEF Phase
  <2> QED
    BY <2>1, <2>2
<1>4. ASSUME NEW q \in Procs \ {c}, Main(q)
      PROVE  Phase'
  <2>1. pc[q] \in {"elect", "await", "listen", "acking", "leaving", "exited"}
    BY <1>1 DEF Singer
  <2>2. ~QueueGone(q) /\ ~TakeLock(q)
    BY <1>1 DEF QueueGone, TakeLock
  <2>3. Performance(c)'
    BY <1>4, <2>1, <2>2, Where, SingerStep
  <2> QED
    BY <2>3 DEF Phase
<1>5. \A p \in Procs : pc[p] \notin {"fork", "unborn"}
  BY <1>1 DEF Singer
<1> QED
  BY <1>2, <1>3, <1>4, <1>5, NoFork

-----------------------------------------------------------------------------
(***************************************************************************)
(* Theorems                                                                *)
(***************************************************************************)

LEMMA StepIInv == IInv /\ [Next]_vars => IInv'
<1> SUFFICES ASSUME IInv, [Next]_vars PROVE IInv'
  OBVIOUS
<1>1. TypeInv /\ TypeInv' /\ song' = song /\ Phase
  BY TypeStep DEF IInv
<1>2. CASE Gathering
  BY <1>1, <1>2, GatheringStep DEF IInv
<1>3. CASE \E c \in Procs : Refusal(c) \/ Performance(c)
  BY <1>1, <1>3, RefusalStep, PerformanceStep DEF IInv
<1>4. CASE Refused
  BY <1>1, <1>4, RefusedStep DEF IInv
<1>5. CASE Finished
  BY <1>1, <1>5, FinishedStep DEF IInv
<1> QED
  BY <1>1, <1>2, <1>3, <1>4, <1>5 DEF Phase

(* Whoever becomes the conductor, the run goes through these phases: each   *)
(* process is where its mailbox and the conductor's place say it must be.  *)
THEOREM Inductive == Spec => []IInv
<1>1. Init => IInv
  BY InitIInv
<1>2. IInv /\ [Next]_vars => IInv'
  BY StepIInv
<1> QED
  BY <1>1, <1>2, PTL DEF Spec

LEMMA Contents ==
  ASSUME NEW a, NEW b
  PROVE  /\ DOMAIN <<>> = {} /\ DOMAIN <<a>> = {1} /\ DOMAIN <<a, b>> = {1, 2}
         /\ <<a>>[1] = a /\ <<a, b>>[1] = a /\ <<a, b>>[2] = b
<1>1. DOMAIN <<>> = {} /\ <<a>>[1] = a /\ <<a, b>>[1] = a /\ <<a, b>>[2] = b
  OBVIOUS
<1>2. DOMAIN <<a>> = {1}
  OBVIOUS
<1>3. DOMAIN <<a, b>> = {1, 2}
  OBVIOUS
<1> QED
  BY <1>1, <1>2, <1>3

(* One process at a time may sing, and only while the conductor waits for   *)
(* it: the TURN, the singer that has not acknowledged it and its ACK are    *)
(* never there together.                                                   *)
THEOREM AtMostOneSings == Spec => []OneVoice
<1> DEFINE turns == {p \in Procs : \E k \in DOMAIN box[p] : box[p][k].kind = "TURN"}
           acking == {p \in Procs : pc[p] = "acking"}
           acks == {k \in DOMAIN ack : ack[k].kind = "ACK"}
           waiting == {p \in Procs : pc[p] = "ack"}
<1>0. OneVoice <=> Cardinality(turns) + Cardinality(acking) + Cardinality(acks) = Cardinality(waiting)
  BY DEF OneVoice
<1>1. ASSUME turns = {}, acking = {}, acks = {}, waiting = {}
      PROVE  OneVoice
  <2>1. Cardinality({}) = 0
    BY FS_EmptySet
  <2> HIDE DEF turns, acking, acks, waiting
  <2> QED
    BY <1>0, <1>1, <2>1
<1>2. ASSUME NEW c, NEW o, waiting = {c},
             \/ turns = {o} /\ acking = {} /\ acks = {}
             \/ turns = {} /\ acking = {o} /\ acks = {}
             \/ turns = {} /\ acking = {} /\ acks = {o}
      PROVE  OneVoice
  <2>1. Cardinality({c}) = 1 /\ Cardinality({o}) = 1 /\ Cardinality({}) = 0
    BY FS_Singleton, FS_EmptySet
  <2> HIDE DEF turns, acking, acks, waiting
  <2> QED
    BY <1>0, <1>2, <2>1
<1>3. /\ Done.kind # "TURN" /\ Bye.kind # "ACK"
      /\ \A q \in Procs : Part(q).kind # "TURN"
      /\ \A k : Turn(k).kind = "TURN" /\ AckOf(k).kind = "ACK"
  BY Kinds
<1>4. ASSUME Quiet, \A p \in Procs : pc[p] \notin {"acking", "ack"}
      PROVE  OneVoice
  BY <1>1, <1>4, Contents DEF Quiet
<1>5. ASSUME NEW c \in Procs, Refusal(c)
      PROVE  OneVoice
  <2>1. ack = <<>> /\ \A p \in Procs : pc[p] \notin {"acking", "ack"} /\ box[p] \in {<<>>, <<Done>>}
    BY <1>5 DEF Refusal
  <2>2. turns = {}
    BY <1>3, <2>1, Contents
  <2>3. acks = {}
    BY <2>1, Contents
  <2> QED
    BY <1>1, <2>1, <2>2, <2>3
<1>6. ASSUME TypeInv, NEW c \in Procs, Performance(c)
      PROVE  OneVoice
  <2>1. /\ \A q \in Procs \ {c} : Singer(q, c)
        /\ box[c] \in {<<>>, <<Part(c)>>}
        /\ pc[c] \in {"assign", "sing", "ack", "dismiss", "bye"}
    BY <1>6, Progress
  <2>2. ASSUME NEW q \in Procs, q # c => ~Turned(q, c)
        PROVE  q \notin turns /\ q \notin acking
    <3>1. box[q] \in {<<>>, <<Part(q)>>, <<Part(q), Done>>, <<Done>>} /\ pc[q] # "acking"
      <4>1. CASE q = c
        BY <2>1, <4>1
      <4>2. CASE q # c
        <5>1. /\ Letters(q, c) \in {<<Part(q)>>, <<Part(q), Done>>}
              /\ Rest(q, c) \in {<<>>, <<Done>>}
          BY <2>2, <4>2 DEF Letters, Rest
        <5> QED
          BY <2>1, <2>2, <4>2, <5>1 DEF Singer
      <4> QED
        BY <4>1, <4>2
    <3>2. \A k \in DOMAIN box[q] : box[q][k] = Part(q) \/ box[q][k] = Done
      BY <3>1, Contents
    <3> QED
      BY <1>3, <3>1, <3>2
  <2>3. \A q \in Procs \ {c} : pc[q] # "ack"
    BY <2>1 DEF Singer
  <2>4. CASE pc[c] # "ack"
    <3>1. \A q \in Procs : ~Turned(q, c)
      BY <2>4 DEF Turned
    <3>2. turns = {} /\ acking = {}
      BY <2>2, <3>1
    <3>3. ack = <<>> \/ ack \in Seq({Bye})
      BY <1>6, <2>1, <2>4, Progress DEF Assigning, Singing, Dismissing, Leaving
    <3>4. \A k \in DOMAIN ack : ack[k] = Bye
      <4>1. CASE ack = <<>>
        BY <4>1, Contents
      <4>2. CASE ack \in Seq({Bye})
        BY <4>2, LenProperties, ElementOfSeq
      <4> QED
        BY <3>3, <4>1, <4>2
    <3>5. acks = {} /\ waiting = {}
      BY <1>3, <2>3, <2>4, <3>4
    <3> QED
      BY <1>1, <3>2, <3>5
  <2>5. CASE pc[c] = "ack"
    <3>1. waiting = {c}
      BY <2>3, <2>5
    <3>2. /\ idx[c] \in 1..Len(song) /\ Owner(song[idx[c]]) # c
          /\ ack \in {<<>>, <<AckOf(idx[c])>>}
      BY <1>6, <2>5, Progress DEF Waiting
    <3>3. CASE ack = <<AckOf(idx[c])>>
      <4>1. \A q \in Procs : ~Turned(q, c)
        BY <3>3, Mailbox DEF Turned
      <4>2. turns = {} /\ acking = {}
        BY <2>2, <4>1
      <4>3. acks = {1}
        BY <1>3, <3>3, Contents
      <4> QED
        BY <1>2, <3>1, <4>2, <4>3
    <3>4. CASE ack = <<>>
      <4>1. PICK o \in Procs \ {c} : o = Owner(song[idx[c]])
        BY <1>6, <3>2, SongFacts, Owners, Progress DEF TypeInv
      <4>2. Turned(o, c) /\ \A q \in Procs \ {o} : ~Turned(q, c)
        BY <2>5, <3>4, <4>1 DEF Turned
      <4>3. \A q \in Procs \ {o} : q \notin turns /\ q \notin acking
        BY <2>2, <4>2
      <4>4. acks = {}
        BY <3>4, Contents
      <4>5. CASE pc[o] = "acking"
        <5>1. box[o] = <<>>
          BY <2>1, <4>5 DEF Singer
        <5>2. turns = {} /\ acking = {o}
          BY <4>3, <4>5, <5>1, Contents
        <5> QED
          BY <1>2, <3>1, <4>4, <5>2
      <4>6. CASE pc[o] # "acking"
        <5>1. /\ Letters(o, c) = <<Part(o), Turn(idx[c])>> /\ Rest(o, c) = <<Turn(idx[c])>>
              /\ Assigned(o, c) /\ ~Dismissed(o, c)
          BY <2>5, <4>2 DEF Letters, Rest, Assigned, Dismissed
        <5>2. box[o] = <<Part(o), Turn(idx[c])>> \/ box[o] = <<Turn(idx[c])>>
          BY <2>1, <4>6, <5>1 DEF Singer
        <5>3. \E k \in DOMAIN box[o] : box[o][k] = Turn(idx[c])
          <6>1. CASE box[o] = <<Part(o), Turn(idx[c])>>
            <7>1. 2 \in DOMAIN box[o] /\ box[o][2] = Turn(idx[c])
              BY <6>1, Contents
            <7> QED
              BY <7>1
          <6>2. CASE box[o] = <<Turn(idx[c])>>
            <7>1. 1 \in DOMAIN box[o] /\ box[o][1] = Turn(idx[c])
              BY <6>2, Contents
            <7> QED
              BY <7>1
          <6> QED
            BY <5>2, <6>1, <6>2
        <5>4. turns = {o} /\ acking = {}
          BY <1>3, <4>3, <4>6, <5>3
        <5> QED
          BY <1>2, <3>1, <4>4, <5>4
      <4> QED
        BY <4>5, <4>6
    <3> QED
      BY <3>2, <3>3, <3>4
  <2> QED
    BY <2>4, <2>5
<1>7. IInv => OneVoice
  <2> SUFFICES ASSUME IInv PROVE OneVoice
    OBVIOUS
  <2>1. Gathering => OneVoice
    BY <1>4 DEF Gathering
  <2>2. Refused => OneVoice
    BY <1>4 DEF Refused
  <2>3. Finished => OneVoice
    BY <1>4 DEF Finished
  <2> QED
    BY <1>5, <1>6, <2>1, <2>2, <2>3 DEF IInv, Phase
<1> QED
  BY <1>7, Inductive, PTL

(* With enough processes nobody fails and the whole song is heard; a song   *)
(* with too many characters is refused by one conductor, in silence; after  *)
(* a failed fork the others neither sing nor leave.                        *)
THEOREM HowItEnds == Spec => []Outcome
<1>1. ASSUME IInv
      PROVE  Outcome
  <2>1. Phase
    BY <1>1 DEF IInv
  <2>2. ForkFailed => Gathering
    BY <2>1 DEF Phase, ForkFailed, Refusal, Performance, Singer, Refused, Finished,
       Assigning, Singing, Waiting, Dismissing, Leaving
  <2>3. ForkFailed => /\ sung = <<>> /\ ~removed
                      /\ \A p \in Procs \ {Launcher} : pc[p] # "exited"
    BY <2>2 DEF Gathering
  <2>4. Gathering /\ ~ForkFailed => sung = <<>> /\ ~AllExited /\ \A p \in Procs : status[p] = 0
    BY BogatyrAssumption DEF Gathering, ForkFailed, AllExited, Unborn
  <2>5. (\E c \in Procs : Performance(c)) => /\ ~TooFew /\ ~AllExited
                                             /\ \A p \in Procs : status[p] = 0
    BY Progress DEF Singer, AllExited
  <2>6. (\E c \in Procs : Refusal(c)) => TooFew /\ sung = <<>> /\ ~AllExited
    BY DEF Refusal, AllExited
  <2>7. ASSUME Refused
        PROVE  /\ TooFew /\ sung = <<>>
               /\ AllExited => /\ Cardinality({p \in Procs : status[p] = 3}) = 1
                               /\ \A p \in Procs : status[p] # 0
    <3>1. PICK c \in Procs :
            /\ pc[c] = "exited" /\ status[c] = 3
            /\ \A q \in Procs \ {c} : \/ pc[q] \in {"elect", "await"}
                                      \/ pc[q] = "exited" /\ status[q] \in {1, 5}
      BY <2>7 DEF Refused
    <3>2. AllExited => {p \in Procs : status[p] = 3} = {c} /\ \A p \in Procs : status[p] # 0
      BY <3>1 DEF AllExited
    <3> QED
      BY <2>7, <3>2, FS_Singleton DEF Refused
  <2>8. Finished => ~TooFew /\ sung = Heard!Full(song) /\ \A p \in Procs : status[p] = 0
    BY DEF Finished
  <2>9. TooFew /\ ~ForkFailed =>
          /\ sung = <<>>
          /\ AllExited => /\ Cardinality({p \in Procs : status[p] = 3}) = 1
                          /\ \A p \in Procs : status[p] # 0
    BY <2>1, <2>4, <2>5, <2>6, <2>7, <2>8 DEF Phase
  <2>10. ~TooFew /\ ~ForkFailed =>
           /\ \A p \in Procs : status[p] = 0
           /\ AllExited => sung = Heard!Full(song)
    BY <2>1, <2>4, <2>5, <2>6, <2>7, <2>8 DEF Phase
  <2> QED
    BY <2>3, <2>9, <2>10 DEF Outcome
<1> QED
  BY <1>1, Inductive, PTL

LEMMA FullSong ==
  ASSUME song \in Songs
  PROVE  /\ Len(Heard!Full(song)) \in Nat /\ Len(song) <= Len(Heard!Full(song))
         /\ \A k \in 1..Len(song) : Heard!Full(song)[k] = song[k]
         /\ IF song = <<>> \/ song[Len(song)] # "newline"
            THEN /\ Heard!Full(song) = Append(song, "newline")
                 /\ Len(Heard!Full(song)) = Len(song) + 1
                 /\ Heard!Full(song)[Len(song) + 1] = "newline"
            ELSE Heard!Full(song) = song
<1> DEFINE S == STRING \cup {"newline"}
<1>1. song \in Seq(S) /\ Len(song) \in Nat
  <2>1. song \in Seq(STRING \ {"silent"}) /\ STRING \ {"silent"} \subseteq S
    BY SongFacts
  <2>2. Seq(STRING \ {"silent"}) \subseteq Seq(S)
    BY SeqMonotonic
  <2> QED
    BY <2>1, <2>2, SongFacts
<1>2. PICK more \in Seq(S) :
       /\ more = Append(song, "newline") /\ Len(more) = Len(song) + 1
       /\ more[Len(song) + 1] = "newline" /\ \A k \in 1..Len(song) : more[k] = song[k]
  <2>1. "newline" \in S
    OBVIOUS
  <2>2. Append(song, "newline") \in Seq(S)
    BY <1>1, <2>1, AppendProperties
  <2>3. /\ Len(Append(song, "newline")) = Len(song) + 1
        /\ Append(song, "newline")[Len(song) + 1] = "newline"
    BY <1>1, <2>1, AppendProperties
  <2>4. \A k \in 1..Len(song) : Append(song, "newline")[k] = song[k]
    BY <1>1, <2>1, AppendProperties
  <2> QED
    BY <2>2, <2>3, <2>4
<1>3. Heard!Full(song) = IF song = <<>> \/ song[Len(song)] # "newline" THEN more ELSE song
  BY <1>2 DEF Heard!Full
<1>4. CASE song = <<>> \/ song[Len(song)] # "newline"
  <2>1. Heard!Full(song) = more
    BY <1>3, <1>4
  <2> QED
    BY <1>1, <1>2, <1>4, <2>1
<1>5. CASE ~(song = <<>> \/ song[Len(song)] # "newline")
  <2>1. Heard!Full(song) = song
    BY <1>3, <1>5
  <2> QED
    BY <1>1, <1>5, <2>1
<1> QED
  BY <1>4, <1>5

(* Whoever conducts, and however the processes are scheduled, what is heard *)
(* is what a choir promises: the characters of the song one after the      *)
(* other, each once, and a newline at the end.                             *)
THEOREM Refinement == Spec => SingsInOrder
<1>1. Init => Heard!Init
  BY DEF Init, Heard!Init
<1>2. IInv /\ [Next]_vars => [Heard!Sing]_<<song, sung>>
  <2> SUFFICES ASSUME IInv, [Next]_vars PROVE [Heard!Sing]_<<song, sung>>
    OBVIOUS
  <2>1. TypeInv /\ song' = song /\ song \in Songs
    BY TypeStep DEF IInv, TypeInv
  \* one more character of the song
  <2>2. ASSUME NEW k \in 1..Len(song), Sung(k - 1), sung' = Append(sung, song[k])
        PROVE  Heard!Sing
    <3>1. Len(sung) = k - 1 /\ k \in Nat /\ k <= Len(song) /\ Len(song) \in Nat
      BY <2>1, <2>2, SongFacts DEF Sung
    <3>2. Len(sung) + 1 = k
      BY <3>1
    <3>3. Heard!Full(song)[k] = song[k] /\ Len(song) <= Len(Heard!Full(song))
          /\ Len(Heard!Full(song)) \in Nat
      BY <2>1, FullSong
    <3>4. Len(sung) < Len(Heard!Full(song))
      BY <3>1, <3>3
    <3> QED
      BY <2>1, <2>2, <3>2, <3>3, <3>4 DEF Heard!Sing
  \* only a conductor that performs is at "sing", only its singers listen
  <2>3. \A p \in Procs : /\ pc[p] = "sing" => Performance(p)
                         /\ pc[p] = "listen" => \E c \in Procs \ {p} : Performance(c)
    <3>1. Phase
      BY DEF IInv
    <3>2. ASSUME NEW c \in Procs, Performance(c), NEW p \in Procs
          PROVE  /\ pc[p] = "sing" => p = c
                 /\ pc[p] = "listen" => p # c
      BY <3>2, Progress DEF Singer
    <3>3. Gathering \/ Refused \/ Finished \/ (\E c \in Procs : Refusal(c))
            => \A p \in Procs : pc[p] \notin {"sing", "listen"}
      BY DEF Gathering, Refused, Finished, Refusal
    <3> QED
      BY <3>1, <3>2, <3>3 DEF Phase
  <2>4. ASSUME NEW p \in Procs, SingSelf(p)
        PROVE  Heard!Sing
    <3>1. pc[p] = "sing" /\ Singing(p) /\ ~TooFew
      BY <2>3, <2>4, Progress DEF SingSelf, Goto
    <3>2. idx[p] \in 1..Len(song) /\ Current(p) = song[idx[p]]
      <4>1. idx[p] \in 1..Len(song)+1 /\ idx[p] <= Len(song) /\ Len(song) \in Nat
        BY <2>1, <2>4, <3>1, SongFacts DEF Singing, SingSelf
      <4> QED
        BY <4>1 DEF Current
    <3>3. my_ch[p] = song[idx[p]] /\ my_ch[p] # "silent"
      BY <2>1, <2>4, <3>1, <3>2, SongFacts, Owners DEF Singing, SingSelf
    <3> QED
      BY <2>2, <2>4, <3>1, <3>2, <3>3 DEF Singing, SingSelf
  <2>5. ASSUME NEW p \in Procs, TakeTurn(p)
        PROVE  Heard!Sing
    <3>1. pc[p] = "listen" /\ box[p] # <<>> /\ Head(box[p]).kind = "TURN"
      BY <2>5 DEF TakeTurn, Goto
    <3>2. PICK c \in Procs \ {p} : Performance(c)
      BY <2>3, <3>1
    <3>3. Singer(p, c) /\ box[p] = Rest(p, c) /\ my_ch[p] = Voice(p)
      BY <3>1, <3>2, Progress DEF Singer
    <3>4. Turned(p, c) /\ Head(box[p]) = Turn(idx[c])
      BY <3>1, <3>3, Mailbox, Kinds DEF Rest
    <3>5. /\ Waiting(c) /\ ~TooFew /\ ack = <<>>
          /\ idx[c] \in 1..Len(song) /\ p = Owner(song[idx[c]])
      BY <3>2, <3>4, Progress DEF Turned, Waiting
    <3>6. Voice(p) = song[idx[c]] /\ Sung(idx[c] - 1)
      BY <2>1, <3>1, <3>5, SongFacts, Owners DEF Waiting
    <3>7. sung' = Append(sung, song[idx[c]])
      BY <2>5, <3>3, <3>4, <3>6, Kinds DEF TakeTurn
    <3> QED
      BY <2>2, <3>5, <3>6, <3>7
  <2>6. ASSUME NEW p \in Procs, EndSong(p)
        PROVE  [Heard!Sing]_<<song, sung>>
    <3>1. pc[p] = "sing" /\ Singing(p)
      BY <2>3, <2>6, Progress DEF EndSong, Goto
    <3>2. sung = song
      <4>1. idx[p] \in 1..Len(song)+1 /\ idx[p] > Len(song) /\ Len(song) \in Nat
        BY <2>1, <2>6, <3>1, SongFacts DEF Singing, EndSong
      <4>2. idx[p] - 1 = Len(song)
        BY <4>1
      <4>3. Sung(Len(song))
        BY <3>1, <4>2 DEF Singing
      <4> QED
        BY <2>1, <4>3, SungAll
    <3>3. CASE song = <<>> \/ song[Len(song)] # "newline"
      <4>1. sung' = Append(sung, Heard!Full(song)[Len(sung) + 1])
        BY <2>1, <2>6, <3>2, <3>3, FullSong DEF EndSong
      <4>2. Len(sung) < Len(Heard!Full(song))
        BY <2>1, <3>2, <3>3, FullSong, SongFacts
      <4> QED
        BY <2>1, <4>1, <4>2 DEF Heard!Sing
    <3>4. CASE ~(song = <<>> \/ song[Len(song)] # "newline")
      BY <2>1, <2>6, <3>4 DEF EndSong
    <3> QED
      BY <3>3, <3>4
  <2>7. ASSUME NEW p \in Procs, Main(p), ~SingSelf(p), ~TakeTurn(p), ~EndSong(p)
        PROVE  sung' = sung
    <3>1. Fork(p) \/ Register(p) \/ TakeLock(p) \/ NoLock(p) \/ Collect(p) => sung' = sung
      BY DEF Fork, Register, TakeLock, NoLock, Collect
    <3>2. AbortOne(p) \/ AbortEnd(p) \/ AssignOne(p) \/ AssignEnd(p) \/ GiveTurn(p) \/ TakeAck(p)
          \/ DismissOne(p) \/ DismissEnd(p) \/ TakeBye(p) \/ ByeEnd(p) => sung' = sung
      BY DEF AbortOne, AbortEnd, AssignOne, AssignEnd, GiveTurn, TakeAck, DismissOne,
         DismissEnd, TakeBye, ByeEnd
    <3>3. TakeAssign(p) \/ SendAck(p) \/ TakeDone(p) \/ SendBye(p) \/ QueueGone(p) => sung' = sung
      BY DEF TakeAssign, SendAck, TakeDone, SendBye, QueueGone
    <3> QED
      BY <2>7, <3>1, <3>2, <3>3 DEF Main, Conductor, Worker
  <2>8. ForksDone \/ ForkFails \/ Terminating \/ UNCHANGED vars => sung' = sung
    BY DEF ForksDone, ForkFails, Terminating, vars
  <2> QED
    BY <2>1, <2>4, <2>5, <2>6, <2>7, <2>8 DEF Next
<1> QED
  BY <1>1, <1>2, Inductive, PTL DEF Spec, SingsInOrder, Heard!Spec
=============================================================================
