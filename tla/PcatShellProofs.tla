---------------------------- MODULE PcatShellProofs ----------------------------
(***************************************************************************)
(* Proofs about the programs that copy bytes from one process to another.  *)
(*                                                                         *)
(* Pcat, for files of any number and length, a buffer of any size, and     *)
(* errors at any moment.  The bytes in hand form one chain, from stdout    *)
(* through the chunks of the reader, the monitor and the writer to the     *)
(* place the writer has read to; a stop breaks the chain behind the        *)
(* reader's chunk and nowhere else.                                        *)
(*                                                                         *)
(* Shell, with its cats and counters, for any command lines: nobody keeps  *)
(* an end of a pipe open that is not meant for it, and whoever is not      *)
(* disturbed gets all the bytes that its line gives it.  See the second    *)
(* half of the module.                                                     *)
(***************************************************************************)
EXTENDS Pcat, FiniteSetTheorems, NaturalsInduction, SequenceTheorems, TLAPS,
        WellFoundedInduction

Chunks == Nat \X Nat
WriterLabels == {"open", "read", "enter", "wait", "next", "finish", "exited"}
ReaderLabels == {"enter", "wait", "write", "exited"}

TypeInv ==
  /\ input \in Inputs
  /\ writer \in WriterLabels /\ reader \in ReaderLabels
  /\ i \in Nat /\ taken \in Nat
  /\ tmp \in Chunks /\ buf \in Chunks /\ local \in Chunks
  /\ full \in BOOLEAN /\ done \in BOOLEAN /\ stop \in BOOLEAN
  /\ rc \in {"running", "complete", "failed"}
  /\ out \in Seq(Nat)

\* the first n bytes of the input
Upto(n) == [j \in 1..n |-> j]

\* how far the input has come on each side of the buffer
Fetched == IF reader = "write" THEN local[2] ELSE Len(out)
Stored == IF full THEN buf[2] ELSE Fetched

\* where the writer is in the files
Position ==
  /\ writer \notin {"finish", "exited"} =>
       i \in 1..Files /\ taken <= EndOf(i) /\ (FromStdin => i = 1)
  /\ taken <= Size
  /\ writer = "next" /\ ~stop => taken = EndOf(i)
  /\ writer = "next" => ~FromStdin
  /\ writer \in {"finish", "exited"} /\ ~stop => taken = Size

\* what has been written is the input so far; the reader's chunk comes next
Delivered ==
  /\ out = Upto(Len(out)) /\ Fetched <= taken
  /\ reader = "write" => local[1] = Len(out) + 1 /\ local[1] <= local[2]

\* the chunk of the monitor and the chunk of the writer follow
Chain ==
  ~stop =>
    /\ full => buf[1] = Fetched + 1 /\ buf[1] <= buf[2]
    /\ IF writer \in {"enter", "wait"}
       THEN tmp[1] = Stored + 1 /\ tmp[1] <= tmp[2] /\ tmp[2] = taken
       ELSE taken = Stored

\* who may have left
Leaving ==
  /\ done <=> writer = "exited"
  /\ reader = "exited" /\ ~stop => done /\ ~full
  /\ rc # "running" => writer = "exited" /\ reader = "exited"
  /\ rc = "complete" <=> rc # "running" /\ ~stop

IInv == TypeInv /\ Position /\ Delivered /\ Chain /\ Leaving

-----------------------------------------------------------------------------
(***************************************************************************)
(* Sequences of bytes                                                      *)
(***************************************************************************)

LEMMA UptoSeq ==
  ASSUME NEW n \in Nat
  PROVE  Upto(n) \in Seq(Nat) /\ Len(Upto(n)) = n /\ \A j \in 1..n : Upto(n)[j] = j
  BY DEF Upto

LEMMA BytesSeq ==
  ASSUME NEW a \in Nat, NEW b \in Nat, a <= b
  PROVE  /\ Bytes(<<a + 1, b>>) \in Seq(Nat) /\ Len(Bytes(<<a + 1, b>>)) = b - a
         /\ \A j \in 1..b - a : Bytes(<<a + 1, b>>)[j] = a + j
<1>1. Bytes(<<a + 1, b>>) = [j \in 1..b - a |-> a + j]
  BY DEF Bytes
<1> QED
  BY <1>1

(* The chunk behind the first a bytes makes them the first b.              *)
LEMMA Glue ==
  ASSUME NEW a \in Nat, NEW b \in Nat, a <= b
  PROVE  Upto(a) \o Bytes(<<a + 1, b>>) = Upto(b)
<1> DEFINE s == Upto(a)
           t == Bytes(<<a + 1, b>>)
<1>1. /\ s \in Seq(Nat) /\ Len(s) = a /\ \A j \in 1..a : s[j] = j
      /\ t \in Seq(Nat) /\ Len(t) = b - a /\ \A j \in 1..b - a : t[j] = a + j
      /\ Upto(b) \in Seq(Nat) /\ Len(Upto(b)) = b /\ \A j \in 1..b : Upto(b)[j] = j
  BY UptoSeq, BytesSeq
<1> HIDE DEF s, t
<1>2. /\ s \o t \in Seq(Nat) /\ Len(s \o t) = b
      /\ \A j \in 1..b : (s \o t)[j] = IF j <= a THEN s[j] ELSE t[j - a]
  <2>1. /\ s \o t \in Seq(Nat) /\ Len(s \o t) = Len(s) + Len(t)
        /\ \A j \in 1..Len(s) + Len(t) :
             (s \o t)[j] = IF j <= Len(s) THEN s[j] ELSE t[j - Len(s)]
    BY <1>1, ConcatProperties
  <2>2. Len(s) + Len(t) = b /\ Len(s) = a
    BY <1>1
  <2> QED
    BY <2>1, <2>2
<1>3. \A j \in 1..b : (s \o t)[j] = Upto(b)[j]
  <2> TAKE j \in 1..b
  <2>1. CASE j <= a
    BY <1>1, <1>2, <2>1
  <2>2. CASE ~(j <= a)
    <3>1. j - a \in 1..b - a /\ a + (j - a) = j
      BY <2>2
    <3>2. t[j - a] = a + (j - a)
      BY <1>1, <3>1
    <3>3. (s \o t)[j] = t[j - a]
      BY <1>2, <2>2
    <3> QED
      BY <1>1, <3>1, <3>2, <3>3
  <2> QED
    BY <2>1, <2>2
<1>4. s \o t = Upto(b)
  BY <1>1, <1>2, <1>3, SeqEqual
<1> QED
  BY <1>4 DEF s, t

(* A short write takes the head of a chunk.                                *)
LEMMA ShortWrite ==
  ASSUME NEW a \in Nat, NEW b \in Nat, NEW m \in 1..b - a
  PROVE  SubSeq(Bytes(<<a + 1, b>>), 1, m) = Bytes(<<a + 1, a + m>>)
<1> DEFINE s == Bytes(<<a + 1, b>>)
           t == Bytes(<<a + 1, a + m>>)
<1>1. /\ s \in Seq(Nat) /\ Len(s) = b - a /\ \A j \in 1..b - a : s[j] = a + j
      /\ t \in Seq(Nat) /\ Len(t) = m /\ \A j \in 1..m : t[j] = a + j
  <2>1. a <= b /\ a + m \in Nat /\ a <= a + m /\ (a + m) - a = m
    OBVIOUS
  <2>2. s \in Seq(Nat) /\ Len(s) = b - a /\ \A j \in 1..b - a : s[j] = a + j
    BY <2>1, BytesSeq
  <2>3. t \in Seq(Nat) /\ Len(t) = (a + m) - a /\ \A j \in 1..(a + m) - a : t[j] = a + j
    BY <2>1, BytesSeq
  <2> QED
    BY <2>1, <2>2, <2>3
<1> HIDE DEF s, t
<1>2. /\ SubSeq(s, 1, m) \in Seq(Nat) /\ Len(SubSeq(s, 1, m)) = m
      /\ \A j \in 1..m : SubSeq(s, 1, m)[j] = s[j]
  BY <1>1, SubSeqProperties
<1>3. SubSeq(s, 1, m) = t
  BY <1>1, <1>2, SeqEqual
<1> QED
  BY <1>3 DEF s, t

LEMMA Prefix ==
  ASSUME NEW n \in Nat, NEW m \in 0..n
  PROVE  SubSeq(Upto(n), 1, m) = Upto(m)
<1>1. /\ Upto(n) \in Seq(Nat) /\ \A j \in 1..n : Upto(n)[j] = j
      /\ Upto(m) \in Seq(Nat) /\ Len(Upto(m)) = m /\ \A j \in 1..m : Upto(m)[j] = j
  BY UptoSeq
<1>2. /\ SubSeq(Upto(n), 1, m) \in Seq(Nat) /\ Len(SubSeq(Upto(n), 1, m)) = m
      /\ \A j \in 1..m : SubSeq(Upto(n), 1, m)[j] = Upto(n)[j]
  BY <1>1, SubSeqProperties
<1> QED
  BY <1>1, <1>2, SeqEqual

(* What a chunk that starts behind the first a bytes holds.                *)
LEMMA Chunk ==
  ASSUME NEW c \in Chunks, NEW a \in Nat, c[1] = a + 1, c[1] <= c[2]
  PROVE  c = <<a + 1, c[2]>> /\ c[2] \in Nat /\ a <= c[2] /\ Len(Bytes(c)) = c[2] - a
<1>1. c = <<a + 1, c[2]>> /\ c[2] \in Nat /\ a <= c[2]
  BY DEF Chunks
<1>2. Len(Bytes(<<a + 1, c[2]>>)) = c[2] - a
  BY <1>1, BytesSeq
<1> QED
  BY <1>1, <1>2

-----------------------------------------------------------------------------
(***************************************************************************)
(* The invariant                                                           *)
(***************************************************************************)

LEMMA InputFacts ==
  ASSUME TypeInv
  PROVE  /\ Files \in Nat \ {0} /\ Size \in Nat /\ BUFSZ \in Nat \ {0}
         /\ \A f \in 1..Files : EndOf(f) \in Nat /\ EndOf(f) <= Size
         /\ \A f \in 1..Files : f + 1 <= Files => EndOf(f) <= EndOf(f + 1)
         /\ FromStdin \in BOOLEAN /\ (FromStdin => Files = 1)
         /\ Len(out) \in Nat
<1>1. /\ input.stdin \in BOOLEAN /\ input.ends \in Seq(Nat)
      /\ \A f, g \in DOMAIN input.ends : f <= g => input.ends[f] <= input.ends[g]
      /\ IF input.stdin THEN Len(input.ends) = 1 ELSE input.ends # <<>>
  BY PcatAssumption DEF TypeInv
<1>2. Files \in Nat \ {0} /\ DOMAIN input.ends = 1..Files
  BY <1>1, LenProperties, EmptySeq DEF Files
<1>3. \A f \in 1..Files : EndOf(f) \in Nat
  BY <1>1, <1>2, ElementOfSeq DEF EndOf, Files
<1>4. Files \in 1..Files
  BY <1>2
<1>5. Size \in Nat
  BY <1>3, <1>4 DEF Size
<1>6. \A f \in 1..Files : EndOf(f) <= Size /\ (f + 1 <= Files => EndOf(f) <= EndOf(f + 1))
  <2> TAKE f \in 1..Files
  <2>1. f <= Files /\ (f + 1 <= Files => f + 1 \in 1..Files)
    BY <1>2
  <2> QED
    BY <1>1, <1>2, <1>4, <2>1 DEF EndOf, Size
<1>7. FromStdin \in BOOLEAN /\ (FromStdin => Files = 1)
  BY <1>1 DEF FromStdin, Files
<1> QED
  BY <1>2, <1>3, <1>5, <1>6, <1>7, PcatAssumption, LenProperties DEF TypeInv

LEMMA InitIInv == Init => IInv
<1> SUFFICES ASSUME Init PROVE IInv
  OBVIOUS
<1>1. TypeInv
  <2>1. out \in Seq(Nat)
    BY EmptySeq DEF Init
  <2> QED
    BY <2>1 DEF Init, TypeInv, WriterLabels, ReaderLabels, Chunks, NoChunk
<1>2. out = Upto(Len(out)) /\ Len(out) = 0
  <2>1. Upto(0) = <<>>
    BY UptoSeq, EmptySeq
  <2> QED
    BY <2>1, EmptySeq DEF Init
<1>3. Position
  <2>1. 1 \in 1..Files /\ 0 <= EndOf(1) /\ 0 <= Size
    BY <1>1, InputFacts
  <2> QED
    BY <2>1 DEF Init, Position
<1>4. Delivered /\ Chain /\ Leaving
  BY <1>2 DEF Init, Delivered, Chain, Leaving, Fetched, Stored
<1> QED
  BY <1>1, <1>3, <1>4 DEF IInv

(* What is the same as long as the command line is.                        *)
LEMMA SameInput ==
  ASSUME input' = input
  PROVE  /\ Files' = Files /\ Size' = Size /\ FromStdin' = FromStdin
         /\ \A f : EndOf(f)' = EndOf(f)
  BY DEF Files, Size, FromStdin, EndOf

LEMMA Facts ==
  ASSUME IInv
  PROVE  /\ TypeInv /\ Position /\ Delivered /\ Chain /\ Leaving
         /\ taken \in Nat /\ Len(out) \in Nat /\ Fetched \in Nat /\ Stored \in Nat
         /\ tmp[1] \in Nat /\ tmp[2] \in Nat /\ buf[1] \in Nat /\ buf[2] \in Nat
         /\ local[1] \in Nat /\ local[2] \in Nat
  BY InputFacts DEF IInv, TypeInv, Chunks, Fetched, Stored

(* The writer between its files: it opens one, meets its end or an error,  *)
(* goes to the next or leaves.                                             *)
LEMMA FilesIInv ==
  ASSUME IInv, input' = input,
         OpenFile \/ OpenError \/ EndOfFile \/ ReadError \/ NextFile \/ Finish
  PROVE  IInv'
<1> USE SameInput
<1>0. /\ TypeInv /\ Position /\ Delivered /\ Chain /\ Leaving
      /\ taken \in Nat /\ Len(out) \in Nat /\ Fetched \in Nat /\ Stored \in Nat
      /\ tmp[1] \in Nat /\ tmp[2] \in Nat /\ buf[1] \in Nat /\ buf[2] \in Nat
      /\ local[1] \in Nat /\ local[2] \in Nat
  BY Facts
<1> USE <1>0
<1>1. UNCHANGED <<taken, tmp, buf, full, local, rc, out>>
  BY DEF OpenFile, OpenError, EndOfFile, ReadError, NextFile, Finish, monitor, Fail
<1>2. TypeInv'
  <2>1. writer' \in WriterLabels /\ reader' \in ReaderLabels
    BY DEF TypeInv, OpenFile, OpenError, EndOfFile, ReadError, NextFile, Finish, Woken,
       WriterLabels, ReaderLabels
  <2>2. i' \in Nat
    BY DEF TypeInv, OpenFile, OpenError, EndOfFile, ReadError, NextFile, Finish
  <2>3. (done' = done \/ done' = TRUE) /\ (stop' = stop \/ stop' = TRUE)
    BY DEF OpenFile, OpenError, EndOfFile, ReadError, NextFile, Finish, monitor, Fail
  <2>4. done' \in BOOLEAN /\ stop' \in BOOLEAN
    BY <2>3 DEF TypeInv
  <2> QED
    BY <1>1, <2>1, <2>2, <2>4 DEF TypeInv
<1>3. /\ reader' = reader \/ (reader = "wait" /\ reader' = "enter")
      /\ Fetched' = Fetched /\ Stored' = Stored
  BY <1>1 DEF OpenFile, OpenError, EndOfFile, ReadError, NextFile, Finish, monitor, Fail, Woken,
     Fetched, Stored
<1>4. Delivered'
  BY <1>1, <1>3 DEF Delivered, Upto
<1>5. /\ writer \notin {"enter", "wait", "exited"} /\ writer' \notin {"enter", "wait"}
      /\ stop => stop'
  BY DEF OpenFile, OpenError, EndOfFile, ReadError, NextFile, Finish, monitor, Fail
<1>6. Chain'
  BY <1>1, <1>3, <1>5 DEF Chain
<1>7. Leaving'
  <2>1. (done' <=> writer' = "exited") /\ (done => done')
    BY <1>5 DEF Leaving, TypeInv, OpenFile, OpenError, EndOfFile, ReadError, NextFile, Finish,
       monitor, Fail
  <2>2. rc = "running" /\ reader' = "exited" <=> rc' = "running" /\ reader = "exited"
    BY <1>1, <1>3
  <2>3. ~(reader = "exited" /\ ~stop) /\ rc = "running"
    BY <1>5 DEF Leaving
  <2> QED
    BY <1>1, <1>3, <1>5, <2>1, <2>3 DEF Leaving
<1>8. Position'
  <2>1. Size \in Nat /\ Files \in Nat
    BY InputFacts
  <2>2. CASE OpenFile
    BY <1>1, <2>2 DEF OpenFile, Position, monitor
  <2>3. CASE OpenError
    BY <1>1, <2>3 DEF OpenError, Position, Fail
  <2>4. CASE EndOfFile
    <3>1. i \in 1..Files /\ taken = EndOf(i) /\ (FromStdin => i = 1 /\ Files = 1)
      BY <2>4, InputFacts DEF EndOfFile, Position
    <3>2. FromStdin => taken = Size
      BY <3>1 DEF Size
    <3> QED
      BY <1>1, <2>1, <2>4, <3>1, <3>2 DEF EndOfFile, Position, monitor
  <2>5. CASE ReadError
    BY <1>1, <2>5 DEF ReadError, Position, Fail
  <2>6. CASE NextFile
    <3>1. i \in 1..Files /\ taken <= EndOf(i) /\ ~FromStdin /\ (~stop => taken = EndOf(i))
      BY <2>6 DEF NextFile, Position
    <3>2. CASE writer' = "open"
      <4>1. i # Files /\ i' = i + 1 /\ i + 1 \in 1..Files /\ EndOf(i) <= EndOf(i + 1)
            /\ EndOf(i) \in Nat /\ EndOf(i + 1) \in Nat
        BY <2>1, <2>6, <3>1, <3>2, InputFacts DEF NextFile
      <4>2. taken <= EndOf(i + 1)
        BY <3>1, <4>1
      <4> QED
        BY <1>1, <3>1, <3>2, <4>1, <4>2 DEF Position
    <3>3. CASE writer' = "finish"
      <4>1. stop' = stop /\ (~stop => i = Files)
        BY <2>6, <3>3 DEF NextFile, monitor
      <4>2. ~stop => taken = Size
        BY <3>1, <4>1 DEF Size
      <4> QED
        BY <1>1, <3>3, <4>1, <4>2 DEF Position
    <3> QED
      BY <2>6, <3>2, <3>3 DEF NextFile
  <2>7. CASE Finish
    BY <1>1, <2>7 DEF Finish, Position
  <2> QED
    BY <2>2, <2>3, <2>4, <2>5, <2>6, <2>7
<1> QED
  BY <1>2, <1>4, <1>6, <1>7, <1>8 DEF IInv

(* The writer reads a chunk of its file.                                   *)
LEMMA ReadFileIInv ==
  ASSUME IInv, input' = input, ReadFile
  PROVE  IInv'
<1> USE SameInput
<1>0. /\ TypeInv /\ Position /\ Delivered /\ Chain /\ Leaving
      /\ taken \in Nat /\ Len(out) \in Nat /\ Fetched \in Nat /\ Stored \in Nat
      /\ tmp[1] \in Nat /\ tmp[2] \in Nat /\ buf[1] \in Nat /\ buf[2] \in Nat
      /\ local[1] \in Nat /\ local[2] \in Nat
  BY Facts
<1> USE <1>0
<1>1. PICK m \in 1..BUFSZ :
        taken + m <= EndOf(i) /\ tmp' = <<taken + 1, taken + m>> /\ taken' = taken + m
  BY DEF ReadFile
<1>2. /\ writer = "read" /\ writer' = "enter"
      /\ UNCHANGED <<reader, i, local, buf, full, done, stop, rc, out>>
  BY DEF ReadFile, monitor
<1>3. /\ m \in Nat \ {0} /\ taken + m \in Nat /\ taken < taken + m
      /\ i \in 1..Files /\ EndOf(i) \in Nat /\ EndOf(i) <= Size /\ Size \in Nat
  BY <1>1, <1>2, InputFacts DEF Position
<1>4. TypeInv'
  <2>1. tmp' \in Chunks
    BY <1>1, <1>3 DEF Chunks
  <2> QED
    BY <1>1, <1>2, <1>3, <2>1 DEF TypeInv, WriterLabels
<1>5. Fetched' = Fetched /\ Stored' = Stored
  BY <1>2 DEF Fetched, Stored
<1>6. Position'
  BY <1>1, <1>2, <1>3 DEF Position
<1>7. Delivered'
  BY <1>1, <1>2, <1>3, <1>5 DEF Delivered, Upto
<1>8. Chain'
  BY <1>1, <1>2, <1>3, <1>5 DEF Chain
<1>9. Leaving'
  BY <1>2 DEF Leaving
<1> QED
  BY <1>4, <1>6, <1>7, <1>8, <1>9 DEF IInv

(* The writer waits for the buffer, gives up, or fills it.                 *)
LEMMA PutIInv ==
  ASSUME IInv, input' = input, Put
  PROVE  IInv'
<1> USE SameInput
<1>0. /\ TypeInv /\ Position /\ Delivered /\ Chain /\ Leaving
      /\ taken \in Nat /\ Len(out) \in Nat /\ Fetched \in Nat /\ Stored \in Nat
      /\ tmp[1] \in Nat /\ tmp[2] \in Nat /\ buf[1] \in Nat /\ buf[2] \in Nat
      /\ local[1] \in Nat /\ local[2] \in Nat
  BY Facts
<1> USE <1>0
<1>1. /\ writer = "enter" /\ UNCHANGED <<i, taken, tmp, local, done, stop, rc, out>>
      /\ reader' = reader \/ (reader = "wait" /\ reader' = "enter")
      /\ writer' \in {"wait", "finish", "next", "read"}
      /\ Fetched' = Fetched
  BY DEF Put, Woken, Fetched
<1>2. TypeInv'
  BY <1>1 DEF Put, TypeInv, WriterLabels, ReaderLabels
<1>3. Delivered'
  BY <1>1 DEF Delivered, Upto
<1>4. Position'
  BY <1>1 DEF Position, Put
<1>5. Leaving'
  BY <1>1 DEF Leaving
<1>6. Chain'
  <2>1. CASE full /\ ~stop
    <3>1. writer' = "wait" /\ buf' = buf /\ full' = full
      BY <2>1 DEF Put
    <3> QED
      BY <1>1, <2>1, <3>1 DEF Chain, Stored
  <2>2. CASE stop
    BY <1>1, <2>2 DEF Chain
  <2>3. CASE ~full /\ ~stop
    <3>1. writer' = "read" /\ buf' = tmp /\ full' = TRUE
      BY <2>3 DEF Put
    <3> QED
      BY <1>1, <2>3, <3>1 DEF Chain, Stored
  <2> QED
    BY <2>1, <2>2, <2>3
<1> QED
  BY <1>2, <1>3, <1>4, <1>5, <1>6 DEF IInv

(* The reader waits for a chunk, leaves, or takes the chunk out.           *)
LEMMA GetIInv ==
  ASSUME IInv, input' = input, Get
  PROVE  IInv'
<1> USE SameInput
<1>0. /\ TypeInv /\ Position /\ Delivered /\ Chain /\ Leaving
      /\ taken \in Nat /\ Len(out) \in Nat /\ Fetched \in Nat /\ Stored \in Nat
      /\ tmp[1] \in Nat /\ tmp[2] \in Nat /\ buf[1] \in Nat /\ buf[2] \in Nat
      /\ local[1] \in Nat /\ local[2] \in Nat
  BY Facts
<1> USE <1>0
<1>1. /\ reader = "enter" /\ UNCHANGED <<i, taken, tmp, buf, done, stop, rc, out>>
      /\ writer' = writer \/ (writer = "wait" /\ writer' = "enter")
      /\ Fetched = Len(out)
  BY DEF Get, Woken, Fetched
<1>2. /\ writer' \in {"enter", "wait"} <=> writer \in {"enter", "wait"}
      /\ \A label \in {"next", "finish", "exited"} : writer' = label <=> writer = label
  BY <1>1
<1>3. Position'
  BY <1>1, <1>2 DEF Position
<1>4. CASE reader' \in {"wait", "exited"}
  <2>1. /\ UNCHANGED <<writer, local, full>>
        /\ reader' = "wait" \/ (reader' = "exited" /\ (stop \/ (~full /\ done)))
    BY <1>4 DEF Get
  <2>2. Fetched' = Fetched /\ Stored' = Stored
    BY <1>1, <1>4, <2>1 DEF Fetched, Stored
  <2>3. TypeInv'
    BY <1>1, <1>4, <2>1 DEF TypeInv, ReaderLabels
  <2>4. Delivered' /\ Chain'
    BY <1>1, <1>4, <2>1, <2>2 DEF Delivered, Chain, Upto
  <2>5. Leaving'
    BY <1>1, <1>4, <2>1 DEF Leaving
  <2> QED
    BY <1>3, <2>3, <2>4, <2>5 DEF IInv
<1>5. CASE reader' = "write"
  <2>1. full /\ ~stop /\ local' = buf /\ full' = FALSE
    BY <1>5 DEF Get
  <2>2. buf[1] = Len(out) + 1 /\ buf[1] <= buf[2] /\ Stored = buf[2] /\ Stored <= taken
    BY <1>1, <2>1 DEF Chain, Stored
  <2>3. Fetched' = buf[2] /\ Stored' = buf[2]
    BY <1>5, <2>1 DEF Fetched, Stored
  <2>4. TypeInv'
    BY <1>1, <1>5, <2>1 DEF TypeInv, ReaderLabels, WriterLabels
  <2>5. Delivered'
    BY <1>1, <1>5, <2>1, <2>2, <2>3 DEF Delivered, Upto
  <2>6. Chain'
    BY <1>1, <1>2, <2>1, <2>2, <2>3 DEF Chain
  <2>7. Leaving'
    BY <1>1, <1>2, <1>5 DEF Leaving
  <2> QED
    BY <1>3, <2>4, <2>5, <2>6, <2>7 DEF IInv
<1> QED
  BY <1>4, <1>5 DEF Get

(* A write, short or not, makes the output longer by the head of the chunk.*)
LEMMA Written ==
  ASSUME IInv, WriteOut
  PROVE  /\ reader = "write" /\ local[2] <= taken
         /\ \E m \in 1..local[2] - Len(out) :
              /\ out' = Upto(Len(out) + m) /\ Len(out') = Len(out) + m
              /\ local' = <<Len(out) + m + 1, local[2]>>
              /\ reader' = IF m = local[2] - Len(out) THEN "enter" ELSE "write"
<1>0. /\ TypeInv /\ Position /\ Delivered /\ Chain /\ Leaving
      /\ taken \in Nat /\ Len(out) \in Nat /\ Fetched \in Nat /\ Stored \in Nat
      /\ tmp[1] \in Nat /\ tmp[2] \in Nat /\ buf[1] \in Nat /\ buf[2] \in Nat
      /\ local[1] \in Nat /\ local[2] \in Nat
  BY Facts
<1> USE <1>0
<1>1. reader = "write" /\ local[1] = Len(out) + 1 /\ local[1] <= local[2] /\ local[2] <= taken
  BY DEF WriteOut, Delivered, Fetched
<1>2. /\ local = <<Len(out) + 1, local[2]>> /\ Len(out) <= local[2]
      /\ Len(Bytes(local)) = local[2] - Len(out)
  <2>1. local \in Chunks
    BY DEF TypeInv
  <2> QED
    BY <1>1, <2>1, Chunk
<1>3. PICK m \in 1..local[2] - Len(out) :
        /\ out' = out \o SubSeq(Bytes(local), 1, m)
        /\ local' = <<local[1] + m, local[2]>>
        /\ reader' = IF m = local[2] - Len(out) THEN "enter" ELSE "write"
  BY <1>2 DEF WriteOut
<1>4. SubSeq(Bytes(local), 1, m) = Bytes(<<Len(out) + 1, Len(out) + m>>)
  <2>1. SubSeq(Bytes(<<Len(out) + 1, local[2]>>), 1, m) = Bytes(<<Len(out) + 1, Len(out) + m>>)
    BY <1>3, ShortWrite
  <2>2. Bytes(local) = Bytes(<<Len(out) + 1, local[2]>>)
    BY <1>2
  <2> QED
    BY <2>1, <2>2
<1>5. Len(out) + m \in Nat /\ Len(out) <= Len(out) + m
  BY <1>3
<1>6. out' = Upto(Len(out) + m) /\ Len(out') = Len(out) + m
  <2>1. out = Upto(Len(out))
    BY DEF Delivered
  <2>2. Upto(Len(out)) \o Bytes(<<Len(out) + 1, Len(out) + m>>) = Upto(Len(out) + m)
    BY <1>5, Glue
  <2>3. out' = Upto(Len(out) + m)
    BY <1>3, <1>4, <2>1, <2>2
  <2> QED
    BY <1>5, <2>3, UptoSeq
<1>7. local' = <<Len(out) + m + 1, local[2]>>
  BY <1>1, <1>3
<1> QED
  BY <1>1, <1>3, <1>6, <1>7

LEMMA WriteOutIInv ==
  ASSUME IInv, input' = input, WriteOut
  PROVE  IInv'
<1> USE SameInput
<1>0. /\ TypeInv /\ Position /\ Delivered /\ Chain /\ Leaving
      /\ taken \in Nat /\ Len(out) \in Nat /\ Fetched \in Nat /\ Stored \in Nat
      /\ tmp[1] \in Nat /\ tmp[2] \in Nat /\ buf[1] \in Nat /\ buf[2] \in Nat
      /\ local[1] \in Nat /\ local[2] \in Nat
  BY Facts
<1> USE <1>0
<1>1. UNCHANGED <<writer, i, taken, tmp, buf, full, done, stop, rc>>
  BY DEF WriteOut, monitor
<1>2. /\ reader = "write" /\ local[2] <= taken
      /\ \E m \in 1..local[2] - Len(out) :
           /\ out' = Upto(Len(out) + m) /\ Len(out') = Len(out) + m
           /\ local' = <<Len(out) + m + 1, local[2]>>
           /\ reader' = IF m = local[2] - Len(out) THEN "enter" ELSE "write"
  BY Written
<1>3. PICK m \in 1..local[2] - Len(out) :
        /\ out' = Upto(Len(out) + m) /\ Len(out') = Len(out) + m
        /\ local' = <<Len(out) + m + 1, local[2]>>
        /\ reader' = IF m = local[2] - Len(out) THEN "enter" ELSE "write"
  BY <1>2
<1>4. Len(out) + m \in Nat /\ Len(out) + m + 1 \in Nat /\ Len(out) + m <= local[2]
  BY <1>3
<1>5. Fetched = local[2] /\ Fetched' = local[2] /\ Stored' = Stored
  <2>1. Fetched = local[2] /\ Fetched' = local[2]
    BY <1>2, <1>3 DEF Fetched
  <2> QED
    BY <1>1, <2>1 DEF Stored
<1>6. TypeInv'
  <2>1. out' \in Seq(Nat) /\ local' \in Chunks /\ reader' \in ReaderLabels
    BY <1>3, <1>4, UptoSeq DEF Chunks, ReaderLabels
  <2> QED
    BY <1>1, <2>1 DEF TypeInv
<1>7. Position'
  BY <1>1 DEF Position
<1>8. Delivered'
  <2>1. out' = Upto(Len(out'))
    BY <1>3
  <2>2. reader' = "write" => local'[1] = Len(out') + 1 /\ local'[1] <= local'[2]
    BY <1>3, <1>4
  <2>3. Upto(Len(out))' = Upto(Len(out'))
    BY DEF Upto
  <2> QED
    BY <1>1, <1>2, <1>5, <2>1, <2>2, <2>3 DEF Delivered
<1>9. Chain' /\ Leaving'
  BY <1>1, <1>2, <1>3, <1>5 DEF Chain, Leaving
<1> QED
  BY <1>6, <1>7, <1>8, <1>9 DEF IInv

(* A write that fails, a wakeup out of nothing and the report of main.     *)
LEMMA WriteErrorIInv ==
  ASSUME IInv, input' = input, WriteError
  PROVE  IInv'
<1> USE SameInput
<1>0. /\ TypeInv /\ Position /\ Delivered /\ Chain /\ Leaving
      /\ taken \in Nat /\ Len(out) \in Nat /\ Fetched \in Nat /\ Stored \in Nat
      /\ tmp[1] \in Nat /\ tmp[2] \in Nat /\ buf[1] \in Nat /\ buf[2] \in Nat
      /\ local[1] \in Nat /\ local[2] \in Nat
  BY Facts
<1> USE <1>0
<1>1. /\ reader = "write" /\ reader' = "exited" /\ stop' = TRUE
      /\ writer' = writer \/ (writer = "wait" /\ writer' = "enter")
      /\ UNCHANGED <<i, taken, tmp, local, buf, full, done, rc, out>>
  BY DEF WriteError, Fail, Woken
<1>2. TypeInv'
  BY <1>1 DEF TypeInv, ReaderLabels, WriterLabels
<1>3. Position'
  BY <1>1 DEF Position
<1>4. Delivered'
  BY <1>1 DEF Delivered, Fetched, Upto
<1>5. Chain' /\ Leaving'
  BY <1>1 DEF Chain, Leaving
<1> QED
  BY <1>2, <1>3, <1>4, <1>5 DEF IInv

LEMMA SpuriousIInv ==
  ASSUME IInv, Spurious
  PROVE  IInv'
<1> USE SameInput
<1>0. /\ TypeInv /\ Position /\ Delivered /\ Chain /\ Leaving
      /\ taken \in Nat /\ Len(out) \in Nat /\ Fetched \in Nat /\ Stored \in Nat
      /\ tmp[1] \in Nat /\ tmp[2] \in Nat /\ buf[1] \in Nat /\ buf[2] \in Nat
      /\ local[1] \in Nat /\ local[2] \in Nat
  BY Facts
<1> USE <1>0
<1>1. /\ UNCHANGED <<input, i, taken, tmp, local, buf, full, done, stop, rc, out>>
      /\ writer' = writer \/ (writer = "wait" /\ writer' = "enter")
      /\ reader' = reader \/ (reader = "wait" /\ reader' = "enter")
  BY DEF Spurious, monitor
<1>2. TypeInv'
  BY <1>1 DEF TypeInv, ReaderLabels, WriterLabels
<1>3. Fetched' = Fetched /\ Stored' = Stored
  BY <1>1 DEF Fetched, Stored
<1>4. Position'
  BY <1>1 DEF Position
<1>5. Delivered'
  BY <1>1, <1>3 DEF Delivered, Upto
<1>6. Chain' /\ Leaving'
  BY <1>1, <1>3 DEF Chain, Leaving
<1> QED
  BY <1>2, <1>4, <1>5, <1>6 DEF IInv

LEMMA ReportIInv ==
  ASSUME IInv, Report
  PROVE  IInv'
<1> USE SameInput
<1>0. /\ TypeInv /\ Position /\ Delivered /\ Chain /\ Leaving
      /\ taken \in Nat /\ Len(out) \in Nat /\ Fetched \in Nat /\ Stored \in Nat
      /\ tmp[1] \in Nat /\ tmp[2] \in Nat /\ buf[1] \in Nat /\ buf[2] \in Nat
      /\ local[1] \in Nat /\ local[2] \in Nat
  BY Facts
<1> USE <1>0
<1>1. /\ UNCHANGED <<input, writer, reader, i, taken, tmp, local, buf, full, done, stop, out>>
      /\ writer = "exited" /\ reader = "exited"
      /\ rc' = IF stop THEN "failed" ELSE "complete"
  BY DEF Report, monitor
<1>2. TypeInv'
  BY <1>1 DEF TypeInv
<1>3. Position' /\ Delivered' /\ Chain'
  BY <1>1 DEF Position, Delivered, Chain, Fetched, Stored, Upto
<1>4. Leaving'
  BY <1>1 DEF Leaving
<1> QED
  BY <1>2, <1>3, <1>4 DEF IInv

LEMMA StepIInv == IInv /\ [Next]_vars => IInv'
<1> SUFFICES ASSUME IInv, [Next]_vars PROVE IInv'
  OBVIOUS
<1>1. CASE Writer
  BY <1>1, FilesIInv, ReadFileIInv, PutIInv DEF Writer
<1>2. CASE Reader
  BY <1>2, GetIInv, WriteOutIInv, WriteErrorIInv DEF Reader
<1>3. CASE UNCHANGED vars
  <2>1. /\ UNCHANGED <<input, writer, reader, i, taken, tmp, local, rc, out>>
        /\ UNCHANGED <<buf, full, done, stop>>
    BY <1>3 DEF vars, monitor
  <2>2. TypeInv'
    BY <2>1 DEF IInv, TypeInv
  <2>3. Position' /\ Leaving'
    BY <2>1, SameInput DEF IInv, Position, Leaving
  <2>4. Fetched' = Fetched /\ Stored' = Stored
    BY <2>1 DEF Fetched, Stored
  <2>5. Delivered' /\ Chain'
    BY <2>1, <2>4 DEF IInv, Delivered, Chain, Upto
  <2> QED
    BY <2>2, <2>3, <2>5 DEF IInv
<1> QED
  BY <1>1, <1>2, <1>3, SpuriousIInv, ReportIInv DEF Next, Terminating

(* The chain of bytes, the places of the two threads and the flags of the  *)
(* monitor agree, whatever the interleaving and the errors.                *)
THEOREM Inductive == Spec => []IInv
  BY InitIInv, StepIInv, PTL DEF Spec

(* Between the input and stdout of lesson8_pcat2.c every byte that has     *)
(* been read and not dropped by a stop is in one place, in order.          *)
THEOREM NothingLost == Spec => []InFlight
<1>1. IInv => InFlight
  <2> SUFFICES ASSUME IInv, ~stop PROVE InFlight
    BY DEF InFlight
  <2>1. /\ TypeInv /\ Delivered /\ Chain
        /\ taken \in Nat /\ Len(out) \in Nat /\ Fetched \in Nat /\ Stored \in Nat
    BY Facts
  <2> DEFINE Rest == IF reader = "write" THEN Bytes(local) ELSE <<>>
             Slot == IF full THEN Bytes(buf) ELSE <<>>
             Hand == IF writer \in {"enter", "wait"} THEN Bytes(tmp) ELSE <<>>
  <2>2. /\ \A n \in Nat : Upto(n) \in Seq(Nat)
        /\ tmp \in Chunks /\ buf \in Chunks /\ local \in Chunks
    BY <2>1, UptoSeq DEF TypeInv
  <2>3. out \o Rest = Upto(Fetched)
    <3>1. CASE reader = "write"
      BY <2>1, <2>2, <3>1, Chunk, Glue DEF Delivered, Fetched
    <3>2. CASE reader # "write"
      BY <2>1, <2>2, <3>2, ConcatEmptySeq DEF Delivered, Fetched
    <3> QED
      BY <3>1, <3>2
  <2>4. Upto(Fetched) \o Slot = Upto(Stored)
    <3>1. CASE full
      BY <2>1, <2>2, <3>1, Chunk, Glue DEF Chain, Stored
    <3>2. CASE ~full
      BY <2>1, <2>2, <3>2, ConcatEmptySeq DEF Stored
    <3> QED
      BY <3>1, <3>2
  <2>5. Upto(Stored) \o Hand = Upto(taken)
    <3>1. CASE writer \in {"enter", "wait"}
      <4>1. tmp[1] = Stored + 1 /\ tmp[1] <= tmp[2] /\ tmp[2] = taken
        BY <2>1, <3>1 DEF Chain
      <4>2. tmp = <<Stored + 1, taken>> /\ Stored <= taken
        BY <2>1, <2>2, <4>1, Chunk
      <4> QED
        BY <2>1, <3>1, <4>2, Glue
    <3>2. CASE writer \notin {"enter", "wait"}
      BY <2>1, <2>2, <3>2, ConcatEmptySeq DEF Chain
    <3> QED
      BY <3>1, <3>2
  <2>6. out \o Rest \o Slot \o Hand = Upto(taken)
    BY <2>3, <2>4, <2>5
  <2> QED
    BY <2>6 DEF InFlight, Upto
<1> QED
  BY <1>1, Inductive, PTL

-----------------------------------------------------------------------------
(***************************************************************************)
(* The refinement of Copying                                               *)
(***************************************************************************)

LEMMA StepCat == IInv /\ [Next]_vars => [Cat!Next]_<<Size, out, rc>>
<1> SUFFICES ASSUME IInv, [Next]_vars PROVE [Cat!Next]_<<Size, out, rc>>
  OBVIOUS
<1>1. TypeInv /\ Position /\ Delivered /\ Leaving /\ taken \in Nat /\ Size \in Nat
  BY Facts, InputFacts
<1>2. input' = input /\ Size' = Size
  BY SameInput DEF Next, Writer, Reader, Spurious, Report, Terminating, vars
<1>3. CASE Writer
  BY <1>2, <1>3 DEF Writer, OpenFile, OpenError, ReadFile, EndOfFile, ReadError, Put, NextFile, Finish
<1>4. CASE Reader
  <2>1. CASE Get \/ WriteError
    BY <1>2, <2>1 DEF Get, WriteError
  <2>2. CASE WriteOut
    <3>1. /\ reader = "write" /\ local[2] <= taken
          /\ \E m \in 1..local[2] - Len(out) : out' = Upto(Len(out) + m)
      BY Written, <2>2
    <3>2. PICK m \in 1..local[2] - Len(out) : out' = Upto(Len(out) + m)
      BY <3>1
    <3>3. /\ Len(out) \in Nat /\ local[2] \in Nat /\ taken <= Size
          /\ rc = "running" /\ rc' = rc
      BY <1>1, <2>2, <3>1, Facts DEF Position, Leaving, WriteOut
    <3>4. Len(out) + m \in Len(out) + 1..Size /\ Len(out) + m \in 0..Size
      BY <1>1, <3>1, <3>2, <3>3
    <3>5. SubSeq(Upto(Size), 1, Len(out) + m) = Upto(Len(out) + m)
      BY <1>1, <3>4, Prefix
    <3>6. Cat!Write
      <4>1. Cat!Input = Upto(Size)
        BY DEF Cat!Input, Upto
      <4>2. \E n \in Len(out) + 1..Size : out' = SubSeq(Cat!Input, 1, n)
        BY <3>2, <3>4, <3>5, <4>1
      <4> QED
        BY <1>2, <3>3, <4>2 DEF Cat!Write
    <3> QED
      BY <3>6 DEF Cat!Next
  <2> QED
    BY <1>4, <2>1, <2>2 DEF Reader
<1>5. CASE Report
  <2>1. /\ writer = "exited" /\ reader = "exited" /\ rc = "running" /\ out' = out
        /\ rc' = IF stop THEN "failed" ELSE "complete"
    BY <1>5 DEF Report
  <2>2. CASE stop
    BY <1>2, <2>1, <2>2 DEF Cat!Next, Cat!Fail
  <2>3. CASE ~stop
    <3>1. Chain /\ ~full /\ taken = Size
      BY <1>1, <2>1, <2>3, Facts DEF Leaving, Position
    <3>2. Len(out) = Size
      BY <2>1, <2>3, <3>1 DEF Chain, Stored, Fetched
    <3>3. out = Cat!Input
      BY <1>1, <3>2 DEF Delivered, Cat!Input, Upto
    <3>4. Cat!Complete
      BY <1>2, <2>1, <2>3, <3>3 DEF Cat!Complete
    <3> QED
      BY <3>4 DEF Cat!Next
  <2> QED
    BY <2>2, <2>3
<1>6. CASE Spurious
  BY <1>2, <1>6 DEF Spurious
<1>7. CASE UNCHANGED vars
  BY <1>2, <1>7 DEF vars
<1> QED
  BY <1>3, <1>4, <1>5, <1>6, <1>7 DEF Next, Terminating

(* Whatever fails and however the threads interleave, the output of        *)
(* lesson8_pcat2.c is a prefix of the input, and an exit status of 0 means *)
(* the whole of it.                                                        *)
THEOREM Refinement == Spec => ImplementsCopying
<1>1. Init => Cat!Init
  <2> SUFFICES ASSUME Init PROVE Cat!Init
    OBVIOUS
  <2>1. Size \in Nat
    BY InitIInv, InputFacts DEF IInv
  <2> QED
    BY <2>1 DEF Init, Cat!Init
<1> QED
  BY <1>1, StepCat, Inductive, PTL DEF Spec, ImplementsCopying, Cat!Spec

-----------------------------------------------------------------------------
(***************************************************************************)
(* Shell, as an instance: its constants and variables are declared here    *)
(* under their own names, and the assumptions of its modules are           *)
(* hypotheses of every lemma.  Process <<s, d>> is d forks below segment s *)
(* of the line.  What it holds is a function of its place and program and  *)
(* of the program of its parent, which no longer changes.                  *)
(***************************************************************************)

CONSTANTS
  MaxSegments, PIPE_BUF, BUF_SIZE, Lines, FILE_SIZE

VARIABLES
  line, proc, fill, left, shown, count, buffering

Sh == INSTANCE Shell

LineAssumption == Sh!PipesAssumption /\ Sh!FiltersAssumption /\ Sh!ShellAssumption

Processes == {Sh!Shell} \cup Sh!Children
Tubes == (Sh!Segments \X (-1..2)) \cup {Sh!Outside}

\* who has started what it was to start, and who has not
Past == {"parent", "read", "write", "wait", "ended", "failed", "killed"}
Before == {"unborn", "born", "setup", "exec", "start", "kid"}
ShellLabels == {"pipe", "fork", "close", "wait", "prompt"}

Labels == Past \cup Before \cup ShellLabels

Process ==
  [pc : Labels, prog : {"shell", "kid"} \cup STRING, argv : Seq(STRING),
   holds : SUBSET Sh!Ends, in : Tubes, out : Tubes, buf : Int]

ShellTypeInv == line \in Lines /\ proc \in [Processes -> Process]

\* the shell has the pipes open while it forks, and no others
ShellHolds ==
  /\ proc[Sh!Shell].in = Sh!Outside /\ proc[Sh!Shell].out = Sh!Outside
  /\ proc[Sh!Shell].pc \in ShellLabels
  /\ proc[Sh!Shell].pc \notin {"fork", "close"} => proc[Sh!Shell].holds = {}

\* the children are forked in the order of the segments
Forked ==
  \E k \in 0..Sh!nsegs :
    /\ \A s \in Sh!Segments : proc[<<s, 0>>].pc # "unborn" <=> s <= k
    /\ proc[Sh!Shell].pc \in {"fork", "pipe"} => k < Sh!nsegs

\* a process has a child only when it is past its start
Family ==
  \A s \in Sh!Segments, d \in 1..2 :
    proc[<<s, d>>].pc # "unborn" => proc[<<s, d - 1>>].pc \in Past

Running == {"exec", "start", "parent", "kid", "read", "write", "wait"}

\* stdin and stdout lead to the neighbours, to a file, or into the pipe of a counter above
Placed(s, d) ==
  /\ proc[<<s, d>>].in \in {Sh!Outside, <<s - 1, -1>>}
  /\ \/ proc[<<s, d>>].out \in {Sh!Outside, <<s, -1>>}
     \/ \E e \in 0..d - 1 : proc[<<s, d>>].out = <<s, e>> /\ proc[<<s, e>>].prog = "counter"

BothEnds(p) == {<<p, "r">>, <<p, "w">>}

\* the ends that a program keeps while it reads and writes
Keeps(s, d) ==
  CASE proc[<<s, d>>].prog = "cat" -> {<<<<s, d>>, "w">>}
    [] proc[<<s, d>>].prog = "counter" -> {<<<<s, d>>, "r">>}
    [] proc[<<s, d>>].prog = "kid" -> {<<<<s, d - 1>>, "r">>}
    [] OTHER -> {}

Holding(s, d) ==
  LET p == proc[<<s, d>>] IN
  /\ p.pc \in {"exec", "start", "wait"} => p.holds = {}
  /\ p.pc \in {"start", "parent", "kid"} => p.prog \in {"cat", "counter"}
  /\ p.pc = "wait" => p.prog = "counter"
  /\ p.pc = "parent" => p.holds = BothEnds(<<s, d>>)
  /\ p.pc = "kid" => d > 0 /\ p.holds = BothEnds(<<s, d - 1>>)
                     /\ proc[<<s, d - 1>>].prog = p.prog
  /\ p.pc \in {"read", "write"} => p.holds \subseteq Keeps(s, d)
  /\ p.pc \in {"read", "write"} /\ p.prog = "kid" => d > 0 /\ proc[<<s, d - 1>>].prog = "cat"

\* a program has its name, and a counter that is to run a command has one
Argued(s, d) ==
  LET p == proc[<<s, d>>] IN
  /\ p.pc \in {"born", "setup", "exec"} => p.argv # <<>>
  /\ p.pc \in {"start", "parent", "kid"} /\ p.prog = "counter" => Len(p.argv) > 1

Own(s, d) ==
  /\ proc[<<s, d>>].pc \in Past \cup Before
  /\ Argued(s, d)
  /\ proc[<<s, d>>].pc \in Running => Placed(s, d) /\ Holding(s, d)

EndsInv ==
  /\ ShellTypeInv /\ ShellHolds /\ Forked /\ Family
  /\ \A s \in Sh!Segments, d \in 0..2 : Own(s, d)

-----------------------------------------------------------------------------
\* the operators that come with the instance are those of this module
LEMMA SizesAgree ==
  ASSUME NEW S
  PROVE  Sh!Cardinality(S) = Cardinality(S)
  BY DEF Cardinality, Sh!Cardinality, Sh!IsFiniteSet, IsFiniteSet

\* the shell is no child, and a child is known by its segment and its depth
LEMMA Names ==
  ASSUME LineAssumption
  PROVE  /\ MaxSegments \in Nat /\ Sh!Segments \subseteq Nat
         /\ \A s \in Sh!Segments : s >= 1 /\ s # 0
         /\ Sh!Shell \in Processes /\ Sh!Shell \notin Sh!Children
         /\ Sh!Children \subseteq Processes
         /\ \A p \in Sh!Children : \E s \in Sh!Segments, d \in 0..2 : p = <<s, d>>
         /\ \A s \in Sh!Segments, d \in 0..2 :
              <<s, d>> \in Sh!Children /\ <<s, d>> \in Processes /\ <<s, d>> # Sh!Shell
         /\ \A s \in Sh!Segments, d \in -1..2 : <<s, d>> \in Tubes /\ <<s, d>> # Sh!Outside
         /\ Sh!Outside \in Tubes
  BY DEF LineAssumption, Sh!PipesAssumption, Sh!Segments, Sh!Shell, Processes, Sh!Children,
         Tubes, Sh!Outside

LEMMA LineType ==
  ASSUME LineAssumption, ShellTypeInv
  PROVE  /\ Sh!nsegs \in Sh!Segments /\ Sh!nsegs \in Nat
         /\ \A s \in 1..Sh!nsegs :
              line[s].argv \in Seq(STRING) /\ line[s].argv # <<>> /\ s \in Sh!Segments
<1>1. line \in Lines /\ Sh!nsegs \in Sh!Segments /\ DOMAIN line = 1..Sh!nsegs
  BY DEF LineAssumption, Sh!ShellAssumption, ShellTypeInv, Sh!nsegs
<1>2. \A s \in DOMAIN line : line[s].argv \in Seq(STRING) /\ line[s].argv # <<>>
  BY <1>1 DEF LineAssumption, Sh!ShellAssumption
<1> QED
  BY <1>1, <1>2 DEF LineAssumption, Sh!PipesAssumption, Sh!Segments

LEMMA InitEndsInv ==
  ASSUME LineAssumption, Sh!Init
  PROVE  EndsInv
<1>1. Sh!NoProcess \in Process /\ [Sh!NoProcess EXCEPT !.pc = "pipe"] \in Process
  <2>1. <<>> \in Seq(STRING) /\ Sh!Outside \in Tubes /\ {} \in SUBSET Sh!Ends
    BY Names
  <2>2. "unborn" \in Labels /\ "pipe" \in Labels
    BY DEF Labels, Past, Before, ShellLabels
  <2>3. Sh!NoProcess \in Process
    BY <2>1, <2>2 DEF Sh!NoProcess, Process
  <2>4. \A r \in Process : [r EXCEPT !.pc = "pipe"] \in Process
    BY <2>2 DEF Process
  <2> QED
    BY <2>3, <2>4
<1>2. ShellTypeInv
  BY <1>1 DEF Sh!Init, ShellTypeInv, Processes
<1>3. /\ proc[Sh!Shell].pc = "pipe" /\ proc[Sh!Shell].in = Sh!Outside
      /\ proc[Sh!Shell].out = Sh!Outside /\ proc[Sh!Shell].holds = {}
      /\ \A p \in Sh!Children : proc[p].pc = "unborn"
  BY Names DEF Sh!Init, Sh!NoProcess
<1>4. ShellHolds
  BY <1>3 DEF ShellHolds, ShellLabels
<1>5. \A s \in Sh!Segments, d \in 0..2 : proc[<<s, d>>].pc = "unborn"
  BY <1>3, Names
<1>6. Forked
  <2>1. 0 \in 0..Sh!nsegs /\ 0 < Sh!nsegs
    BY <1>2, LineType, Names
  <2>2. \A d \in {0} : d \in 0..2
    OBVIOUS
  <2>3. \A s \in Sh!Segments : ~(s <= 0)
    BY Names
  <2> QED
    BY <1>5, <2>1, <2>2, <2>3 DEF Forked
<1>7. Family
  <2>1. \A d \in 1..2 : d \in 0..2
    OBVIOUS
  <2> QED
    BY <1>5, <2>1 DEF Family
<1>8. \A s \in Sh!Segments, d \in 0..2 : Own(s, d)
  BY <1>5 DEF Own, Argued, Running, Before
<1> QED
  BY <1>2, <1>4, <1>6, <1>7, <1>8 DEF EndsInv

\* the processes above one that has been born are past their start
LEMMA Above ==
  ASSUME EndsInv, NEW s \in Sh!Segments, NEW d \in 0..2, NEW e \in 0..d - 1,
         proc[<<s, d>>].pc # "unborn"
  PROVE  e \in 0..2 /\ proc[<<s, e>>].pc \in Past
<1>1. \A c \in 1..2 : proc[<<s, c>>].pc # "unborn" => proc[<<s, c - 1>>].pc \in Past
  BY DEF EndsInv, Family
<1>2. proc[<<s, 1>>].pc # "unborn" => proc[<<s, 0>>].pc \in Past
  <2>1. 1 \in 1..2 /\ 1 - 1 = 0
    OBVIOUS
  <2> QED
    BY <1>1, <2>1
<1>3. proc[<<s, 2>>].pc # "unborn" => proc[<<s, 1>>].pc \in Past
  <2>1. 2 \in 1..2 /\ 2 - 1 = 1
    OBVIOUS
  <2> QED
    BY <1>1, <2>1
<1>4. "unborn" \notin Past
  BY DEF Past
<1>5. (d = 1 /\ e = 0) \/ (d = 2 /\ e = 0) \/ (d = 2 /\ e = 1)
  OBVIOUS
<1> QED
  BY <1>2, <1>3, <1>4, <1>5

(* What a process owns depends on the processes above it by their programs *)
(* only, and a process that is past its start keeps its program.           *)
LEMMA OwnStays ==
  ASSUME EndsInv, NEW s \in Sh!Segments, NEW d \in 0..2,
         proc'[<<s, d>>] = proc[<<s, d>>],
         \A e \in 0..2 : proc[<<s, e>>].pc \in Past
            => proc'[<<s, e>>].prog = proc[<<s, e>>].prog
  PROVE  Own(s, d)'
<1>1. Own(s, d)
  BY DEF EndsInv
<1>2. Argued(s, d)' /\ proc'[<<s, d>>].pc \in Past \cup Before
  BY <1>1 DEF Own, Argued
<1>3. ASSUME proc[<<s, d>>].pc \in Running
      PROVE  Placed(s, d)' /\ Holding(s, d)'
  <2>1. Placed(s, d) /\ Holding(s, d)
    BY <1>1, <1>3 DEF Own
  <2>2. \A e \in 0..d - 1 : proc'[<<s, e>>].prog = proc[<<s, e>>].prog
    <3>1. proc[<<s, d>>].pc # "unborn"
      BY <1>3 DEF Running
    <3> QED
      BY <3>1, Above
  <2>3. d > 0 => d - 1 \in 0..d - 1
    OBVIOUS
  <2>4. Placed(s, d)'
    BY <2>1, <2>2 DEF Placed
  <2>5. Holding(s, d)'
    BY <2>1, <2>2, <2>3 DEF Holding, Keeps, BothEnds
  <2> QED
    BY <2>4, <2>5
<1> QED
  BY <1>2, <1>3 DEF Own

(* A step keeps the invariant if it keeps what is said of the shell, and   *)
(* each process it changes owns what it should and is past its start, if   *)
(* it was, with the program it had.                                        *)
LEMMA Carry ==
  ASSUME LineAssumption, EndsInv, ShellTypeInv', ShellHolds', Forked',
         \A s \in Sh!Segments, d \in 0..2 : proc[<<s, d>>].pc \in Past
            => proc'[<<s, d>>].pc \in Past /\ proc'[<<s, d>>].prog = proc[<<s, d>>].prog,
         \A s \in Sh!Segments, d \in 0..2 :
            proc'[<<s, d>>] = proc[<<s, d>>] \/ Own(s, d)',
         \A s \in Sh!Segments, d \in 1..2 :
            proc[<<s, d>>].pc = "unborn" /\ proc'[<<s, d>>].pc # "unborn"
            => proc'[<<s, d - 1>>].pc \in Past
  PROVE  EndsInv'
<1>1. \A s \in Sh!Segments, d \in 0..2 : Own(s, d)'
  <2> TAKE s \in Sh!Segments, d \in 0..2
  <2>1. CASE proc'[<<s, d>>] = proc[<<s, d>>]
    BY <2>1, OwnStays
  <2> QED
    BY <2>1
<1>2. Family'
  <2> SUFFICES ASSUME NEW s \in Sh!Segments, NEW d \in 1..2, proc'[<<s, d>>].pc # "unborn"
               PROVE  proc'[<<s, d - 1>>].pc \in Past
    BY DEF Family
  <2>1. d - 1 \in 0..2
    OBVIOUS
  <2>2. proc[<<s, d>>].pc # "unborn" => proc[<<s, d - 1>>].pc \in Past
    BY DEF EndsInv, Family
  <2> QED
    BY <2>1, <2>2
<1> QED
  BY <1>1, <1>2 DEF EndsInv

\* one child goes on
LEMMA ChildMoves ==
  ASSUME LineAssumption, EndsInv, NEW s \in Sh!Segments, NEW d \in 0..2, NEW r \in Process,
         proc' = [proc EXCEPT ![<<s, d>>] = r], line' = line,
         proc[<<s, d>>].pc # "unborn", r.pc # "unborn",
         proc[<<s, d>>].pc \in Past => r.pc \in Past /\ r.prog = proc[<<s, d>>].prog,
         Own(s, d)'
  PROVE  EndsInv'
<1>1. ShellTypeInv /\ <<s, d>> \in Processes /\ <<s, d>> # Sh!Shell
  BY Names DEF EndsInv
<1>2. ShellTypeInv' /\ proc'[<<s, d>>] = r
      /\ \A p \in Processes : p # <<s, d>> => proc'[p] = proc[p]
  BY <1>1 DEF ShellTypeInv
<1>3. ShellHolds' /\ proc'[Sh!Shell] = proc[Sh!Shell]
  BY <1>1, <1>2, Names DEF EndsInv, ShellHolds
<1>4. \A x \in Sh!Segments, c \in 0..2 :
        \/ <<x, c>> = <<s, d>>
        \/ proc'[<<x, c>>] = proc[<<x, c>>]
  BY <1>2, Names
<1>5. \A x \in Sh!Segments, c \in 0..2 :
        /\ proc[<<x, c>>].pc \in Past
            => proc'[<<x, c>>].pc \in Past /\ proc'[<<x, c>>].prog = proc[<<x, c>>].prog
        /\ proc'[<<x, c>>].pc = "unborn" <=> proc[<<x, c>>].pc = "unborn"
        /\ proc'[<<x, c>>] = proc[<<x, c>>] \/ Own(x, c)'
  <2> TAKE x \in Sh!Segments, c \in 0..2
  <2>1. CASE <<x, c>> = <<s, d>>
    <3>1. x = s /\ c = d
      BY <2>1
    <3> QED
      BY <1>2, <3>1
  <2>2. CASE <<x, c>> # <<s, d>>
    BY <1>4, <2>2
  <2> QED
    BY <2>1, <2>2
<1>6. Forked'
  <2>1. PICK k \in 0..Sh!nsegs :
          /\ \A x \in Sh!Segments : proc[<<x, 0>>].pc # "unborn" <=> x <= k
          /\ proc[Sh!Shell].pc \in {"fork", "pipe"} => k < Sh!nsegs
    BY DEF EndsInv, Forked
  <2>2. Sh!nsegs' = Sh!nsegs
    BY DEF Sh!nsegs
  <2>3. \A x \in Sh!Segments : proc'[<<x, 0>>].pc # "unborn" <=> x <= k
    <3> TAKE x \in Sh!Segments
    <3>1. 0 \in 0..2
      OBVIOUS
    <3> QED
      BY <1>5, <2>1, <3>1
  <2> QED
    BY <1>3, <2>1, <2>2, <2>3 DEF Forked
<1>7. \A x \in Sh!Segments, c \in 1..2 :
        proc[<<x, c>>].pc = "unborn" /\ proc'[<<x, c>>].pc # "unborn"
        => proc'[<<x, c - 1>>].pc \in Past
  BY <1>5
<1> QED
  BY <1>2, <1>3, <1>5, <1>6, <1>7, Carry

(***************************************************************************)
(* The steps of a child                                                    *)
(***************************************************************************)

\* what is known of every child, and of one that stands above another
LEMMA Known ==
  ASSUME LineAssumption, EndsInv
  PROVE  /\ proc \in [Processes -> Process]
         /\ \A s \in Sh!Segments, d \in 0..2 :
              /\ <<s, d>> \in Processes /\ proc[<<s, d>>] \in Process /\ Own(s, d)
              /\ \A e \in 0..d - 1 : <<s, e>> \in Processes /\ <<s, e>> # <<s, d>>
<1>1. proc \in [Processes -> Process]
  BY DEF EndsInv, ShellTypeInv
<1>2. \A s \in Sh!Segments, d \in 0..2 :
        <<s, d>> \in Processes /\ proc[<<s, d>>] \in Process /\ Own(s, d)
  BY <1>1, Names DEF EndsInv
<1>3. \A s \in Sh!Segments, d \in 0..2 : \A e \in 0..d - 1 :
        <<s, e>> \in Processes /\ <<s, e>> # <<s, d>>
  <2> TAKE s \in Sh!Segments, d \in 0..2
  <2> TAKE e \in 0..d - 1
  <2>1. e \in 0..2 /\ e # d
    OBVIOUS
  <2> QED
    BY <1>2, <2>1
<1> QED
  BY <1>1, <1>2, <1>3

\* a step that changes the place only
LEMMA GotoKeeps ==
  ASSUME LineAssumption, EndsInv, NEW s \in Sh!Segments, NEW d \in 0..2,
         NEW from \in Past \cup Before, NEW to \in Past \cup Before,
         Sh!Goto(<<s, d>>, from, to), line' = line,
         \/ <<from, to>> \in {<<"born", "setup">>, <<"wait", "write">>}
         \/ to \in {"failed", "killed"} /\ from # "unborn"
  PROVE  EndsInv'
<1> DEFINE p == proc[<<s, d>>]
<1>1. PICK r : /\ r = [p EXCEPT !.pc = to] /\ p.pc = from
               /\ proc' = [proc EXCEPT ![<<s, d>>] = r]
  BY DEF Sh!Goto
<1>2. /\ p \in Process /\ Own(s, d) /\ proc'[<<s, d>>] = r
      /\ \A e \in 0..d - 1 : proc'[<<s, e>>] = proc[<<s, e>>]
  BY <1>1, Known
<1>3. /\ r \in Process /\ r.pc = to /\ r.prog = p.prog /\ r.argv = p.argv
      /\ r.holds = p.holds /\ r.in = p.in /\ r.out = p.out
  BY <1>1, <1>2 DEF Process, Labels
<1>4. Own(s, d)'
  <2>1. CASE from = "born" /\ to = "setup"
    BY <1>1, <1>2, <1>3, <2>1 DEF Own, Argued, Running, Before
  <2>2. CASE from = "wait" /\ to = "write"
    <3>1. Placed(s, d) /\ r.holds = {} /\ r.prog = "counter"
      BY <1>1, <1>2, <1>3, <2>2 DEF Own, Running, Holding
    <3>2. Placed(s, d)'
      BY <1>2, <1>3, <3>1 DEF Placed
    <3>3. Holding(s, d)'
      BY <1>2, <1>3, <2>2, <3>1 DEF Holding
    <3> QED
      BY <1>2, <1>3, <2>2, <3>2, <3>3 DEF Own, Argued, Past
  <2>3. CASE to \in {"failed", "killed"}
    BY <1>2, <1>3, <2>3 DEF Own, Argued, Running, Past
  <2> QED
    BY <2>1, <2>2, <2>3
<1>5. r.pc # "unborn" /\ p.pc # "unborn" /\ (p.pc \in Past => r.pc \in Past)
  BY <1>1, <1>3 DEF Past
<1> QED
  BY <1>1, <1>3, <1>4, <1>5, ChildMoves

\* stdin and stdout are in place, and nothing else is open
LEMMA SetupKeeps ==
  ASSUME LineAssumption, EndsInv, NEW s \in Sh!Segments, NEW d \in 0..2,
         Sh!Setup(<<s, d>>), line' = line
  PROVE  EndsInv'
<1> DEFINE p == proc[<<s, d>>]
<1>1. PICK r, source, target :
        /\ proc' = [proc EXCEPT ![<<s, d>>] = r]
        /\ r = [p EXCEPT !.pc = "exec", !.in = source, !.out = target, !.holds = {}]
        /\ source = Sh!Outside \/ (source = <<s - 1, -1>> /\ s # 1)
        /\ target \in {Sh!Outside, <<s, -1>>}
        /\ p.pc = "setup"
  BY DEF Sh!Setup
<1>2. /\ p \in Process /\ Own(s, d) /\ proc'[<<s, d>>] = r
      /\ \A e \in 0..d - 1 : proc'[<<s, e>>] = proc[<<s, e>>]
  BY <1>1, Known
<1>3. source \in Tubes /\ target \in Tubes
  <2>1. s # 1 => s - 1 \in Sh!Segments
    BY DEF LineAssumption, Sh!PipesAssumption, Sh!Segments
  <2> QED
    BY <1>1, <2>1, Names DEF Tubes
<1>4. /\ r \in Process /\ r.pc = "exec" /\ r.argv = p.argv
      /\ r.holds = {} /\ r.in = source /\ r.out = target
  BY <1>1, <1>2, <1>3 DEF Process, Labels, Before
<1>5. Own(s, d)'
  <2>1. r.argv # <<>>
    BY <1>1, <1>2, <1>4 DEF Own, Argued
  <2>2. Placed(s, d)'
    BY <1>1, <1>2, <1>4 DEF Placed
  <2>3. Holding(s, d)' /\ Argued(s, d)'
    BY <1>2, <1>4, <2>1 DEF Holding, Argued
  <2> QED
    BY <1>2, <1>4, <2>2, <2>3 DEF Own, Before
<1>6. r.pc # "unborn" /\ p.pc # "unborn" /\ p.pc \notin Past
  BY <1>1, <1>4 DEF Past
<1> QED
  BY <1>1, <1>4, <1>5, <1>6, ChildMoves

\* a process that goes on as the program its words name
Turned(s, d) ==
  LET p == proc[<<s, d>>]
      name == Head(p.argv)
      says == name = "pwd" /\ (d # 0 \/ buffering = "line")
      next == CASE says -> "write"
                [] name = "counter" /\ ~(Len(p.argv) > 1) -> "read"
                [] name = "cat" -> "start"
                [] name = "counter" /\ Len(p.argv) > 1 -> "start"
                [] OTHER -> "ended"
  IN  [p EXCEPT !.prog = name, !.pc = next, !.buf = IF says THEN 1 ELSE 0]

LEMMA ExecMoves ==
  ASSUME NEW s \in Sh!Segments, NEW d \in 0..2, Sh!Exec(<<s, d>>)
  PROVE  proc' = [proc EXCEPT ![<<s, d>>] = Turned(s, d)]
  BY DEF Sh!Exec, Sh!Command, Sh!PwdPrints, Turned

\* the program of a segment begins with nothing but stdin and stdout
LEMMA ExecKeeps ==
  ASSUME LineAssumption, EndsInv, NEW s \in Sh!Segments, NEW d \in 0..2,
         Sh!Exec(<<s, d>>), line' = line
  PROVE  EndsInv'
<1> DEFINE p == proc[<<s, d>>]
           name == Head(p.argv)
           says == name = "pwd" /\ (d # 0 \/ buffering = "line")
           next == CASE says -> "write"
                     [] name = "counter" /\ ~(Len(p.argv) > 1) -> "read"
                     [] name = "cat" -> "start"
                     [] name = "counter" /\ Len(p.argv) > 1 -> "start"
                     [] OTHER -> "ended"
           size == IF says THEN 1 ELSE 0
<1>1. PICK r : /\ proc' = [proc EXCEPT ![<<s, d>>] = r] /\ p.pc = "exec"
               /\ r = [p EXCEPT !.prog = name, !.pc = next, !.buf = size]
  BY DEF Sh!Exec, Sh!Command, Sh!PwdPrints
<1>2. /\ \/ next = "write" /\ name = "pwd"
         \/ next = "read" /\ name = "counter"
         \/ next = "start" /\ name = "cat"
         \/ next = "start" /\ name = "counter" /\ Len(p.argv) > 1
         \/ next = "ended"
      /\ size \in Int
  OBVIOUS
<1> HIDE DEF name, says, next, size
<1>3. /\ p \in Process /\ Own(s, d) /\ proc'[<<s, d>>] = r
      /\ \A e \in 0..d - 1 : proc'[<<s, e>>] = proc[<<s, e>>]
  BY <1>1, Known
<1>4. name \in STRING /\ next \in Labels
  <2>1. p.argv # <<>> /\ p.argv \in Seq(STRING)
    BY <1>1, <1>3 DEF Own, Argued, Process
  <2> QED
    BY <1>2, <2>1 DEF name, Labels, Past, Before
<1>5. /\ r \in Process /\ r.pc = next /\ r.prog = name /\ r.argv = p.argv
      /\ r.holds = p.holds /\ r.in = p.in /\ r.out = p.out
  BY <1>1, <1>2, <1>3, <1>4 DEF Process
<1>6. Own(s, d)'
  <2>1. Placed(s, d) /\ p.holds = {}
    BY <1>1, <1>3 DEF Own, Running, Holding
  <2>2. Placed(s, d)'
    BY <1>3, <1>5, <2>1 DEF Placed
  <2>3. Holding(s, d)' /\ Argued(s, d)'
    BY <1>2, <1>3, <1>5, <2>1 DEF Holding, Argued
  <2> QED
    BY <1>2, <1>3, <1>5, <2>2, <2>3 DEF Own, Past, Before
<1>7. r.pc # "unborn" /\ p.pc # "unborn" /\ p.pc \notin Past
  BY <1>1, <1>2, <1>5 DEF Past
<1> QED
  BY <1>1, <1>5, <1>6, <1>7, ChildMoves

\* no process moves
LEMMA StillEnds ==
  ASSUME LineAssumption, EndsInv, proc' = proc, line' = line
  PROVE  EndsInv'
<1>1. ShellTypeInv' /\ ShellHolds' /\ Family'
  BY DEF EndsInv, ShellTypeInv, ShellHolds, Family
<1>2. Forked'
  BY DEF EndsInv, Forked, Sh!nsegs
<1> QED
  BY <1>1, <1>2, Carry DEF EndsInv, Family

\* the parent of a child keeps one end of the pipe between them
LEMMA ParentClosesKeeps ==
  ASSUME LineAssumption, EndsInv, NEW s \in Sh!Segments, NEW d \in 0..2,
         Sh!ParentCloses(<<s, d>>), line' = line
  PROVE  EndsInv'
<1> DEFINE p == proc[<<s, d>>]
           closed == <<<<s, d>>, IF p.prog = "cat" THEN "r" ELSE "w">>
<1>1. PICK r : /\ proc' = [proc EXCEPT ![<<s, d>>] = r] /\ p.pc = "parent"
               /\ r = [p EXCEPT !.pc = "read", !.holds = p.holds \ {closed}]
  BY DEF Sh!ParentCloses
<1>2. /\ p \in Process /\ Own(s, d) /\ proc'[<<s, d>>] = r
      /\ \A e \in 0..d - 1 : proc'[<<s, e>>] = proc[<<s, e>>]
  BY <1>1, Known
<1>3. /\ r \in Process /\ r.pc = "read" /\ r.prog = p.prog
      /\ r.holds = p.holds \ {closed} /\ r.in = p.in /\ r.out = p.out
  BY <1>1, <1>2 DEF Process, Labels, Past
<1>4. Own(s, d)'
  <2>1. Placed(s, d) /\ p.holds = BothEnds(<<s, d>>) /\ p.prog \in {"cat", "counter"}
    BY <1>1, <1>2 DEF Own, Running, Holding
  <2>2. Placed(s, d)'
    BY <1>2, <1>3, <2>1 DEF Placed
  <2>3. r.holds \subseteq Keeps(s, d)'
    BY <1>2, <1>3, <2>1 DEF Keeps, BothEnds
  <2>4. Holding(s, d)' /\ Argued(s, d)'
    BY <1>2, <1>3, <2>1, <2>3 DEF Holding, Argued
  <2> QED
    BY <1>2, <1>3, <2>2, <2>4 DEF Own, Past
<1>5. r.pc # "unborn" /\ p.pc # "unborn" /\ r.pc \in Past
  BY <1>1, <1>3 DEF Past
<1> QED
  BY <1>1, <1>3, <1>4, <1>5, ChildMoves

\* the child of a cat keeps the end it reads from
LEMMA KidOfCatKeeps ==
  ASSUME LineAssumption, EndsInv, NEW s \in Sh!Segments, NEW d \in 0..2,
         Sh!KidOfCat(<<s, d>>), line' = line
  PROVE  EndsInv'
<1> DEFINE p == proc[<<s, d>>]
           above == <<s, d - 1>>
<1>1. PICK r : /\ proc' = [proc EXCEPT ![<<s, d>>] = r] /\ p.pc = "kid" /\ p.prog = "cat"
               /\ r = [p EXCEPT !.pc = "read", !.prog = "kid",
                                !.holds = p.holds \ {<<above, "w">>}]
  BY DEF Sh!KidOfCat, Sh!Parent
<1>2. /\ p \in Process /\ Own(s, d) /\ proc'[<<s, d>>] = r
      /\ \A e \in 0..d - 1 : proc'[<<s, e>>] = proc[<<s, e>>]
  BY <1>1, Known
<1>3. /\ r \in Process /\ r.pc = "read" /\ r.prog = "kid"
      /\ r.holds = p.holds \ {<<above, "w">>} /\ r.in = p.in /\ r.out = p.out
  BY <1>1, <1>2 DEF Process, Labels, Past
<1>4. Own(s, d)'
  <2>1. /\ Placed(s, d) /\ d > 0 /\ p.holds = BothEnds(above)
        /\ proc[above].prog = "cat"
    BY <1>1, <1>2 DEF Own, Running, Holding
  <2>2. Placed(s, d)'
    BY <1>2, <1>3, <2>1 DEF Placed
  <2>3. d - 1 \in 0..d - 1
    BY <2>1
  <2>4. r.holds \subseteq Keeps(s, d)' /\ proc'[above].prog = "cat"
    BY <1>2, <1>3, <2>1, <2>3 DEF Keeps, BothEnds
  <2>5. Holding(s, d)' /\ Argued(s, d)'
    BY <1>2, <1>3, <2>1, <2>4 DEF Holding, Argued
  <2> QED
    BY <1>2, <1>3, <2>2, <2>5 DEF Own, Past
<1>5. r.pc # "unborn" /\ p.pc # "unborn" /\ p.pc \notin Past
  BY <1>1, <1>3 DEF Past
<1> QED
  BY <1>1, <1>3, <1>4, <1>5, ChildMoves

\* the command of a counter writes into the pipe of the counter
LEMMA KidOfCounterKeeps ==
  ASSUME LineAssumption, EndsInv, NEW s \in Sh!Segments, NEW d \in 0..2,
         Sh!KidOfCounter(<<s, d>>), line' = line
  PROVE  EndsInv'
<1> DEFINE p == proc[<<s, d>>]
           above == <<s, d - 1>>
<1>1. PICK r : /\ proc' = [proc EXCEPT ![<<s, d>>] = r]
               /\ p.pc = "kid" /\ p.prog = "counter"
               /\ r = [p EXCEPT !.pc = "exec", !.argv = Tail(p.argv), !.out = above,
                                !.holds = p.holds \ {<<above, "r">>, <<above, "w">>}]
  BY DEF Sh!KidOfCounter, Sh!Parent
<1>2. /\ p \in Process /\ Own(s, d) /\ proc'[<<s, d>>] = r
      /\ \A e \in 0..d - 1 : proc'[<<s, e>>] = proc[<<s, e>>]
  BY <1>1, Known
<1>3. /\ d > 0 /\ p.holds = BothEnds(above) /\ proc[above].prog = "counter"
      /\ Placed(s, d) /\ Len(p.argv) > 1
  BY <1>1, <1>2 DEF Own, Argued, Running, Holding
<1>4. Tail(p.argv) \in Seq(STRING) /\ Tail(p.argv) # <<>>
  <2>1. p.argv \in Seq(STRING) /\ p.argv # <<>>
    BY <1>2, <1>3 DEF Process
  <2>2. Tail(p.argv) \in Seq(STRING) /\ Len(Tail(p.argv)) = Len(p.argv) - 1
    BY <2>1, HeadTailProperties
  <2>3. Len(Tail(p.argv)) > 0
    BY <1>3, <2>1, <2>2
  <2>4. Tail(p.argv) # <<>>
    <3>1. \A t : Len(t) > 0 => t # <<>>
      OBVIOUS
    <3> QED
      BY <2>3, <3>1, Zenon
  <2> QED
    BY <2>2, <2>4
<1>5. d - 1 \in 0..d - 1 /\ above \in Tubes
  <2>1. d - 1 \in 0..d - 1 /\ d - 1 \in -1..2
    BY <1>3
  <2> QED
    BY <2>1, Names
<1>6. /\ r \in Process /\ r.pc = "exec" /\ r.argv = Tail(p.argv)
      /\ r.holds = {} /\ r.in = p.in /\ r.out = above
  BY <1>1, <1>2, <1>3, <1>4, <1>5 DEF Process, Labels, Before, BothEnds
<1>7. Own(s, d)'
  <2>1. Placed(s, d)'
    BY <1>2, <1>3, <1>5, <1>6 DEF Placed
  <2>2. Holding(s, d)' /\ Argued(s, d)'
    BY <1>2, <1>4, <1>6 DEF Holding, Argued
  <2> QED
    BY <1>2, <1>6, <2>1, <2>2 DEF Own, Before
<1>8. r.pc # "unborn" /\ p.pc # "unborn" /\ p.pc \notin Past
  BY <1>1, <1>6 DEF Past
<1> QED
  BY <1>1, <1>6, <1>7, <1>8, ChildMoves

(* Reading and writing, a program keeps what it holds, or closes it all.   *)
LEMMA CopyKeeps ==
  ASSUME LineAssumption, EndsInv, NEW s \in Sh!Segments, NEW d \in 0..2,
         NEW r \in Process, line' = line,
         proc' = [proc EXCEPT ![<<s, d>>] = r],
         proc[<<s, d>>].pc \in {"read", "write"},
         r.prog = proc[<<s, d>>].prog, r.argv = proc[<<s, d>>].argv,
         r.in = proc[<<s, d>>].in, r.out = proc[<<s, d>>].out,
         \/ r.pc \in {"read", "write", "ended"} /\ r.holds \subseteq proc[<<s, d>>].holds
         \/ r.pc = "wait" /\ r.prog = "counter" /\ r.holds = {}
  PROVE  EndsInv'
<1> DEFINE p == proc[<<s, d>>]
<1>1. /\ p \in Process /\ Own(s, d) /\ proc'[<<s, d>>] = r
      /\ \A e \in 0..d - 1 : proc'[<<s, e>>] = proc[<<s, e>>]
  BY Known
<1>2. /\ p.pc \in {"read", "write"} /\ r.prog = p.prog /\ r.argv = p.argv
      /\ r.in = p.in /\ r.out = p.out
      /\ \/ r.pc \in {"read", "write", "ended"} /\ r.holds \subseteq p.holds
         \/ r.pc = "wait" /\ r.prog = "counter" /\ r.holds = {}
  OBVIOUS
<1>3. Own(s, d)'
  <2>1. Placed(s, d) /\ p.holds \subseteq Keeps(s, d)
    BY <1>1, <1>2 DEF Own, Running, Holding
  <2>2. p.prog = "kid" => d > 0 /\ proc[<<s, d - 1>>].prog = "cat" /\ d - 1 \in 0..d - 1
    BY <1>1, <1>2 DEF Own, Running, Holding
  <2>3. Placed(s, d)'
    BY <1>1, <1>2, <2>1 DEF Placed
  <2>4. r.holds \subseteq Keeps(s, d)'
    BY <1>1, <1>2, <2>1 DEF Keeps
  <2>5. Holding(s, d)' /\ Argued(s, d)'
    BY <1>1, <1>2, <2>2, <2>4 DEF Holding, Argued
  <2> QED
    BY <1>1, <1>2, <2>3, <2>5 DEF Own, Past
<1>4. r.pc # "unborn" /\ p.pc # "unborn" /\ r.pc \in Past
  BY <1>2 DEF Past
<1> QED
  BY <1>2, <1>3, <1>4, ChildMoves

\* a read, the end of the input, and a write
LEMMA CopyStepKeeps ==
  ASSUME LineAssumption, EndsInv, NEW s \in Sh!Segments, NEW d \in 0..2,
         Sh!Read(<<s, d>>) \/ Sh!ReadEnds(<<s, d>>) \/ Sh!Write(<<s, d>>), line' = line
  PROVE  EndsInv'
<1> DEFINE p == proc[<<s, d>>]
<1>1. p \in Process
  BY Known
<1>2. CASE Sh!Read(<<s, d>>)
  <2>1. CASE p.prog = "counter"
    BY <1>2, <2>1, StillEnds DEF Sh!Read
  <2>2. CASE p.prog # "counter"
    <3>1. PICK m \in 1..BUF_SIZE :
            /\ p.pc = "read"
            /\ proc' = [proc EXCEPT ![<<s, d>>].pc = "write", ![<<s, d>>].buf = m]
      BY <1>2, <2>2 DEF Sh!Read
    <3>2. PICK r : /\ proc' = [proc EXCEPT ![<<s, d>>] = r]
                   /\ r = [p EXCEPT !.pc = "write", !.buf = m]
      BY <3>1, Known
    <3>3. m \in Int /\ p.pc = "read"
      BY <3>1 DEF LineAssumption, Sh!FiltersAssumption
    <3>4. /\ r \in Process /\ r.pc = "write" /\ r.prog = p.prog /\ r.argv = p.argv
          /\ r.in = p.in /\ r.out = p.out /\ r.holds = p.holds
      BY <1>1, <3>2, <3>3 DEF Process, Labels, Past
    <3> QED
      BY <3>2, <3>3, <3>4, CopyKeeps
  <2> QED
    BY <2>1, <2>2
<1>3. CASE Sh!ReadEnds(<<s, d>>)
  <2> DEFINE next == IF p.prog # "counter" THEN "ended"
                     ELSE IF Sh!Command(<<s, d>>) THEN "wait" ELSE "write"
             size == IF p.prog = "counter" THEN 1 ELSE 0
  <2>1. PICK r : /\ proc' = [proc EXCEPT ![<<s, d>>] = r] /\ p.pc = "read"
                 /\ r = [p EXCEPT !.pc = next, !.buf = size, !.holds = {}]
    BY <1>3 DEF Sh!ReadEnds
  <2>2. /\ size \in Int
        /\ next \in {"ended", "write"} \/ (next = "wait" /\ p.prog = "counter")
    OBVIOUS
  <2> HIDE DEF next, size
  <2>3. /\ r \in Process /\ r.pc = next /\ r.prog = p.prog /\ r.argv = p.argv
        /\ r.in = p.in /\ r.out = p.out /\ r.holds = {}
    BY <1>1, <2>1, <2>2 DEF Process, Labels, Past
  <2> QED
    BY <2>1, <2>2, <2>3, CopyKeeps
<1>4. CASE Sh!Write(<<s, d>>)
  <2>1. PICK m \in 1..p.buf :
          /\ p.pc = "write"
          /\ proc' = [proc EXCEPT ![<<s, d>>].buf = p.buf - m,
               ![<<s, d>>].pc = IF m < p.buf THEN p.pc ELSE Sh!AfterWrite(<<s, d>>)]
    BY <1>4 DEF Sh!Write
  <2> DEFINE next == IF m < p.buf THEN p.pc ELSE Sh!AfterWrite(<<s, d>>)
  <2>2. next \in {"read", "write", "ended"}
    BY <2>1 DEF Sh!AfterWrite
  <2>3. PICK r : /\ proc' = [proc EXCEPT ![<<s, d>>] = r]
                 /\ r = [p EXCEPT !.buf = p.buf - m, !.pc = next]
    BY <2>1
  <2>4. p.pc = "write" /\ p.buf - m \in Int
    BY <1>1, <2>1 DEF Process
  <2> HIDE DEF next
  <2>5. /\ r \in Process /\ r.pc = next /\ r.prog = p.prog /\ r.argv = p.argv
        /\ r.in = p.in /\ r.out = p.out /\ r.holds = p.holds
    BY <1>1, <2>2, <2>3, <2>4 DEF Process, Labels, Past
  <2> QED
    BY <2>2, <2>3, <2>4, <2>5, CopyKeeps
<1> QED
  BY <1>2, <1>3, <1>4

-----------------------------------------------------------------------------
(***************************************************************************)
(* The steps of the shell, and those that touch two processes or more      *)
(***************************************************************************)

\* the shell goes on by itself
LEMMA ShellMoves ==
  ASSUME LineAssumption, EndsInv, NEW r \in Process, line' = line,
         proc' = [proc EXCEPT ![Sh!Shell] = r],
         r.in = Sh!Outside, r.out = Sh!Outside, r.pc \in ShellLabels,
         r.pc \notin {"fork", "close"} => r.holds = {},
         r.pc \in {"fork", "pipe"} => proc[Sh!Shell].pc \in {"fork", "pipe"}
  PROVE  EndsInv'
<1>1. ShellTypeInv' /\ proc'[Sh!Shell] = r
  BY Known, Names DEF EndsInv, ShellTypeInv
<1>2. \A s \in Sh!Segments, d \in 0..2 : proc'[<<s, d>>] = proc[<<s, d>>]
  BY Known, Names
<1>3. ShellHolds'
  BY <1>1 DEF ShellHolds
<1>4. Forked'
  <2>1. PICK k \in 0..Sh!nsegs :
          /\ \A x \in Sh!Segments : proc[<<x, 0>>].pc # "unborn" <=> x <= k
          /\ proc[Sh!Shell].pc \in {"fork", "pipe"} => k < Sh!nsegs
    BY DEF EndsInv, Forked
  <2>2. Sh!nsegs' = Sh!nsegs /\ 0 \in 0..2
    BY DEF Sh!nsegs
  <2>3. \A x \in Sh!Segments : proc'[<<x, 0>>].pc # "unborn" <=> x <= k
    BY <1>2, <2>1, <2>2
  <2> QED
    BY <1>1, <2>1, <2>2, <2>3 DEF Forked
<1> QED
  <2>1. \A d \in 1..2 : d \in 0..2
    OBVIOUS
  <2> QED
    BY <1>1, <1>2, <1>3, <1>4, <2>1, Carry

LEMMA ShellKeeps ==
  ASSUME LineAssumption, EndsInv, line' = line,
         \/ Sh!MakePipes \/ Sh!PipeFails \/ Sh!ForkFails \/ Sh!ClosePipes \/ Sh!Wait
  PROVE  EndsInv'
<1> DEFINE p == proc[Sh!Shell]
<1>1. p \in Process /\ p.in = Sh!Outside /\ p.out = Sh!Outside
      /\ (p.pc \notin {"fork", "close"} => p.holds = {})
  BY Known, Names DEF EndsInv, ShellHolds
<1>2. \A next \in {"fork", "wait", "prompt"}, ends \in SUBSET Sh!Ends :
        /\ proc' = [proc EXCEPT ![Sh!Shell] = [p EXCEPT !.pc = next, !.holds = ends]]
        /\ next # "fork" => ends = {}
        /\ next = "fork" => p.pc = "pipe"
        => EndsInv'
  <2> SUFFICES ASSUME NEW next \in {"fork", "wait", "prompt"}, NEW ends \in SUBSET Sh!Ends,
                 proc' = [proc EXCEPT ![Sh!Shell] = [p EXCEPT !.pc = next, !.holds = ends]],
                 next # "fork" => ends = {},
                 next = "fork" => p.pc = "pipe"
               PROVE  EndsInv'
    OBVIOUS
  <2>1. PICK r : r = [p EXCEPT !.pc = next, !.holds = ends]
    OBVIOUS
  <2>2. r \in Process /\ r.pc = next /\ r.holds = ends /\ r.in = p.in /\ r.out = p.out
    BY <1>1, <2>1 DEF Process, Labels, ShellLabels
  <2> QED
    BY <1>1, <2>1, <2>2, ShellMoves DEF ShellLabels
<1>3. Sh!pipes \in SUBSET Sh!Ends /\ {} \in SUBSET Sh!Ends
  <2>1. Sh!nsegs \in Sh!Segments
    BY LineType DEF EndsInv
  <2> QED
    BY <2>1 DEF LineAssumption, Sh!PipesAssumption, Sh!Segments, Sh!pipes, Sh!Ends
<1>4. CASE Sh!MakePipes
  <2>1. /\ p.pc = "pipe"
        /\ proc' = [proc EXCEPT ![Sh!Shell] = [p EXCEPT !.pc = "fork", !.holds = Sh!pipes]]
    BY <1>4, Known, Names DEF Sh!MakePipes
  <2> QED
    BY <1>2, <1>3, <2>1
<1>5. CASE Sh!ForkFails \/ Sh!ClosePipes
  <2>1. proc' = [proc EXCEPT ![Sh!Shell] = [p EXCEPT !.pc = "wait", !.holds = {}]]
    BY <1>5, Known, Names DEF Sh!ForkFails, Sh!ClosePipes
  <2> QED
    BY <1>2, <1>3, <2>1
<1>6. CASE Sh!PipeFails \/ Sh!Wait
  <2>1. p.holds = {} /\ proc' = [proc EXCEPT ![Sh!Shell] = [p EXCEPT !.pc = "prompt"]]
    BY <1>1, <1>6 DEF Sh!PipeFails, Sh!Wait, Sh!Goto
  <2>2. [p EXCEPT !.pc = "prompt"] = [p EXCEPT !.pc = "prompt", !.holds = {}]
    BY <1>1, <2>1 DEF Process
  <2> QED
    BY <1>2, <1>3, <2>1, <2>2
<1> QED
  BY <1>4, <1>5, <1>6

\* the next child has the pipes of the shell and the words of its segment
LEMMA Forking ==
  ASSUME LineAssumption, EndsInv, Sh!Fork
  PROVE  LET p == proc[Sh!Shell] IN
         \E j \in 1..Sh!nsegs : \E q, r \in Process :
           /\ j \in Sh!Segments
           /\ \A x \in Sh!Segments : proc[<<x, 0>>].pc # "unborn" <=> x < j
           /\ p.pc = "fork"
           /\ q.pc = "born" /\ q.argv = line[j].argv /\ q.holds = p.holds /\ q.buf = p.buf
           /\ r.in = p.in /\ r.out = p.out /\ r.holds = p.holds /\ r.buf = p.buf
           /\ r.pc \in {"close", "fork"} /\ (r.pc = "fork" => j # Sh!nsegs)
           /\ proc' \in [Processes -> Process]
           /\ proc'[Sh!Shell] = r /\ proc'[<<j, 0>>] = q
           /\ \A x \in Sh!Segments, c \in 0..2 :
                proc'[<<x, c>>] = proc[<<x, c>>] \/ (x = j /\ c = 0)
<1> DEFINE p == proc[Sh!Shell]
<1>1. PICK k \in 0..Sh!nsegs :
        /\ \A x \in Sh!Segments : proc[<<x, 0>>].pc # "unborn" <=> x <= k
        /\ p.pc \in {"fork", "pipe"} => k < Sh!nsegs
  BY DEF EndsInv, Forked
<1>2. p.pc = "fork" /\ Sh!nsegs \in Sh!Segments /\ Sh!nsegs \in Nat /\ ShellTypeInv
  BY LineType DEF Sh!Fork, EndsInv
<1>3. PICK j : j = k + 1
  OBVIOUS
<1>4. k < Sh!nsegs /\ k \in Nat /\ j \in 1..Sh!nsegs /\ j \in Nat
  BY <1>1, <1>2, <1>3
<1>5. j \in Sh!Segments /\ line[j].argv \in Seq(STRING) /\ line[j].argv # <<>>
  BY <1>2, <1>4, LineType
<1>6. Sh!Cardinality(Sh!pids) = k
  <2>1. Sh!pids = 1..k
    BY <1>1, <1>2, <1>4 DEF Sh!pids, LineAssumption, Sh!PipesAssumption, Sh!Segments
  <2>2. Cardinality(1..k) = k
    BY <1>4, FS_Interval
  <2> QED
    BY <2>1, <2>2, SizesAgree
<1>7. /\ <<j, 0>> \in Processes /\ <<j, 0>> # Sh!Shell /\ Sh!Shell \in Processes
      /\ \A x \in Sh!Segments, c \in 0..2 :
           <<x, c>> \in Processes /\ <<x, c>> # Sh!Shell /\ x \in Nat
  <2>1. 0 \in 0..2
    OBVIOUS
  <2> QED
    BY <1>5, <2>1, Names
<1>8. PICK r, q :
        /\ proc' = [proc EXCEPT ![<<j, 0>>] = q, ![Sh!Shell] = r]
        /\ q = [p EXCEPT !.pc = "born", !.argv = line[j].argv]
        /\ r = [p EXCEPT !.pc = IF j = Sh!nsegs THEN "close" ELSE "fork"]
  <2>1. PICK q : q = [p EXCEPT !.pc = "born", !.argv = line[j].argv]
    OBVIOUS
  <2>2. PICK next : next = IF j = Sh!nsegs THEN "close" ELSE "fork"
    OBVIOUS
  <2>3. proc' = [proc EXCEPT ![<<j, 0>>] = q, ![Sh!Shell].pc = next]
    BY <1>3, <1>6, <2>1, <2>2 DEF Sh!Fork
  <2>4. proc' = [proc EXCEPT ![<<j, 0>>] = q, ![Sh!Shell] = [p EXCEPT !.pc = next]]
    BY <1>7, <2>3, Known
  <2> QED
    BY <2>1, <2>2, <2>4
<1>9. p \in Process
  BY Known, Names
<1>10. /\ q \in Process /\ q.pc = "born" /\ q.argv = line[j].argv
       /\ q.holds = p.holds /\ q.buf = p.buf
  BY <1>5, <1>8, <1>9 DEF Process, Labels, Before
<1>11. /\ r \in Process /\ r.in = p.in /\ r.out = p.out /\ r.holds = p.holds
       /\ r.buf = p.buf
       /\ r.pc \in {"close", "fork"} /\ (r.pc = "fork" => j # Sh!nsegs)
  <2>1. PICK next \in {"close", "fork"} :
          /\ r = [p EXCEPT !.pc = next]
          /\ next = "fork" => j # Sh!nsegs
    BY <1>8
  <2>2. /\ r \in Process /\ r.in = p.in /\ r.out = p.out /\ r.holds = p.holds
        /\ r.buf = p.buf /\ r.pc = next
    BY <1>9, <2>1 DEF Process, Labels, ShellLabels
  <2> QED
    BY <2>1, <2>2
<1>12. proc' \in [Processes -> Process] /\ proc'[Sh!Shell] = r /\ proc'[<<j, 0>>] = q
  BY <1>7, <1>8, <1>10, <1>11, Known
<1>13. \A x \in Sh!Segments, c \in 0..2 :
         \/ proc'[<<x, c>>] = proc[<<x, c>>]
         \/ x = j /\ c = 0
  <2> TAKE x \in Sh!Segments, c \in 0..2
  <2>1. CASE <<x, c>> = <<j, 0>>
    BY <2>1
  <2>2. CASE <<x, c>> # <<j, 0>>
    BY <1>7, <1>8, <2>2, Known
  <2> QED
    BY <2>1, <2>2
<1>14. \A x \in Sh!Segments : proc[<<x, 0>>].pc # "unborn" <=> x < j
  <2>1. \A x \in Sh!Segments : x \in Nat
    BY Names
  <2>2. \A x \in Nat : x <= k <=> x < j
    BY <1>3, <1>4
  <2> QED
    BY <1>1, <2>1, <2>2
<1> QED
  BY <1>2, <1>4, <1>5, <1>10, <1>11, <1>12, <1>13, <1>14

LEMMA ForkKeeps ==
  ASSUME LineAssumption, EndsInv, line' = line, Sh!Fork
  PROVE  EndsInv'
<1> DEFINE p == proc[Sh!Shell]
<1>1. PICK j \in 1..Sh!nsegs, q \in Process, r \in Process :
        /\ j \in Sh!Segments
        /\ \A x \in Sh!Segments : proc[<<x, 0>>].pc # "unborn" <=> x < j
        /\ q.pc = "born" /\ q.argv = line[j].argv
        /\ r.in = p.in /\ r.out = p.out
        /\ r.pc \in {"close", "fork"} /\ (r.pc = "fork" => j # Sh!nsegs)
        /\ proc' \in [Processes -> Process]
        /\ proc'[Sh!Shell] = r /\ proc'[<<j, 0>>] = q
        /\ \A x \in Sh!Segments, c \in 0..2 :
             proc'[<<x, c>>] = proc[<<x, c>>] \/ (x = j /\ c = 0)
  BY Forking
<1>2. /\ ShellTypeInv /\ Sh!nsegs \in Nat
      /\ line[j].argv \in Seq(STRING) /\ line[j].argv # <<>>
  BY <1>1, LineType DEF EndsInv
<1>3. ShellTypeInv'
  BY <1>1, <1>2 DEF ShellTypeInv
<1>4. proc[<<j, 0>>].pc = "unborn" /\ Own(j, 0)'
  <2>1. proc[<<j, 0>>].pc = "unborn"
    BY <1>1
  <2> QED
    BY <1>1, <1>2, <2>1 DEF Own, Argued, Running, Before
<1>5. ShellHolds'
  BY <1>1 DEF EndsInv, ShellHolds, ShellLabels
<1>6. Forked'
  <2>1. Sh!nsegs' = Sh!nsegs
    BY DEF Sh!nsegs
  <2>2. \A x \in Sh!Segments : proc'[<<x, 0>>].pc # "unborn" <=> x <= j
    <3> TAKE x \in Sh!Segments
    <3>1. x \in Nat /\ 0 \in 0..2
      BY Names
    <3>2. CASE x = j
      BY <1>1, <3>1, <3>2
    <3>3. CASE x # j
      <4>1. proc'[<<x, 0>>] = proc[<<x, 0>>]
        BY <1>1, <3>1, <3>3
      <4> QED
        BY <1>1, <3>1, <3>3, <4>1
    <3> QED
      BY <3>2, <3>3
  <2>3. j \in 0..Sh!nsegs /\ (proc'[Sh!Shell].pc \in {"fork", "pipe"} => j < Sh!nsegs)
    BY <1>1, <1>2
  <2> QED
    BY <2>1, <2>2, <2>3 DEF Forked
<1>7. \A x \in Sh!Segments, c \in 0..2 :
         /\ proc[<<x, c>>].pc \in Past
             => proc'[<<x, c>>].pc \in Past /\ proc'[<<x, c>>].prog = proc[<<x, c>>].prog
         /\ proc'[<<x, c>>] = proc[<<x, c>>] \/ Own(x, c)'
  <2>1. "unborn" \notin Past
    BY DEF Past
  <2> QED
    BY <1>1, <1>4, <2>1
<1>8. \A x \in Sh!Segments, c \in 1..2 : proc'[<<x, c>>] = proc[<<x, c>>]
  <2>1. \A c \in 1..2 : c \in 0..2 /\ c # 0
    OBVIOUS
  <2> QED
    BY <1>1, <2>1
<1> QED
  BY <1>3, <1>5, <1>6, <1>7, <1>8, Carry

\* the process <<s, d>> becomes r and forks q, the process <<s, e>>
Begun(s, d, e, r, q) ==
  LET p == proc[<<s, d>>] IN
  /\ e = d + 1 /\ p.pc = "start"
  /\ Placed(s, d) /\ p.prog \in {"cat", "counter"}
  /\ p.prog = "counter" => Len(p.argv) > 1
  /\ r.pc = "parent" /\ q.pc = "kid"
  /\ \A x \in {r, q} :
       /\ x.prog = p.prog /\ x.argv = p.argv /\ x.in = p.in /\ x.out = p.out
       /\ x.buf = p.buf /\ x.holds = BothEnds(<<s, d>>)
  /\ proc' \in [Processes -> Process]
  /\ proc'[<<s, d>>] = r /\ proc'[Sh!Shell] = proc[Sh!Shell]
  /\ e \in 0..2 => proc'[<<s, e>>] = q /\ proc[<<s, e>>].pc = "unborn"
  /\ \A x \in Sh!Segments, c \in 0..2 :
       \/ proc'[<<x, c>>] = proc[<<x, c>>]
       \/ x = s /\ c = d
       \/ x = s /\ c = e

(* The child of a program begins with what the parent has, and with both   *)
(* ends of the pipe between them.                                          *)
LEMMA Starting ==
  ASSUME LineAssumption, EndsInv, NEW s \in Sh!Segments, NEW d \in 0..2,
         Sh!Start(<<s, d>>)
  PROVE  \E e \in Nat, r \in Process, q \in Process : Begun(s, d, e, r, q)
<1> DEFINE p == proc[<<s, d>>]
<1>1. PICK e : e = d + 1
  OBVIOUS
<1>2. PICK r, q :
        /\ proc' = [proc EXCEPT ![<<s, d>>] = r, ![<<s, e>>] = q]
        /\ r = [p EXCEPT !.holds = p.holds \cup BothEnds(<<s, d>>), !.pc = "parent"]
        /\ q = [p EXCEPT !.holds = p.holds \cup BothEnds(<<s, d>>), !.pc = "kid"]
        /\ p.pc = "start"
  BY <1>1 DEF Sh!Start, Sh!Child, BothEnds
<1>3. /\ p \in Process /\ Own(s, d) /\ <<s, d>> \in Processes /\ <<s, d>> # Sh!Shell
      /\ e # d /\ e \in Nat /\ d \in Nat
  <2>1. e # d /\ e \in Nat /\ d \in Nat
    BY <1>1
  <2> QED
    BY <2>1, Known, Names
<1>4. /\ Placed(s, d) /\ p.holds = {} /\ p.prog \in {"cat", "counter"}
      /\ p.prog = "counter" => Len(p.argv) > 1
  BY <1>2, <1>3 DEF Own, Argued, Running, Holding
<1>5. BothEnds(<<s, d>>) \subseteq Sh!Ends
  <2>1. d \in -1..2
    OBVIOUS
  <2> QED
    BY <2>1 DEF BothEnds, Sh!Ends
<1>6. \A x \in {r, q} :
        /\ x \in Process /\ x.prog = p.prog /\ x.argv = p.argv /\ x.in = p.in
        /\ x.out = p.out /\ x.holds = BothEnds(<<s, d>>) /\ x.buf = p.buf
  <2>1. \A x : \A ends \in SUBSET Sh!Ends, label \in Labels :
          x = [p EXCEPT !.holds = ends, !.pc = label]
          => /\ x \in Process /\ x.prog = p.prog /\ x.argv = p.argv /\ x.in = p.in
             /\ x.out = p.out /\ x.holds = ends /\ x.buf = p.buf
    BY <1>3 DEF Process
  <2>2. "parent" \in Labels /\ "kid" \in Labels
    BY DEF Labels, Past, Before
  <2>3. PICK ends \in SUBSET Sh!Ends :
          ends = p.holds \cup BothEnds(<<s, d>>) /\ ends = BothEnds(<<s, d>>)
    BY <1>4, <1>5
  <2>4. /\ r = [p EXCEPT !.holds = ends, !.pc = "parent"]
        /\ q = [p EXCEPT !.holds = ends, !.pc = "kid"]
    BY <1>2, <2>3
  <2>5. /\ r \in Process /\ r.prog = p.prog /\ r.argv = p.argv /\ r.in = p.in
        /\ r.out = p.out /\ r.holds = ends /\ r.buf = p.buf
    BY <2>1, <2>2, <2>4
  <2>6. /\ q \in Process /\ q.prog = p.prog /\ q.argv = p.argv /\ q.in = p.in
        /\ q.out = p.out /\ q.holds = ends /\ q.buf = p.buf
    BY <2>1, <2>2, <2>4
  <2> QED
    BY <2>3, <2>5, <2>6
<1>7. r.pc = "parent" /\ q.pc = "kid"
  BY <1>2, <1>3 DEF Process
<1>8. /\ proc'[<<s, d>>] = r /\ proc' \in [Processes -> Process] /\ proc'[Sh!Shell] = proc[Sh!Shell]
      /\ e \in 0..2 => proc'[<<s, e>>] = q
  <2>1. <<s, e>> # <<s, d>> /\ <<s, e>> # Sh!Shell /\ Sh!Shell \in Processes
    BY <1>3, Names DEF Sh!Shell
  <2>2. e \in 0..2 => <<s, e>> \in Processes
    BY Names
  <2>3. proc' \in [Processes -> Process]
    BY <1>2, <1>6, Known
  <2> QED
    BY <1>2, <1>3, <2>1, <2>2, <2>3, Known
<1>9. \A x \in Sh!Segments, c \in 0..2 :
        \/ proc'[<<x, c>>] = proc[<<x, c>>]
        \/ x = s /\ c = d
        \/ x = s /\ c = e
  <2> TAKE x \in Sh!Segments, c \in 0..2
  <2>1. CASE <<x, c>> = <<s, d>>
    BY <2>1
  <2>2. CASE <<x, c>> = <<s, e>>
    BY <2>2
  <2>3. CASE <<x, c>> # <<s, d>> /\ <<x, c>> # <<s, e>>
    BY <1>2, <2>3, Known
  <2> QED
    BY <2>1, <2>2, <2>3
<1>10. e \in 0..2 => proc[<<s, e>>].pc = "unborn"
  <2>1. p.pc \notin Past
    BY <1>2 DEF Past
  <2>2. e \in 0..2 => e \in 1..2 /\ e - 1 = d
    BY <1>1
  <2> QED
    BY <2>1, <2>2 DEF EndsInv, Family
<1>11. e \in Nat /\ r \in Process /\ q \in Process
  BY <1>3, <1>6
<1> QED
  <2> HIDE DEF p
  <2>1. /\ e = d + 1 /\ p.pc = "start"
        /\ Placed(s, d) /\ p.prog \in {"cat", "counter"}
        /\ p.prog = "counter" => Len(p.argv) > 1
        /\ r.pc = "parent" /\ q.pc = "kid"
    BY <1>1, <1>2, <1>4, <1>7
  <2>2. /\ proc'[<<s, d>>] = r /\ proc'[Sh!Shell] = proc[Sh!Shell]
        /\ e \in 0..2 => proc'[<<s, e>>] = q /\ proc[<<s, e>>].pc = "unborn"
    BY <1>8, <1>10
  <2> QED
    BY <1>6, <1>8, <1>9, <1>11, <2>1, <2>2, Zenon DEF p, Begun

LEMMA StartKeeps ==
  ASSUME LineAssumption, EndsInv, NEW s \in Sh!Segments, NEW d \in 0..2,
         Sh!Start(<<s, d>>), line' = line
  PROVE  EndsInv'
<1> DEFINE p == proc[<<s, d>>]
<1>1. PICK e \in Nat, r \in Process, q \in Process : Begun(s, d, e, r, q)
  BY Starting
<1>2. /\ e \in Nat /\ r \in Process /\ q \in Process
      /\ e = d + 1 /\ p.pc = "start"
      /\ Placed(s, d) /\ p.prog \in {"cat", "counter"}
      /\ p.prog = "counter" => Len(p.argv) > 1
      /\ r.pc = "parent" /\ q.pc = "kid"
      /\ \A x \in {r, q} :
           /\ x.prog = p.prog /\ x.argv = p.argv /\ x.in = p.in /\ x.out = p.out
           /\ x.buf = p.buf /\ x.holds = BothEnds(<<s, d>>)
      /\ proc' \in [Processes -> Process]
      /\ proc'[<<s, d>>] = r /\ proc'[Sh!Shell] = proc[Sh!Shell]
      /\ e \in 0..2 => proc'[<<s, e>>] = q /\ proc[<<s, e>>].pc = "unborn"
      /\ \A x \in Sh!Segments, c \in 0..2 :
           \/ proc'[<<x, c>>] = proc[<<x, c>>]
           \/ x = s /\ c = d
           \/ x = s /\ c = e
  BY <1>1 DEF Begun
<1>3. ShellTypeInv'
  BY <1>2 DEF EndsInv, ShellTypeInv
<1>4. \A c \in 0..d : proc'[<<s, c>>].prog = proc[<<s, c>>].prog
  <2> TAKE c \in 0..d
  <2>1. c \in 0..2 /\ c # e
    BY <1>2
  <2> QED
    BY <1>2, <2>1
<1>5. Own(s, d)'
  <2>1. Placed(s, d)'
    <3>1. \A c \in 0..d - 1 : c \in 0..d
      OBVIOUS
    <3> QED
      BY <1>2, <1>4, <3>1 DEF Placed
  <2>2. Holding(s, d)' /\ Argued(s, d)'
    BY <1>2 DEF Holding, Argued
  <2> QED
    BY <1>2, <2>1, <2>2 DEF Own, Past
<1>6. ASSUME e \in 0..2 PROVE Own(s, e)'
  <2>1. e - 1 = d /\ d \in 0..d /\ \A c \in 0..d - 1 : c \in 0..e - 1 /\ c \in 0..d
    BY <1>2
  <2>2. Placed(s, e)'
    BY <1>2, <1>4, <1>6, <2>1 DEF Placed
  <2>3. Holding(s, e)'
    BY <1>2, <1>4, <1>6, <2>1 DEF Holding
  <2>4. Argued(s, e)'
    BY <1>2, <1>6 DEF Argued
  <2> QED
    BY <1>2, <1>6, <2>2, <2>3, <2>4 DEF Own, Before
<1>7. ShellHolds'
  BY <1>2 DEF EndsInv, ShellHolds
<1>8. Forked'
  <2>1. PICK k \in 0..Sh!nsegs :
          /\ \A x \in Sh!Segments : proc[<<x, 0>>].pc # "unborn" <=> x <= k
          /\ proc[Sh!Shell].pc \in {"fork", "pipe"} => k < Sh!nsegs
    BY DEF EndsInv, Forked
  <2>2. Sh!nsegs' = Sh!nsegs /\ 0 \in 0..2 /\ e # 0
    BY <1>2 DEF Sh!nsegs
  <2>3. \A x \in Sh!Segments : proc'[<<x, 0>>].pc # "unborn" <=> x <= k
    BY <1>2, <2>1, <2>2
  <2> QED
    BY <1>2, <2>1, <2>2, <2>3 DEF Forked
<1>9. \A x \in Sh!Segments, c \in 0..2 :
         /\ proc[<<x, c>>].pc \in Past
             => proc'[<<x, c>>].pc \in Past /\ proc'[<<x, c>>].prog = proc[<<x, c>>].prog
         /\ proc'[<<x, c>>] = proc[<<x, c>>] \/ Own(x, c)'
  <2>1. "unborn" \notin Past /\ p.pc \notin Past
    BY <1>2 DEF Past
  <2> QED
    BY <1>2, <1>5, <1>6, <2>1
<1>10. \A x \in Sh!Segments, c \in 1..2 :
         proc[<<x, c>>].pc = "unborn" /\ proc'[<<x, c>>].pc # "unborn"
         => proc'[<<x, c - 1>>].pc \in Past
  <2> SUFFICES ASSUME NEW x \in Sh!Segments, NEW c \in 1..2,
                      proc[<<x, c>>].pc = "unborn", proc'[<<x, c>>].pc # "unborn"
               PROVE  proc'[<<x, c - 1>>].pc \in Past
    OBVIOUS
  <2>1. x = s /\ c = e
    <3>1. c \in 0..2
      OBVIOUS
    <3>2. ~(x = s /\ c = d)
      BY <1>2
    <3> QED
      BY <1>2, <3>1, <3>2
  <2>2. c - 1 = d
    BY <1>2, <2>1
  <2> QED
    BY <1>2, <2>1, <2>2 DEF Past
<1> QED
  BY <1>2, <1>3, <1>7, <1>8, <1>9, <1>10, Carry

\* Ctrl-C kills whoever runs a program
LEMMA CtrlCKeeps ==
  ASSUME LineAssumption, EndsInv, line' = line, Sh!CtrlC
  PROVE  EndsInv'
<1>1. /\ proc' \in [Processes -> Process] /\ proc'[Sh!Shell] = proc[Sh!Shell]
      /\ \A q \in Processes :
           \/ proc'[q] = proc[q]
           \/ /\ proc[q].pc \notin Sh!Gone /\ proc'[q].pc = "killed"
              /\ proc'[q].prog = proc[q].prog
  <2>1. Sh!Shell \in Processes /\ DOMAIN proc = Processes
    BY Known, Names
  <2>2. \A q \in Processes :
          /\ [proc[q] EXCEPT !.pc = "killed"] \in Process
          /\ [proc[q] EXCEPT !.pc = "killed"].pc = "killed"
          /\ [proc[q] EXCEPT !.pc = "killed"].prog = proc[q].prog
    BY Known DEF Process, Labels, Past
  <2>3. proc' = [q \in Processes |->
                   IF q = Sh!Shell \/ ~Sh!Live(q) \/ proc[q].pc = "born" THEN proc[q]
                   ELSE [proc[q] EXCEPT !.pc = "killed"]]
    BY <2>1 DEF Sh!CtrlC
  <2>4. \A q \in Processes :
          proc'[q] = IF q = Sh!Shell \/ ~Sh!Live(q) \/ proc[q].pc = "born" THEN proc[q]
                     ELSE [proc[q] EXCEPT !.pc = "killed"]
    BY <2>3, Zenon
  <2>5. \A q \in Processes : proc'[q] \in Process
    BY <2>2, <2>4, Known, Zenon
  <2>6. proc' \in [Processes -> Process]
    BY <2>3, <2>4, <2>5, Zenon
  <2> QED
    BY <2>1, <2>2, <2>4, <2>6 DEF Sh!Live
<1>2. \A s \in Sh!Segments, d \in 0..2 :
        \/ proc'[<<s, d>>] = proc[<<s, d>>]
        \/ /\ proc[<<s, d>>].pc # "unborn" /\ proc'[<<s, d>>].pc = "killed"
           /\ proc'[<<s, d>>].prog = proc[<<s, d>>].prog
  <2>1. "unborn" \in Sh!Gone
    BY DEF Sh!Gone
  <2> QED
    BY <1>1, <2>1, Known
<1>3. ShellTypeInv' /\ ShellHolds'
  BY <1>1 DEF EndsInv, ShellTypeInv, ShellHolds
<1>4. Forked'
  <2>1. PICK k \in 0..Sh!nsegs :
          /\ \A x \in Sh!Segments : proc[<<x, 0>>].pc # "unborn" <=> x <= k
          /\ proc[Sh!Shell].pc \in {"fork", "pipe"} => k < Sh!nsegs
    BY DEF EndsInv, Forked
  <2>2. Sh!nsegs' = Sh!nsegs /\ 0 \in 0..2
    BY DEF Sh!nsegs
  <2>3. \A x \in Sh!Segments : proc'[<<x, 0>>].pc # "unborn" <=> x <= k
    BY <1>2, <2>1, <2>2
  <2> QED
    BY <1>1, <2>1, <2>2, <2>3 DEF Forked
<1>5. \A s \in Sh!Segments, d \in 0..2 :
        /\ proc[<<s, d>>].pc \in Past
            => proc'[<<s, d>>].pc \in Past /\ proc'[<<s, d>>].prog = proc[<<s, d>>].prog
        /\ proc'[<<s, d>>] = proc[<<s, d>>] \/ Own(s, d)'
  BY <1>2 DEF Own, Argued, Running, Past
<1>6. \A s \in Sh!Segments, d \in 1..2 :
        ~(proc[<<s, d>>].pc = "unborn" /\ proc'[<<s, d>>].pc # "unborn")
  <2>1. \A d \in 1..2 : d \in 0..2
    OBVIOUS
  <2> QED
    BY <1>2, <2>1
<1> QED
  BY <1>3, <1>4, <1>5, <1>6, Carry

\* the steps of a child that change its place and nothing else
LEMMA PlainSteps ==
  ASSUME NEW p,
         \/ Sh!SigDefault(p) \/ Sh!SetupFails(p) \/ Sh!StartFails(p)
         \/ Sh!Reap(p) \/ Sh!SigPipe(p) \/ Sh!IoError(p)
  PROVE  \E from \in Past \cup Before, to \in Past \cup Before :
           /\ Sh!Goto(p, from, to)
           /\ \/ <<from, to>> \in {<<"born", "setup">>, <<"wait", "write">>}
              \/ to \in {"failed", "killed"} /\ from \notin {"unborn", "failed", "killed"}
<1>1. \A label \in {"born", "setup", "start", "wait", "write", "read",
                    "failed", "killed"} : label \in Past \cup Before
  BY DEF Past, Before
<1>2. CASE Sh!SigDefault(p)
  BY <1>1, <1>2 DEF Sh!SigDefault
<1>3. CASE Sh!SetupFails(p)
  BY <1>1, <1>3 DEF Sh!SetupFails
<1>4. CASE Sh!StartFails(p)
  BY <1>1, <1>4 DEF Sh!StartFails
<1>5. CASE Sh!Reap(p)
  BY <1>1, <1>5 DEF Sh!Reap
<1>6. CASE Sh!SigPipe(p)
  BY <1>1, <1>6 DEF Sh!SigPipe
<1>7. CASE Sh!IoError(p)
  BY <1>1, <1>7 DEF Sh!IoError
<1> QED
  BY <1>2, <1>3, <1>4, <1>5, <1>6, <1>7

\* every step, whoever takes it
LEMMA NextEnds ==
  ASSUME LineAssumption, EndsInv, [Sh!Next]_(Sh!vars)
  PROVE  EndsInv'
<1>1. CASE UNCHANGED Sh!vars
  BY <1>1, StillEnds DEF Sh!vars
<1>2. CASE UNCHANGED <<line, buffering>> /\ Sh!run_pipeline
  BY <1>2, ForkKeeps, ShellKeeps DEF Sh!run_pipeline
<1>3. CASE UNCHANGED <<line, buffering>> /\ Sh!CtrlC
  BY <1>3, CtrlCKeeps
<1>4. ASSUME NEW p \in Sh!Children, line' = line, buffering' = buffering,
             Sh!segment(p) \/ Sh!IoError(p)
      PROVE  EndsInv'
  <2>1. PICK s \in Sh!Segments, d \in 0..2 : p = <<s, d>>
    BY Names
  <2>2. CASE Sh!SigDefault(p) \/ Sh!SetupFails(p) \/ Sh!StartFails(p)
             \/ Sh!Reap(p) \/ Sh!SigPipe(p) \/ Sh!IoError(p)
    BY <1>4, <2>1, <2>2, PlainSteps, GotoKeeps
  <2>3. CASE Sh!Setup(p)
    BY <1>4, <2>1, <2>3, SetupKeeps
  <2>4. CASE Sh!Exec(p)
    BY <1>4, <2>1, <2>4, ExecKeeps
  <2>5. CASE Sh!Start(p)
    BY <1>4, <2>1, <2>5, StartKeeps
  <2>6. CASE Sh!ParentCloses(p)
    BY <1>4, <2>1, <2>6, ParentClosesKeeps
  <2>7. CASE Sh!KidOfCat(p)
    BY <1>4, <2>1, <2>7, KidOfCatKeeps
  <2>8. CASE Sh!KidOfCounter(p)
    BY <1>4, <2>1, <2>8, KidOfCounterKeeps
  <2>9. CASE Sh!Read(p) \/ Sh!ReadEnds(p) \/ Sh!Write(p)
    BY <1>4, <2>1, <2>9, CopyStepKeeps
  <2> QED
    BY <1>4, <2>2, <2>3, <2>4, <2>5, <2>6, <2>7, <2>8, <2>9 DEF Sh!segment, Sh!Filter
<1> QED
  BY <1>1, <1>2, <1>3, <1>4 DEF Sh!Next

-----------------------------------------------------------------------------
(* What every process of a command line holds follows from its place and   *)
(* its program, whatever the line, and whoever fails or is killed          *)
(* (lesson4_myshell.c: run_pipeline; the cat and the counter).             *)
THEOREM EndsInductive ==
  ASSUME Sh!PipesAssumption, Sh!FiltersAssumption, Sh!ShellAssumption
  PROVE  Sh!Spec => []EndsInv
<1>1. LineAssumption
  BY DEF LineAssumption
<1>2. Sh!Init => EndsInv
  BY <1>1, InitEndsInv
<1>3. EndsInv /\ [Sh!Next]_(Sh!vars) => EndsInv'
  BY <1>1, NextEnds
<1> QED
  BY <1>2, <1>3, PTL DEF Sh!Spec

(* Only the processes a pipe is meant for keep its ends open once they run *)
(* their programs: nobody else keeps a reader from the end of its file, or *)
(* a writer from SIGPIPE.  This is NoStrayEnds of Shell.                   *)
THEOREM EndsClosed ==
  ASSUME Sh!PipesAssumption, Sh!FiltersAssumption, Sh!ShellAssumption
  PROVE  Sh!Spec => []Sh!NoStrayEnds
<1>1. LineAssumption
  BY DEF LineAssumption
<1>2. EndsInv => Sh!NoStrayEnds
  <2> SUFFICES ASSUME EndsInv, NEW end \in Sh!Ends, NEW p \in DOMAIN proc, Sh!Has(p, end),
                      proc[p].pc \notin {"fork", "close", "born", "setup", "parent", "kid"}
               PROVE  p \in Sh!Users(end[1], end[2])
    BY DEF Sh!NoStrayEnds
  <2>1. PICK a \in Sh!Segments, b \in -1..2, e \in {"r", "w"} : end = <<<<a, b>>, e>>
    BY DEF Sh!Ends
  <2>2. <<a, b>> # Sh!Outside
    BY <1>1, Names
  <2>3. PICK s \in Sh!Segments, d \in 0..2 : p = <<s, d>>
    <3>1. p \in Processes
      BY <1>1, Known
    <3>2. ASSUME p = Sh!Shell PROVE FALSE
      <4>1. /\ proc[p].in = Sh!Outside /\ proc[p].out = Sh!Outside
            /\ proc[p].holds = {}
        BY <3>2 DEF EndsInv, ShellHolds
      <4> QED
        BY <2>1, <2>2, <4>1 DEF Sh!Has
    <3> QED
      BY <1>1, <3>1, <3>2, Names DEF Processes
  <2> DEFINE q == proc[p]
  <2>4. /\ q.pc \in {"exec", "start", "read", "write", "wait"}
        /\ Placed(s, d) /\ Holding(s, d)
    <3>1. Own(s, d)
      BY <1>1, Known
    <3> QED
      BY <2>3, <3>1 DEF Own, Running, Past, Before, Sh!Has, Sh!Live, Sh!Gone
  <2>5. /\ p \in Sh!Children /\ p[1] = s /\ p[2] = d
        /\ a \in Int /\ s \in Int
    <3>1. p \in Sh!Children
      BY <1>1, <2>3, Names
    <3>2. \A x \in Sh!Segments : x \in Int
      BY <1>1, Names
    <3> QED
      BY <2>3, <3>1, <3>2
  <2>6. ASSUME \/ b = -1 /\ e = "w" /\ s = a
               \/ b = -1 /\ e = "r" /\ s = a + 1
               \/ b # -1 /\ proc[<<a, b>>].prog = "cat" /\ e = "w" /\ p = <<a, b>>
               \/ b # -1 /\ proc[<<a, b>>].prog = "cat" /\ e = "r" /\ p = <<a, b + 1>>
               \/ b # -1 /\ proc[<<a, b>>].prog # "cat" /\ e = "r" /\ p = <<a, b>>
               \/ b # -1 /\ proc[<<a, b>>].prog # "cat" /\ e = "w" /\ s = a /\ d > b
        PROVE  p \in Sh!Users(<<a, b>>, e)
    BY <2>5, <2>6 DEF Sh!Users, Sh!Child
  <2>7. p \in Sh!Users(<<a, b>>, e)
    <3>1. CASE end \in q.holds
      <4>1. end \in Keeps(s, d) /\ (q.prog = "kid" => d > 0 /\ proc[<<s, d - 1>>].prog = "cat")
        BY <2>3, <2>4, <3>1 DEF Holding
      <4>2. \/ q.prog = "cat" /\ end = <<<<s, d>>, "w">>
            \/ q.prog = "counter" /\ end = <<<<s, d>>, "r">>
            \/ q.prog = "kid" /\ end = <<<<s, d - 1>>, "r">>
        BY <2>3, <4>1 DEF Keeps
      <4>3. CASE q.prog \in {"cat", "counter"}
        <5>1. a = s /\ b = d
          BY <2>1, <4>2, <4>3
        <5> QED
          BY <2>1, <2>3, <2>6, <4>2, <4>3, <5>1
      <4>4. CASE q.prog = "kid"
        <5>1. a = s /\ b = d - 1 /\ e = "r"
          BY <2>1, <4>2, <4>4
        <5>2. b # -1 /\ b + 1 = d
          BY <4>1, <4>4, <5>1
        <5> QED
          BY <2>3, <2>6, <4>1, <4>4, <5>1, <5>2
      <4> QED
        BY <4>2, <4>3, <4>4
    <3>2. CASE end = <<q.in, "r">>
      <4>1. <<a, b>> = <<s - 1, -1>> /\ e = "r"
        BY <2>1, <2>2, <2>3, <2>4, <3>2 DEF Placed
      <4>2. b = -1 /\ s = a + 1
        BY <2>5, <4>1
      <4> QED
        BY <2>6, <4>1, <4>2
    <3>3. CASE end = <<q.out, "w">>
      <4>1. CASE <<a, b>> = <<s, -1>>
        BY <2>1, <2>6, <3>3, <4>1
      <4>2. CASE \E c \in 0..d - 1 : <<a, b>> = <<s, c>> /\ proc[<<s, c>>].prog = "counter"
        <5>1. PICK c \in 0..d - 1 : <<a, b>> = <<s, c>> /\ proc[<<s, c>>].prog = "counter"
          BY <4>2
        <5>2. a = s /\ b = c /\ b # -1 /\ d > b
          BY <5>1
        <5>3. e = "w"
          BY <2>1, <3>3
        <5>4. proc[<<a, b>>].prog # "cat"
          BY <5>1
        <5> QED
          BY <2>6, <5>2, <5>3, <5>4
      <4>3. <<a, b>> = q.out /\ <<a, b>> # Sh!Outside
        BY <2>1, <2>2, <3>3
      <4>4. \/ <<a, b>> = <<s, -1>>
            \/ \E c \in 0..d - 1 : <<a, b>> = <<s, c>> /\ proc[<<s, c>>].prog = "counter"
        BY <2>3, <2>4, <4>3 DEF Placed
      <4> QED
        BY <4>1, <4>2, <4>4
    <3> QED
      BY <3>1, <3>2, <3>3 DEF Sh!Has
  <2> QED
    BY <2>1, <2>7
<1> QED
  BY <1>2, EndsInductive, PTL
-----------------------------------------------------------------------------
(***************************************************************************)
(* What the counters count.  While nobody up to segment s has failed or    *)
(* was killed, every process of s is what its line makes of it: Main(s, c) *)
(* says that process <<s, c>> runs a program of the line, CatAt(s, c) that *)
(* this is the cat, whose child is <<s, c + 1>>.                           *)
(***************************************************************************)

\* the words of the program that process <<s, c>> runs
Words(s, c) == IF c = 0 THEN line[s].argv ELSE Tail(line[s].argv)

RunsCommand(s) == Head(line[s].argv) = "counter" /\ Len(line[s].argv) > 1

\* it puts out a line of its own
Speaks(s) == Sh!OneLine(line[s].argv)

Main(s, c) == c = 0 \/ (c = 1 /\ RunsCommand(s))
CatAt(s, c) == Main(s, c) /\ Head(Words(s, c)) = "cat"
Forks(s, c) == CatAt(s, c) \/ (c = 0 /\ RunsCommand(s))

\* stdin and stdout of the program
Inlet(s) == IF "<" \in line[s].redirs \/ s = 1 THEN Sh!Outside ELSE <<s - 1, -1>>

Outlet(s, c) ==
  IF c = 1 THEN <<s, 0>>
  ELSE IF ">" \in line[s].redirs \/ s = Sh!nsegs THEN Sh!Outside ELSE <<s, -1>>

Started == {"parent", "read", "write", "wait", "ended"}

\* p is the process <<s, c>> that runs a program of the line
MainShape(s, c, p) ==
  /\ p.pc \in {"born", "setup"} => c = 0 /\ p.argv = Words(s, 0) /\ p.holds = Sh!pipes
  /\ p.pc = "kid" => c = 1 /\ p.argv = Words(s, 0) /\ p.in = Inlet(s)
  /\ p.pc \in {"exec", "start"} \cup Started =>
       p.argv = Words(s, c) /\ p.in = Inlet(s) /\ p.out = Outlet(s, c)
  /\ p.pc \in {"start"} \cup Started => p.prog = Head(Words(s, c))
  /\ p.pc \in {"read", "write"} => p.prog \in {"cat", "counter", "pwd"}
  /\ p.pc \in {"read", "write"} /\ p.prog = "cat" => <<<<s, c>>, "w">> \in p.holds
  /\ p.pc = "read" => p.prog # "pwd"
  /\ p.pc \notin {"write", "wait"} => p.buf = 0
  /\ p.pc = "wait" \/ (p.pc = "write" /\ p.prog # "cat") => p.buf = 1
  /\ p.pc = "write" /\ p.prog = "pwd" /\ c = 0 => Speaks(s)

\* p is the child <<s, c>> of a cat
KidShape(s, c, p) ==
  /\ p.pc \in {"unborn", "kid", "read", "write", "ended"}
  /\ p.pc # "unborn" => p.out = Outlet(s, c - 1)
  /\ p.pc \in {"read", "write", "ended"} => p.prog = "kid"
  /\ p.pc # "write" => p.buf = 0

\* nobody else is there
ShapeAt(s) ==
  /\ \A c \in 0..1 : Main(s, c) => MainShape(s, c, proc[<<s, c>>])
  /\ \A c \in 1..2 : CatAt(s, c - 1) => KidShape(s, c, proc[<<s, c>>])
  /\ \A c \in 1..2 :
       proc[<<s, c>>].pc # "unborn" <=> Forks(s, c - 1) /\ proc[<<s, c - 1>>].pc \in Started

\* the shell, too, keeps the pipes until all are forked
ShapeInv ==
  /\ proc[Sh!Shell].buf = 0
  /\ proc[Sh!Shell].pc \in {"fork", "close"} => proc[Sh!Shell].holds = Sh!pipes
  /\ \A s \in 1..Sh!nsegs : Sh!Undisturbed(s) => ShapeAt(s)

\* a cat that is given a file reads that
FileGiven(s) == \E c \in 0..1 : CatAt(s, c) /\ Sh!FileNamed(Words(s, c))

\* what a cat or a counter of segment s gets to read, what it has got, and what
\* has come out of the cat, if w[s] bytes have come out of each segment s
Need(s) == IF FileGiven(s) THEN FILE_SIZE ELSE Sh!Input[s]

Taken(w, s) ==
  IF FileGiven(s) \/ Inlet(s) = Sh!Outside THEN FILE_SIZE - left[s]
  ELSE (IF Outlet(s - 1, 0) = Sh!Outside THEN 0 ELSE w[s - 1]) - fill[<<s - 1, -1>>]

CameOut(w, s, c) == IF c = 0 THEN w[s] ELSE fill[<<s, 0>>] + count[<<s, 0>>]

\* nothing is lost between a cat and its child, and each ends when it has got all
CatFlow(w, s, c) ==
  LET p == proc[<<s, c>>]
      q == proc[<<s, c + 1>>] IN
  /\ Taken(w, s) = p.buf + fill[<<s, c>>] + q.buf + CameOut(w, s, c)
  /\ p.pc = "ended" => Taken(w, s) = Need(s)
  /\ q.pc = "ended" => fill[<<s, c>>] = 0 /\ p.pc = "ended"

\* the counter by itself, and with the cat as its command
CounterFlow(w, s) ==
  /\ ~RunsCommand(s) => Taken(w, s) = count[<<s, 0>>]
  /\ proc[<<s, 0>>].pc \in {"wait", "write", "ended"} => count[<<s, 0>>] = Need(s)

\* and whatever is no cat puts out one line at most, at its end
FlowAt(w, s) ==
  LET name == Head(line[s].argv) IN
  /\ \A c \in 0..1 : CatAt(s, c) => CatFlow(w, s, c)
  /\ name = "counter" /\ (RunsCommand(s) => CatAt(s, 1)) => CounterFlow(w, s)
  /\ name # "cat" =>
       w[s] = IF Speaks(s) /\ proc[<<s, 0>>].pc = "ended" THEN 1 ELSE 0

StreamsTypeInv ==
  /\ fill \in [Sh!Segments \X (-1..2) -> Int]
  /\ left \in [Sh!Segments -> Int]
  /\ count \in [Sh!Children -> Int]

FlowInv ==
  /\ StreamsTypeInv
  /\ \E w \in [Sh!Segments -> Int] :
       \A s \in 1..Sh!nsegs : Sh!Undisturbed(s) => FlowAt(w, s)
-----------------------------------------------------------------------------
(***************************************************************************)
(* The recursive function Input                                            *)
(***************************************************************************)

\* its body, for a function f in its place
Given(f, x) ==
  IF x = 1 \/ "<" \in line[x].redirs THEN FILE_SIZE
  ELSE IF ">" \in line[x - 1].redirs THEN 0
  ELSE LET words == line[x - 1].argv IN
       CASE Head(words) = "cat" -> IF Sh!FileNamed(words) THEN FILE_SIZE ELSE f[x - 1]
         [] Sh!OneLine(words) -> 1
         [] OTHER -> 0

(* Induction is a descent: a set of natural numbers has a least element.   *)
LEMMA Least ==
  ASSUME NEW S, S \subseteq Nat, S # {}
  PROVE  \E k \in S : \A j \in S : k <= j
<1> DEFINE R == {jk \in Nat \X Nat : jk[1] < jk[2]}
<1>1. IsWellFoundedOn(R, Nat)
  BY NatLessThanWellFounded DEF OpToRel
<1>2. PICK k \in S : \A j \in S : ~(<<j, k>> \in R)
  <2> HIDE DEF R
  <2> QED
    BY <1>1, WFMin
<1>3. \A j \in S : ~(j < k)
  BY <1>2
<1> QED
  BY <1>2, <1>3

LEMMA InputExists ==
  ASSUME LineAssumption
  PROVE  \E f : f = [x \in Sh!Segments |-> Given(f, x)]
<1> DEFINE Reach(k, f) == \A x \in Sh!Segments : x <= k => f[x] = Given(f, x)
           Bad == {k \in Nat : ~ \E f : Reach(k, f)}
<1>1. \A x \in Sh!Segments : x \in Nat /\ x > 0 /\ x <= MaxSegments /\ (x # 1 => x - 1 \in Sh!Segments)
  BY DEF LineAssumption, Sh!PipesAssumption, Sh!Segments
<1>2. \A x, f, g : (x # 1 => f[x - 1] = g[x - 1]) => Given(f, x) = Given(g, x)
  BY DEF Given
<1>3. Bad = {}
  <2> SUFFICES ASSUME Bad # {} PROVE FALSE
    OBVIOUS
  <2>1. PICK k \in Bad : \A j \in Bad : k <= j
    <3>1. Bad \subseteq Nat
      OBVIOUS
    <3> HIDE DEF Bad
    <3> QED
      BY <3>1, Least
  <2>2. k # 0
    <3>1. Reach(0, <<>>)
      BY <1>1
    <3> QED
      BY <3>1
  <2>3. k - 1 \in Nat /\ k - 1 \notin Bad
    BY <2>1, <2>2
  <2>4. PICK f : Reach(k - 1, f)
    BY <2>3
  <2> DEFINE g == [x \in Sh!Segments |-> IF x = k THEN Given(f, x) ELSE f[x]]
  <2>5. ASSUME NEW x \in Sh!Segments, x <= k PROVE g[x] = Given(g, x)
    <3>1. x # 1 => g[x - 1] = f[x - 1]
      BY <1>1, <2>5
    <3>2. Given(g, x) = Given(f, x)
      BY <1>2, <3>1
    <3>3. g[x] = Given(f, x)
      <4>1. g[x] = IF x = k THEN Given(f, x) ELSE f[x]
        OBVIOUS
      <4>2. x # k => x <= k - 1
        BY <1>1, <2>1, <2>5
      <4> QED
        BY <2>4, <4>1, <4>2
    <3> QED
      BY <3>2, <3>3
  <2>6. Reach(k, g)
    BY <2>5
  <2> QED
    BY <2>1, <2>6
<1>4. PICK f : Reach(MaxSegments, f)
  <2>1. MaxSegments \in Nat
    BY DEF LineAssumption, Sh!PipesAssumption
  <2> QED
    BY <1>3, <2>1
<1>5. PICK g : g = [x \in Sh!Segments |-> f[x]]
  OBVIOUS
<1>6. ASSUME NEW x \in Sh!Segments PROVE g[x] = Given(g, x)
  <2>1. x # 1 => g[x - 1] = f[x - 1]
    BY <1>1, <1>5
  <2>2. f[x] = Given(f, x)
    BY <1>1, <1>4
  <2> QED
    BY <1>2, <1>5, <2>1, <2>2
<1>7. g = [x \in Sh!Segments |-> Given(g, x)]
  BY <1>5, <1>6
<1> QED
  BY <1>7

LEMMA InputIs ==
  ASSUME LineAssumption
  PROVE  \A x \in Sh!Segments : Sh!Input[x] = Given(Sh!Input, x)
<1>1. Sh!Input = CHOOSE f : f = [x \in Sh!Segments |-> Given(f, x)]
  BY DEF Sh!Input, Given
<1>2. Sh!Input = [x \in Sh!Segments |-> Given(Sh!Input, x)]
  BY <1>1, InputExists
<1> QED
  BY <1>2

-----------------------------------------------------------------------------
(***************************************************************************)
(* The processes of an undisturbed line                                    *)
(***************************************************************************)

\* a process of an undisturbed segment has not failed
LEMMA Calm ==
  ASSUME LineAssumption, EndsInv, NEW s \in Sh!Segments, Sh!Undisturbed(s)
  PROVE  \A x \in Sh!Segments, d \in 0..2 :
           x <= s => proc[<<x, d>>].pc \in {"unborn", "born", "setup", "kid", "exec", "start"}
                                            \cup Started
<1> SUFFICES ASSUME NEW x \in Sh!Segments, NEW d \in 0..2, x <= s
             PROVE  proc[<<x, d>>].pc \in {"unborn", "born", "setup", "kid", "exec", "start"}
                                            \cup Started
  OBVIOUS
<1>1. <<x, d>> \in Sh!Children /\ <<x, d>>[1] = x
  BY Names
<1>2. proc[<<x, d>>].pc \notin {"failed", "killed"}
  BY <1>1 DEF Sh!Undisturbed
<1>3. proc[<<x, d>>].pc \in Past \cup Before
  BY Known DEF Own
<1> QED
  BY <1>2, <1>3 DEF Past, Before, Started

\* the two things that a process may be
AsMain(s, d) ==
  /\ d \in 0..1 /\ Main(s, d) /\ ~(d = 1 /\ CatAt(s, 0))
  /\ MainShape(s, d, proc[<<s, d>>])
  /\ d = 1 => MainShape(s, 0, proc[<<s, 0>>]) /\ proc[<<s, 0>>].pc \in Started

AsKid(s, d) ==
  /\ d \in 1..2 /\ CatAt(s, d - 1) /\ ~Main(s, d) /\ ~Forks(s, d)
  /\ KidShape(s, d, proc[<<s, d>>])
  /\ MainShape(s, d - 1, proc[<<s, d - 1>>]) /\ proc[<<s, d - 1>>].pc \in Started

LEMMA Roles ==
  ASSUME LineAssumption, EndsInv, ShapeInv, NEW s \in 1..Sh!nsegs, Sh!Undisturbed(s),
         NEW d \in 0..2, proc[<<s, d>>].pc # "unborn"
  PROVE  AsMain(s, d) \/ AsKid(s, d)
<1>1. ShapeAt(s)
  BY DEF ShapeInv
<1>2. CASE d = 0
  <2>1. Main(s, 0) /\ 0 \in 0..1
    BY DEF Main
  <2> QED
    BY <1>1, <1>2, <2>1 DEF ShapeAt, AsMain
<1>3. ASSUME d \in 1..2
      PROVE  Forks(s, d - 1) /\ proc[<<s, d - 1>>].pc \in Started
  BY <1>1, <1>3 DEF ShapeAt
<1>4. ASSUME d \in 1..2, CatAt(s, d - 1)
      PROVE  AsKid(s, d)
  <2>1. ~Main(s, d)
    <3>1. CASE d = 1
      BY <1>4, <3>1 DEF CatAt, Main, Words, RunsCommand
    <3>2. CASE d = 2
      BY <3>2 DEF Main
    <3> QED
      BY <1>4, <3>1, <3>2
  <2>2. ~Forks(s, d)
    BY <1>4, <2>1 DEF Forks, CatAt
  <2>3. Main(s, d - 1) /\ d - 1 \in 0..1
    BY <1>4 DEF CatAt
  <2> QED
    BY <1>1, <1>3, <1>4, <2>1, <2>2, <2>3 DEF ShapeAt, AsKid
<1>5. ASSUME d \in 1..2, ~CatAt(s, d - 1)
      PROVE  AsMain(s, d)
  <2>1. d = 1 /\ RunsCommand(s)
    BY <1>3, <1>5 DEF Forks
  <2>2. Main(s, 1) /\ 1 \in 0..1
    BY <2>1 DEF Main
  <2>3. ~CatAt(s, 0) /\ Main(s, 0) /\ 0 \in 0..1 /\ proc[<<s, 0>>].pc \in Started
    BY <1>3, <1>5, <2>1 DEF Main
  <2> QED
    BY <1>1, <2>1, <2>2, <2>3 DEF ShapeAt, AsMain
<1> QED
  BY <1>2, <1>4, <1>5

\* a segment of which a process is there is a segment of the line
LEMMA Born ==
  ASSUME LineAssumption, EndsInv, NEW s \in Sh!Segments, NEW d \in 0..2,
         proc[<<s, d>>].pc # "unborn"
  PROVE  /\ s \in 1..Sh!nsegs /\ Sh!nsegs \in Nat
         /\ \A x \in 1..s : x \in Sh!Segments /\ x \in 1..Sh!nsegs
                            /\ proc[<<x, 0>>].pc # "unborn"
<1>1. PICK k \in 0..Sh!nsegs : \A x \in Sh!Segments : proc[<<x, 0>>].pc # "unborn" <=> x <= k
  BY DEF EndsInv, Forked
<1>2. proc[<<s, 0>>].pc # "unborn"
  <2>1. CASE d = 0
    BY <2>1
  <2>2. CASE d # 0
    <3>1. 0 \in 0..d - 1
      BY <2>2
    <3> QED
      BY <3>1, Above DEF Past
  <2> QED
    BY <2>1, <2>2
<1>3. Sh!nsegs \in Nat /\ s <= k /\ s \in Nat /\ s >= 1
  BY <1>1, <1>2, LineType, Names DEF EndsInv
<1>4. \A x \in 1..s : x \in Sh!Segments
  BY <1>3 DEF Sh!Segments, LineAssumption, Sh!PipesAssumption
<1> QED
  BY <1>1, <1>3, <1>4

\* what the line alone decides
LEMMA LineSame ==
  ASSUME line' = line, buffering' = buffering
  PROVE  /\ Sh!nsegs' = Sh!nsegs /\ Sh!pipes' = Sh!pipes
         /\ \A s, c : /\ Words(s, c)' = Words(s, c) /\ Inlet(s)' = Inlet(s)
                      /\ Outlet(s, c)' = Outlet(s, c)
         /\ \A s : (RunsCommand(s)' <=> RunsCommand(s)) /\ (Speaks(s)' <=> Speaks(s))
<1>1. Sh!nsegs' = Sh!nsegs
  BY DEF Sh!nsegs
<1> QED
  BY <1>1 DEF Sh!pipes, Words, Inlet, Outlet, RunsCommand, Speaks, Sh!OneLine

LEMMA ShapesSame ==
  ASSUME line' = line, buffering' = buffering
  PROVE  /\ \A s, c : Main(s, c)' <=> Main(s, c)
         /\ \A s, c : CatAt(s, c)' <=> CatAt(s, c)
         /\ \A s, c : Forks(s, c)' <=> Forks(s, c)
<1>1. \A s, c : Main(s, c)' <=> Main(s, c)
  BY LineSame DEF Main
<1>2. \A s, c : CatAt(s, c)' <=> CatAt(s, c)
  BY <1>1, LineSame DEF CatAt
<1>3. \A s, c : Forks(s, c)' <=> Forks(s, c)
  BY <1>2, LineSame DEF Forks
<1> QED
  BY <1>1, <1>2, <1>3

LEMMA InitShape ==
  ASSUME LineAssumption, Sh!Init
  PROVE  ShapeInv
<1>1. /\ proc[Sh!Shell].pc = "pipe" /\ proc[Sh!Shell].buf = 0
      /\ \A p \in Sh!Children : proc[p].pc = "unborn" /\ proc[p].buf = 0
  BY Names DEF Sh!Init, Sh!NoProcess
<1>2. ASSUME NEW s \in 1..Sh!nsegs PROVE ShapeAt(s)
  <2>1. s \in Sh!Segments
    BY InitEndsInv, LineType DEF EndsInv
  <2>2. \A c \in 0..2 : proc[<<s, c>>].pc = "unborn" /\ proc[<<s, c>>].buf = 0
    BY <1>1, <2>1, Names
  <2>3. \A c \in 0..1 : MainShape(s, c, proc[<<s, c>>])
    <3> TAKE c \in 0..1
    <3>1. c \in 0..2
      OBVIOUS
    <3> QED
      BY <2>2, <3>1 DEF MainShape, Started
  <2>4. \A c \in 1..2 : /\ KidShape(s, c, proc[<<s, c>>])
                        /\ proc[<<s, c>>].pc = "unborn" /\ proc[<<s, c - 1>>].pc = "unborn"
    <3> TAKE c \in 1..2
    <3>1. c \in 0..2 /\ c - 1 \in 0..2
      OBVIOUS
    <3> QED
      BY <2>2, <3>1 DEF KidShape
  <2> QED
    BY <2>3, <2>4 DEF ShapeAt, Started
<1> QED
  BY <1>1, <1>2 DEF ShapeInv

\* who has failed has failed for ever
LEMMA CalmBefore ==
  ASSUME LineAssumption, NEW s \in Sh!Segments, Sh!Undisturbed(s)',
         \A x \in Sh!Segments, d \in 0..2 :
           proc[<<x, d>>].pc \in {"failed", "killed"} => proc'[<<x, d>>].pc \in {"failed", "killed"}
  PROVE  Sh!Undisturbed(s)
<1> SUFFICES ASSUME NEW p \in Sh!Children, p[1] <= s
             PROVE  proc[p].pc \notin {"failed", "killed"}
  BY DEF Sh!Undisturbed
<1>1. PICK x \in Sh!Segments, d \in 0..2 : p = <<x, d>>
  BY Names
<1>2. proc'[p].pc \notin {"failed", "killed"}
  BY DEF Sh!Undisturbed
<1> QED
  BY <1>1, <1>2

(* A step keeps the shapes if it keeps those of the processes it changes,  *)
(* and makes a child when and where one is called for.                     *)
LEMMA ShapeCarry ==
  ASSUME LineAssumption, EndsInv, ShapeInv, line' = line, buffering' = buffering,
         proc'[Sh!Shell].buf = 0,
         proc'[Sh!Shell].pc \in {"fork", "close"} => proc'[Sh!Shell].holds = Sh!pipes,
         \A x \in Sh!Segments, c \in 0..2 :
           proc[<<x, c>>].pc \in {"failed", "killed"} => proc'[<<x, c>>].pc \in {"failed", "killed"},
         \A x \in 1..Sh!nsegs : Sh!Undisturbed(x) /\ Sh!Undisturbed(x)' =>
           /\ \A c \in 0..1 : \/ proc'[<<x, c>>] = proc[<<x, c>>]
                              \/ Main(x, c) => MainShape(x, c, proc'[<<x, c>>])
           /\ \A c \in 1..2 : \/ proc'[<<x, c>>] = proc[<<x, c>>]
                              \/ CatAt(x, c - 1) => KidShape(x, c, proc'[<<x, c>>])
           /\ \A c \in 1..2 : proc'[<<x, c>>].pc # "unborn"
                <=> Forks(x, c - 1) /\ proc'[<<x, c - 1>>].pc \in Started
  PROVE  ShapeInv'
<1>1. ASSUME NEW x \in 1..Sh!nsegs, Sh!Undisturbed(x)'
      PROVE  ShapeAt(x)'
  <2>1. x \in Sh!Segments
    BY LineType DEF EndsInv
  <2>2. Sh!Undisturbed(x)
    BY <1>1, <2>1, CalmBefore
  <2>3. ShapeAt(x)
    BY <2>2 DEF ShapeInv
  <2>4. \A c \in 0..1 : Main(x, c) => MainShape(x, c, proc'[<<x, c>>])
    BY <1>1, <2>2, <2>3 DEF ShapeAt
  <2>5. \A c \in 1..2 : CatAt(x, c - 1) => KidShape(x, c, proc'[<<x, c>>])
    BY <1>1, <2>2, <2>3 DEF ShapeAt
  <2>6. \A c \in 1..2 : proc'[<<x, c>>].pc # "unborn"
          <=> Forks(x, c - 1) /\ proc'[<<x, c - 1>>].pc \in Started
    BY <1>1, <2>2
  <2>7. (\A c \in 0..1 : Main(x, c) => MainShape(x, c, proc[<<x, c>>]))'
    BY <2>4, LineSame, ShapesSame DEF MainShape, Started
  <2>8. (\A c \in 1..2 : CatAt(x, c - 1) => KidShape(x, c, proc[<<x, c>>]))'
    BY <2>5, LineSame, ShapesSame DEF KidShape
  <2> QED
    BY <2>6, <2>7, <2>8, ShapesSame DEF ShapeAt, Started
<1>2. Sh!nsegs' = Sh!nsegs /\ Sh!pipes' = Sh!pipes
  BY LineSame
<1> QED
  BY <1>1, <1>2 DEF ShapeInv

\* one child goes on
LEMMA ShapeMoves ==
  ASSUME LineAssumption, EndsInv, ShapeInv, line' = line, buffering' = buffering,
         NEW s \in Sh!Segments, NEW d \in 0..2, NEW r,
         proc' = [proc EXCEPT ![<<s, d>>] = r],
         proc[<<s, d>>].pc \notin {"unborn", "failed", "killed"}, r.pc # "unborn",
         s \in 1..Sh!nsegs /\ Sh!Undisturbed(s) /\ r.pc \notin {"failed", "killed"} =>
           /\ AsMain(s, d) =>
                /\ MainShape(s, d, r)
                /\ Forks(s, d) => (r.pc \in Started <=> proc[<<s, d>>].pc \in Started)
           /\ AsKid(s, d) => KidShape(s, d, r)
  PROVE  ShapeInv'
<1>1. /\ proc'[Sh!Shell] = proc[Sh!Shell] /\ proc'[<<s, d>>] = r
      /\ \A x \in Sh!Segments, c \in 0..2 :
           (x = s /\ c = d) \/ proc'[<<x, c>>] = proc[<<x, c>>]
  BY Known, Names
<1>2. s \in 1..Sh!nsegs /\ Sh!nsegs \in Nat
  BY Born
<1>3. ASSUME NEW x \in 1..Sh!nsegs, Sh!Undisturbed(x), Sh!Undisturbed(x)'
      PROVE  /\ \A c \in 0..1 : \/ proc'[<<x, c>>] = proc[<<x, c>>]
                                \/ Main(x, c) => MainShape(x, c, proc'[<<x, c>>])
             /\ \A c \in 1..2 : \/ proc'[<<x, c>>] = proc[<<x, c>>]
                                \/ CatAt(x, c - 1) => KidShape(x, c, proc'[<<x, c>>])
             /\ \A c \in 1..2 : proc'[<<x, c>>].pc # "unborn"
                  <=> Forks(x, c - 1) /\ proc'[<<x, c - 1>>].pc \in Started
  <2>1. x \in Sh!Segments /\ ShapeAt(x)
    BY <1>3, LineType DEF EndsInv, ShapeInv
  <2>2. \A c \in 1..2 : c \in 0..2 /\ c - 1 \in 0..2
    OBVIOUS
  <2>3. \A c \in 0..1 : c \in 0..2
    OBVIOUS
  <2>4. CASE x # s
    BY <1>1, <2>1, <2>2, <2>3, <2>4 DEF ShapeAt
  <2>5. CASE x = s
    <3>1. r.pc \notin {"failed", "killed"}
      <4>1. <<s, d>> \in Sh!Children /\ <<s, d>>[1] = s /\ s <= s
        <5>1. <<s, d>>[1] = s /\ s <= s
          BY <1>2
        <5> QED
          BY <5>1, Names
      <4> QED
        BY <1>1, <1>3, <2>5, <4>1 DEF Sh!Undisturbed
    <3>2. AsMain(s, d) \/ AsKid(s, d)
      BY <1>2, <1>3, <2>5, Roles
    <3>3. /\ AsMain(s, d) =>
              /\ MainShape(s, d, r)
              /\ Forks(s, d) => (r.pc \in Started <=> proc[<<s, d>>].pc \in Started)
          /\ AsKid(s, d) => KidShape(s, d, r)
      BY <1>2, <1>3, <2>5, <3>1
    <3>4. Forks(s, d) => (r.pc \in Started <=> proc[<<s, d>>].pc \in Started)
      BY <3>2, <3>3 DEF AsKid
    <3>5. Main(s, d) => MainShape(s, d, r)
      BY <3>2, <3>3 DEF AsKid
    <3>6. d \in 1..2 /\ CatAt(s, d - 1) => KidShape(s, d, r)
      <4>1. CASE d = 1
        BY <3>2, <3>3, <4>1 DEF AsMain
      <4>2. CASE d = 2
        BY <3>2, <3>3, <4>2 DEF AsMain
      <4> QED
        BY <4>1, <4>2
    <3>7. ASSUME NEW c \in 1..2
          PROVE  proc'[<<s, c>>].pc # "unborn"
                   <=> Forks(s, c - 1) /\ proc'[<<s, c - 1>>].pc \in Started
      <4>1. proc[<<s, c>>].pc # "unborn"
              <=> Forks(s, c - 1) /\ proc[<<s, c - 1>>].pc \in Started
        BY <2>1, <2>5 DEF ShapeAt
      <4>2. proc'[<<s, c>>].pc # "unborn" <=> proc[<<s, c>>].pc # "unborn"
        BY <1>1, <2>2
      <4>3. Forks(s, c - 1) =>
              (proc'[<<s, c - 1>>].pc \in Started <=> proc[<<s, c - 1>>].pc \in Started)
        BY <1>1, <2>2, <3>4
      <4> QED
        BY <4>1, <4>2, <4>3
    <3> QED
      BY <1>1, <2>2, <2>3, <2>5, <3>5, <3>6, <3>7
  <2> QED
    BY <2>4, <2>5
<1>4. \A x \in Sh!Segments, c \in 0..2 :
        proc[<<x, c>>].pc \in {"failed", "killed"} => proc'[<<x, c>>].pc \in {"failed", "killed"}
  BY <1>1
<1> QED
  BY <1>1, <1>3, <1>4, ShapeCarry DEF ShapeInv

LEMMA StillShape ==
  ASSUME LineAssumption, EndsInv, ShapeInv, line' = line, buffering' = buffering,
         \A s \in Sh!Segments, d \in 0..2 : proc'[<<s, d>>] = proc[<<s, d>>],
         proc'[Sh!Shell].buf = 0,
         proc'[Sh!Shell].pc \in {"fork", "close"} => proc'[Sh!Shell].holds = Sh!pipes
  PROVE  ShapeInv'
<1>1. \A c \in 0..1 : c \in 0..2
  OBVIOUS
<1>2. \A c \in 1..2 : c \in 0..2 /\ c - 1 \in 0..2
  OBVIOUS
<1>3. \A x \in 1..Sh!nsegs : x \in Sh!Segments
  BY LineType DEF EndsInv
<1> QED
  BY <1>1, <1>2, <1>3, ShapeCarry DEF ShapeInv, ShapeAt

\* a step that changes the place only
LEMMA GotoShape ==
  ASSUME LineAssumption, EndsInv, ShapeInv, NEW s \in Sh!Segments, NEW d \in 0..2,
         NEW from \in Past \cup Before, NEW to \in Past \cup Before,
         Sh!Goto(<<s, d>>, from, to), line' = line, buffering' = buffering,
         \/ <<from, to>> \in {<<"born", "setup">>, <<"wait", "write">>}
         \/ to \in {"failed", "killed"} /\ from \notin {"unborn", "failed", "killed"}
  PROVE  ShapeInv'
<1> DEFINE p == proc[<<s, d>>]
<1>1. PICK r : /\ r = [p EXCEPT !.pc = to] /\ p.pc = from
               /\ proc' = [proc EXCEPT ![<<s, d>>] = r]
  BY DEF Sh!Goto
<1>2. p \in Process /\ Own(s, d)
  BY Known
<1>3. /\ r.pc = to /\ r.prog = p.prog /\ r.argv = p.argv /\ r.holds = p.holds
      /\ r.in = p.in /\ r.out = p.out /\ r.buf = p.buf
  BY <1>1, <1>2 DEF Process
<1>4. from = "wait" => p.prog = "counter"
  BY <1>1, <1>2 DEF Own, Running, Holding
<1>5. ASSUME r.pc \notin {"failed", "killed"}, AsMain(s, d)
      PROVE  MainShape(s, d, r) /\ (r.pc \in Started <=> p.pc \in Started)
  BY <1>1, <1>3, <1>4, <1>5 DEF AsMain, MainShape, Started
<1>6. ASSUME r.pc \notin {"failed", "killed"}, AsKid(s, d)
      PROVE  KidShape(s, d, r)
  BY <1>1, <1>3, <1>6 DEF AsKid, KidShape
<1>7. p.pc \notin {"unborn", "failed", "killed"} /\ r.pc # "unborn"
  BY <1>1, <1>3
<1> QED
  BY <1>1, <1>5, <1>6, <1>7, ShapeMoves

LEMMA SetupShape ==
  ASSUME LineAssumption, EndsInv, ShapeInv, NEW s \in Sh!Segments, NEW d \in 0..2,
         Sh!Setup(<<s, d>>), line' = line, buffering' = buffering
  PROVE  ShapeInv'
<1> DEFINE p == proc[<<s, d>>]
<1>1. PICK r :
        /\ proc' = [proc EXCEPT ![<<s, d>>] = r] /\ p.pc = "setup"
        /\ r = [p EXCEPT !.pc = "exec", !.in = Inlet(s), !.out = Outlet(s, 0), !.holds = {}]
  <2>1. Inlet(s) = IF "<" \in line[s].redirs \/ s = 1 THEN Sh!Outside ELSE <<s - 1, -1>>
    BY DEF Inlet
  <2>2. Outlet(s, 0)
          = IF ">" \in line[s].redirs \/ s = Sh!nsegs THEN Sh!Outside ELSE <<s, -1>>
    BY DEF Outlet
  <2>3. PICK source, target : source = Inlet(s) /\ target = Outlet(s, 0)
    OBVIOUS
  <2>4. /\ p.pc = "setup"
        /\ proc' = [proc EXCEPT ![<<s, d>>].pc = "exec", ![<<s, d>>].in = source,
                                ![<<s, d>>].out = target, ![<<s, d>>].holds = {}]
    BY <2>1, <2>2, <2>3 DEF Sh!Setup
  <2> QED
    BY <2>3, <2>4, Known
<1>2. /\ p \in Process
      /\ r.pc = "exec" /\ r.argv = p.argv /\ r.in = Inlet(s) /\ r.out = Outlet(s, 0)
      /\ r.buf = p.buf
  BY <1>1, Known DEF Process
<1>3. ASSUME AsMain(s, d)
      PROVE  MainShape(s, d, r) /\ r.pc \notin Started /\ p.pc \notin Started
  BY <1>1, <1>2, <1>3 DEF AsMain, MainShape, Started
<1>4. ~AsKid(s, d)
  BY <1>1 DEF AsKid, KidShape
<1> QED
  BY <1>1, <1>2, <1>3, <1>4, ShapeMoves

LEMMA ExecShape ==
  ASSUME LineAssumption, EndsInv, ShapeInv, NEW s \in Sh!Segments, NEW d \in 0..2,
         Sh!Exec(<<s, d>>), line' = line, buffering' = buffering
  PROVE  ShapeInv'
<1> DEFINE p == proc[<<s, d>>]
           name == Head(p.argv)
           says == name = "pwd" /\ (d # 0 \/ buffering = "line")
           next == CASE says -> "write"
                     [] name = "counter" /\ ~(Len(p.argv) > 1) -> "read"
                     [] name = "cat" -> "start"
                     [] name = "counter" /\ Len(p.argv) > 1 -> "start"
                     [] OTHER -> "ended"
           size == IF says THEN 1 ELSE 0
<1>1. PICK r : /\ proc' = [proc EXCEPT ![<<s, d>>] = r] /\ p.pc = "exec"
               /\ r = [p EXCEPT !.prog = name, !.pc = next, !.buf = size]
  BY DEF Sh!Exec, Sh!Command, Sh!PwdPrints
<1>2. /\ \/ next = "write" /\ name = "pwd" /\ size = 1 /\ (d = 0 => buffering = "line")
         \/ next = "read" /\ name = "counter" /\ size = 0
         \/ next = "start" /\ size = 0
         \/ next = "ended" /\ size = 0
      /\ name = "cat" => next = "start"
      /\ name = "counter" /\ Len(p.argv) > 1 => next = "start"
  OBVIOUS
<1> HIDE DEF says, next, size
<1>3. /\ p \in Process
      /\ r.pc = next /\ r.prog = name /\ r.argv = p.argv /\ r.in = p.in /\ r.out = p.out
      /\ r.buf = size
  BY <1>1, Known DEF Process
<1>4. ASSUME AsMain(s, d)
      PROVE  /\ MainShape(s, d, r)
             /\ Forks(s, d) => r.pc \notin Started /\ p.pc \notin Started
  <2>1. p.argv = Words(s, d) /\ p.in = Inlet(s) /\ p.out = Outlet(s, d)
    BY <1>1, <1>4 DEF AsMain, MainShape
  <2>2. MainShape(s, d, r)
    <3>1. d = 0 /\ next = "write" => Speaks(s)
      BY <1>2, <2>1 DEF Words, Speaks, Sh!OneLine
    <3> QED
      BY <1>2, <1>3, <2>1, <3>1 DEF MainShape, Started
  <2>3. Forks(s, d) => next = "start"
    BY <1>2, <2>1 DEF Forks, CatAt, RunsCommand, Words
  <2> QED
    BY <1>1, <1>3, <2>2, <2>3 DEF Started
<1>5. ~AsKid(s, d)
  BY <1>1 DEF AsKid, KidShape
<1>6. p.pc \notin {"unborn", "failed", "killed"} /\ r.pc # "unborn"
  BY <1>1, <1>2, <1>3
<1> QED
  BY <1>1, <1>4, <1>5, <1>6, ShapeMoves

LEMMA ParentClosesShape ==
  ASSUME LineAssumption, EndsInv, ShapeInv, NEW s \in Sh!Segments, NEW d \in 0..2,
         Sh!ParentCloses(<<s, d>>), line' = line, buffering' = buffering
  PROVE  ShapeInv'
<1> DEFINE p == proc[<<s, d>>]
           closed == <<<<s, d>>, IF p.prog = "cat" THEN "r" ELSE "w">>
<1>1. PICK r : /\ proc' = [proc EXCEPT ![<<s, d>>] = r] /\ p.pc = "parent"
               /\ r = [p EXCEPT !.pc = "read", !.holds = p.holds \ {closed}]
  BY DEF Sh!ParentCloses
<1>2. /\ p \in Process /\ Own(s, d)
      /\ r.pc = "read" /\ r.prog = p.prog /\ r.argv = p.argv
      /\ r.holds = p.holds \ {closed} /\ r.in = p.in /\ r.out = p.out /\ r.buf = p.buf
  BY <1>1, Known DEF Process
<1>3. p.holds = BothEnds(<<s, d>>) /\ p.prog \in {"cat", "counter"}
  BY <1>1, <1>2 DEF Own, Running, Holding
<1>4. ASSUME AsMain(s, d)
      PROVE  MainShape(s, d, r) /\ r.pc \in Started /\ p.pc \in Started
  <2>1. p.prog = "cat" => <<<<s, d>>, "w">> \in r.holds
    BY <1>2, <1>3 DEF BothEnds
  <2> QED
    BY <1>1, <1>2, <1>3, <1>4, <2>1 DEF AsMain, MainShape, Started
<1>5. ~AsKid(s, d)
  BY <1>1 DEF AsKid, KidShape
<1> QED
  BY <1>1, <1>2, <1>4, <1>5, ShapeMoves

LEMMA KidShapes ==
  ASSUME LineAssumption, EndsInv, ShapeInv, NEW s \in Sh!Segments, NEW d \in 0..2,
         Sh!KidOfCat(<<s, d>>) \/ Sh!KidOfCounter(<<s, d>>), line' = line, buffering' = buffering
  PROVE  ShapeInv'
<1> DEFINE p == proc[<<s, d>>]
           above == <<s, d - 1>>
<1>1. /\ p.pc = "kid" /\ p \in Process /\ Own(s, d)
      /\ p.prog \in {"cat", "counter"} /\ proc[above].prog = p.prog
  BY Known DEF Sh!KidOfCat, Sh!KidOfCounter, Own, Running, Holding
<1>2. AsMain(s, d) => d = 1 /\ p.prog = "counter" /\ p.argv = Words(s, 0) /\ p.in = Inlet(s)
  <2>1. SUFFICES ASSUME AsMain(s, d)
                 PROVE  d = 1 /\ p.prog = "counter" /\ p.argv = Words(s, 0) /\ p.in = Inlet(s)
    OBVIOUS
  <2>2. d = 1 /\ p.argv = Words(s, 0) /\ p.in = Inlet(s)
    BY <1>1, <2>1 DEF AsMain, MainShape
  <2>3. proc[<<s, 0>>].prog = Head(Words(s, 0)) /\ RunsCommand(s)
    BY <2>1, <2>2 DEF AsMain, MainShape, Main, Started
  <2> QED
    BY <1>1, <2>2, <2>3 DEF Words, RunsCommand
<1>3. AsKid(s, d) => p.prog = "cat"
  BY <1>1 DEF AsKid, MainShape, CatAt, Started
<1>4. CASE Sh!KidOfCat(<<s, d>>)
  <2>1. PICK r : /\ proc' = [proc EXCEPT ![<<s, d>>] = r] /\ p.prog = "cat"
                 /\ r = [p EXCEPT !.pc = "read", !.prog = "kid",
                                  !.holds = p.holds \ {<<above, "w">>}]
    BY <1>4 DEF Sh!KidOfCat, Sh!Parent
  <2>2. r.pc = "read" /\ r.prog = "kid" /\ r.out = p.out /\ r.buf = p.buf
    BY <1>1, <2>1 DEF Process
  <2>3. AsKid(s, d) => KidShape(s, d, r)
    BY <1>1, <2>2 DEF AsKid, KidShape
  <2> QED
    BY <1>1, <1>2, <2>1, <2>2, <2>3, ShapeMoves
<1>5. CASE Sh!KidOfCounter(<<s, d>>)
  <2>1. PICK r : /\ proc' = [proc EXCEPT ![<<s, d>>] = r] /\ p.prog = "counter"
                 /\ r = [p EXCEPT !.pc = "exec", !.argv = Tail(p.argv), !.out = above,
                                  !.holds = p.holds \ {<<above, "r">>, <<above, "w">>}]
    BY <1>5 DEF Sh!KidOfCounter, Sh!Parent
  <2>2. r.pc = "exec" /\ r.argv = Tail(p.argv) /\ r.in = p.in /\ r.out = above /\ r.buf = p.buf
    BY <1>1, <2>1 DEF Process
  <2>3. ASSUME AsMain(s, d)
        PROVE  MainShape(s, d, r) /\ r.pc \notin Started /\ p.pc \notin Started
    <3>1. r.argv = Words(s, d) /\ r.in = Inlet(s) /\ r.out = Outlet(s, d)
      BY <1>2, <2>2, <2>3 DEF Words, Outlet
    <3> QED
      BY <1>1, <2>2, <2>3, <3>1 DEF AsMain, MainShape, Started
  <2> QED
    BY <1>1, <1>3, <2>1, <2>2, <2>3, ShapeMoves
<1> QED
  BY <1>4, <1>5

LEMMA CopyShape ==
  ASSUME LineAssumption, EndsInv, ShapeInv, NEW s \in Sh!Segments, NEW d \in 0..2,
         Sh!Read(<<s, d>>) \/ Sh!ReadEnds(<<s, d>>) \/ Sh!Write(<<s, d>>), line' = line, buffering' = buffering
  PROVE  ShapeInv'
<1> DEFINE p == proc[<<s, d>>]
<1>1. p \in Process
  BY Known
<1>2. CASE Sh!Read(<<s, d>>)
  <2>1. CASE p.prog = "counter"
    BY <1>2, <2>1, StillShape DEF Sh!Read, ShapeInv
  <2>2. CASE p.prog # "counter"
    <3>1. PICK m, r : /\ p.pc = "read" /\ r = [p EXCEPT !.pc = "write", !.buf = m]
                      /\ proc' = [proc EXCEPT ![<<s, d>>] = r]
      <4>1. PICK m \in 1..BUF_SIZE :
              /\ p.pc = "read"
              /\ proc' = [proc EXCEPT ![<<s, d>>].pc = "write", ![<<s, d>>].buf = m]
        BY <1>2, <2>2 DEF Sh!Read
      <4> QED
        BY <4>1, Known
    <3>2. /\ r.pc = "write" /\ r.prog = p.prog /\ r.argv = p.argv
          /\ r.in = p.in /\ r.out = p.out /\ r.holds = p.holds
      BY <1>1, <3>1 DEF Process
    <3>3. AsMain(s, d) => MainShape(s, d, r) /\ r.pc \in Started /\ p.pc \in Started
      BY <2>2, <3>1, <3>2 DEF AsMain, MainShape, Started
    <3>4. AsKid(s, d) => KidShape(s, d, r)
      BY <3>1, <3>2 DEF AsKid, KidShape
    <3> QED
      BY <3>1, <3>2, <3>3, <3>4, ShapeMoves
  <2> QED
    BY <2>1, <2>2
<1>3. CASE Sh!ReadEnds(<<s, d>>)
  <2> DEFINE next == IF p.prog # "counter" THEN "ended"
                     ELSE IF Sh!Command(<<s, d>>) THEN "wait" ELSE "write"
             size == IF p.prog = "counter" THEN 1 ELSE 0
  <2>1. PICK r : /\ proc' = [proc EXCEPT ![<<s, d>>] = r] /\ p.pc = "read"
                 /\ r = [p EXCEPT !.pc = next, !.buf = size, !.holds = {}]
    BY <1>3 DEF Sh!ReadEnds
  <2>2. \/ next = "ended" /\ size = 0 /\ p.prog # "counter"
        \/ next \in {"wait", "write"} /\ size = 1 /\ p.prog = "counter"
    OBVIOUS
  <2> HIDE DEF next, size
  <2>3. /\ r.pc = next /\ r.prog = p.prog /\ r.argv = p.argv
        /\ r.in = p.in /\ r.out = p.out /\ r.buf = size
    BY <1>1, <2>1 DEF Process
  <2>4. AsMain(s, d) => MainShape(s, d, r) /\ r.pc \in Started /\ p.pc \in Started
    BY <2>1, <2>2, <2>3 DEF AsMain, MainShape, Started
  <2>5. AsKid(s, d) => KidShape(s, d, r)
    BY <2>1, <2>2, <2>3 DEF AsKid, KidShape
  <2> QED
    BY <2>1, <2>2, <2>3, <2>4, <2>5, ShapeMoves
<1>4. CASE Sh!Write(<<s, d>>)
  <2>1. PICK m \in 1..p.buf :
          /\ p.pc = "write"
          /\ proc' = [proc EXCEPT ![<<s, d>>].buf = p.buf - m,
               ![<<s, d>>].pc = IF m < p.buf THEN p.pc ELSE Sh!AfterWrite(<<s, d>>)]
    BY <1>4 DEF Sh!Write
  <2> DEFINE next == IF m < p.buf THEN p.pc ELSE Sh!AfterWrite(<<s, d>>)
  <2>2. PICK r : /\ proc' = [proc EXCEPT ![<<s, d>>] = r]
                 /\ r = [p EXCEPT !.buf = p.buf - m, !.pc = next]
    BY <2>1
  <2>3. /\ p.buf \in Int /\ m \in Int /\ p.pc = "write"
        /\ \/ next = "write" /\ m < p.buf
           \/ next = "read" /\ p.buf - m = 0 /\ p.prog \in {"cat", "kid"}
           \/ next = "ended" /\ p.buf - m = 0 /\ p.prog \notin {"cat", "kid"}
    BY <1>1, <2>1 DEF Process, Sh!AfterWrite
  <2> HIDE DEF next
  <2>4. /\ r.pc = next /\ r.prog = p.prog /\ r.argv = p.argv /\ r.holds = p.holds
        /\ r.in = p.in /\ r.out = p.out /\ r.buf = p.buf - m
    BY <1>1, <2>2 DEF Process
  <2>5. AsMain(s, d) => MainShape(s, d, r) /\ r.pc \in Started /\ p.pc \in Started
    <3>1. SUFFICES ASSUME AsMain(s, d)
                   PROVE  MainShape(s, d, r) /\ r.pc \in Started /\ p.pc \in Started
      OBVIOUS
    <3>2. MainShape(s, d, p) /\ (p.prog # "cat" => p.buf = 1)
      BY <2>3, <3>1 DEF AsMain, MainShape
    <3>3. next = "write" => p.prog = "cat"
      BY <2>1, <2>3, <3>2
    <3> QED
      BY <2>3, <2>4, <3>2, <3>3 DEF MainShape, Started
  <2>6. AsKid(s, d) => KidShape(s, d, r)
    BY <2>3, <2>4 DEF AsKid, KidShape
  <2> QED
    BY <2>2, <2>3, <2>4, <2>5, <2>6, ShapeMoves
<1> QED
  BY <1>2, <1>3, <1>4

LEMMA ShellShape ==
  ASSUME LineAssumption, EndsInv, ShapeInv, line' = line, buffering' = buffering,
         \/ Sh!MakePipes \/ Sh!PipeFails \/ Sh!ForkFails \/ Sh!ClosePipes \/ Sh!Wait
  PROVE  ShapeInv'
<1> DEFINE p == proc[Sh!Shell]
<1>1. p \in Process /\ Sh!Shell \in Processes /\ p.buf = 0
  BY Known, Names DEF ShapeInv
<1>2. ASSUME NEW r, proc' = [proc EXCEPT ![Sh!Shell] = r], r.buf = 0,
             r.pc \in {"fork", "close"} => r.holds = Sh!pipes
      PROVE  ShapeInv'
  <2>1. proc'[Sh!Shell] = r
    BY <1>2, Known, Names
  <2>2. \A s \in Sh!Segments, d \in 0..2 : proc'[<<s, d>>] = proc[<<s, d>>]
    BY <1>2, Known, Names
  <2> QED
    BY <1>2, <2>1, <2>2, StillShape
<1>3. CASE Sh!MakePipes
  <2>1. PICK r : r = [p EXCEPT !.pc = "fork", !.holds = Sh!pipes]
    OBVIOUS
  <2>2. proc' = [proc EXCEPT ![Sh!Shell] = r]
    BY <1>1, <1>3, <2>1, Known DEF Sh!MakePipes
  <2>3. r.buf = 0 /\ r.holds = Sh!pipes
    BY <1>1, <2>1 DEF Process
  <2> QED
    BY <1>2, <2>2, <2>3
<1>4. CASE Sh!ForkFails \/ Sh!ClosePipes
  <2>1. PICK r : r = [p EXCEPT !.pc = "wait", !.holds = {}]
    OBVIOUS
  <2>2. proc' = [proc EXCEPT ![Sh!Shell] = r]
    BY <1>1, <1>4, <2>1, Known DEF Sh!ForkFails, Sh!ClosePipes
  <2>3. r.buf = 0 /\ r.pc = "wait"
    BY <1>1, <2>1 DEF Process
  <2> QED
    BY <1>2, <2>2, <2>3
<1>5. CASE Sh!PipeFails \/ Sh!Wait
  <2>1. PICK r : r = [p EXCEPT !.pc = "prompt"]
    OBVIOUS
  <2>2. proc' = [proc EXCEPT ![Sh!Shell] = r]
    BY <1>1, <1>5, <2>1, Known DEF Sh!PipeFails, Sh!Wait, Sh!Goto
  <2>3. r.buf = 0 /\ r.pc = "prompt"
    BY <1>1, <2>1 DEF Process
  <2> QED
    BY <1>2, <2>2, <2>3
<1> QED
  BY <1>3, <1>4, <1>5

LEMMA ForkShape ==
  ASSUME LineAssumption, EndsInv, ShapeInv, line' = line, buffering' = buffering, Sh!Fork
  PROVE  ShapeInv'
<1> DEFINE p == proc[Sh!Shell]
<1>1. PICK j \in 1..Sh!nsegs, q \in Process, r \in Process :
        /\ j \in Sh!Segments
        /\ \A x \in Sh!Segments : proc[<<x, 0>>].pc # "unborn" <=> x < j
        /\ p.pc = "fork"
        /\ q.pc = "born" /\ q.argv = line[j].argv /\ q.holds = p.holds /\ q.buf = p.buf
        /\ r.holds = p.holds /\ r.buf = p.buf
        /\ proc'[Sh!Shell] = r /\ proc'[<<j, 0>>] = q
        /\ \A x \in Sh!Segments, c \in 0..2 :
             proc'[<<x, c>>] = proc[<<x, c>>] \/ (x = j /\ c = 0)
  BY Forking
<1>2. p.holds = Sh!pipes /\ p.buf = 0
  BY <1>1 DEF ShapeInv
<1>3. MainShape(j, 0, q)
  BY <1>1, <1>2 DEF MainShape, Words, Started
<1>4. proc[<<j, 0>>].pc = "unborn"
  BY <1>1
<1>5. ASSUME NEW x \in 1..Sh!nsegs, Sh!Undisturbed(x)
      PROVE  /\ \A c \in 0..1 : \/ proc'[<<x, c>>] = proc[<<x, c>>]
                                \/ Main(x, c) => MainShape(x, c, proc'[<<x, c>>])
             /\ \A c \in 1..2 : \/ proc'[<<x, c>>] = proc[<<x, c>>]
                                \/ CatAt(x, c - 1) => KidShape(x, c, proc'[<<x, c>>])
             /\ \A c \in 1..2 : proc'[<<x, c>>].pc # "unborn"
                  <=> Forks(x, c - 1) /\ proc'[<<x, c - 1>>].pc \in Started
  <2>1. x \in Sh!Segments /\ ShapeAt(x)
    BY <1>5, LineType DEF EndsInv, ShapeInv
  <2>2. \A c \in 0..1 : c \in 0..2
    OBVIOUS
  <2>3. \A c \in 1..2 : c \in 0..2 /\ c # 0 /\ c - 1 \in 0..2
    OBVIOUS
  <2>4. \A c \in 0..1 : \/ proc'[<<x, c>>] = proc[<<x, c>>]
                        \/ MainShape(x, c, proc'[<<x, c>>])
    BY <1>1, <1>3, <2>1, <2>2
  <2>5. \A c \in 1..2 : proc'[<<x, c>>] = proc[<<x, c>>]
    BY <1>1, <2>1, <2>3
  <2>6. \A c \in 1..2 : proc'[<<x, c - 1>>].pc \in Started
                          <=> proc[<<x, c - 1>>].pc \in Started
    BY <1>1, <1>4, <2>1, <2>3 DEF Started
  <2> QED
    BY <2>1, <2>4, <2>5, <2>6 DEF ShapeAt
<1>6. \A x \in Sh!Segments, c \in 0..2 :
        proc[<<x, c>>].pc \in {"failed", "killed"} => proc'[<<x, c>>].pc \in {"failed", "killed"}
  BY <1>1, <1>4
<1> QED
  BY <1>1, <1>2, <1>5, <1>6, ShapeCarry

\* whoever makes a child is to make one, and the counter of a counter is not there
LEMMA StartShape ==
  ASSUME LineAssumption, EndsInv, ShapeInv, NEW s \in Sh!Segments, NEW d \in 0..2,
         Sh!Start(<<s, d>>), line' = line, buffering' = buffering
  PROVE  ShapeInv'
<1> DEFINE p == proc[<<s, d>>]
<1>1. PICK e \in Nat, r \in Process, q \in Process : Begun(s, d, e, r, q)
  BY Starting
<1>2. /\ e \in Nat /\ r \in Process /\ q \in Process
      /\ e = d + 1 /\ p.pc = "start"
      /\ Placed(s, d) /\ p.prog \in {"cat", "counter"}
      /\ p.prog = "counter" => Len(p.argv) > 1
      /\ r.pc = "parent" /\ q.pc = "kid"
      /\ \A x \in {r, q} :
           /\ x.prog = p.prog /\ x.argv = p.argv /\ x.in = p.in /\ x.out = p.out
           /\ x.buf = p.buf /\ x.holds = BothEnds(<<s, d>>)
      /\ proc' \in [Processes -> Process]
      /\ proc'[<<s, d>>] = r /\ proc'[Sh!Shell] = proc[Sh!Shell]
      /\ e \in 0..2 => proc'[<<s, e>>] = q /\ proc[<<s, e>>].pc = "unborn"
      /\ \A x \in Sh!Segments, c \in 0..2 :
           \/ proc'[<<x, c>>] = proc[<<x, c>>]
           \/ x = s /\ c = d
           \/ x = s /\ c = e
  BY <1>1 DEF Begun
<1>3. s \in 1..Sh!nsegs
  BY <1>2, Born
<1>4. ASSUME Sh!Undisturbed(s)
      PROVE  /\ AsMain(s, d) /\ Forks(s, d) /\ e \in 1..2
             /\ MainShape(s, d, r)
             /\ CatAt(s, d) => KidShape(s, e, q)
             /\ e = 1 /\ RunsCommand(s) => MainShape(s, 1, q)
  <2>1. AsMain(s, d)
    <3>1. ~AsKid(s, d)
      BY <1>2 DEF AsKid, KidShape
    <3> QED
      BY <1>2, <1>3, <1>4, <3>1, Roles
  <2>2. /\ d \in 0..1 /\ Main(s, d) /\ MainShape(s, d, p)
        /\ p.argv = Words(s, d) /\ p.in = Inlet(s) /\ p.out = Outlet(s, d)
        /\ p.prog = Head(Words(s, d)) /\ p.buf = 0
    BY <1>2, <2>1 DEF AsMain, MainShape
  <2>3. Forks(s, d)
    <3>1. CASE p.prog = "cat"
      BY <2>2, <3>1 DEF Forks, CatAt
    <3>2. CASE p.prog = "counter" /\ d = 0
      BY <1>2, <2>2, <3>2 DEF Forks, RunsCommand, Words
    <3>3. CASE p.prog = "counter" /\ d = 1
      <4>1. RunsCommand(s)
        BY <2>2, <3>3 DEF Main
      <4>2. PICK a : a = line[s].argv
        OBVIOUS
      <4>3. Head(a) = "counter" /\ Len(a) > 1 /\ Head(Tail(a)) = "counter" /\ Len(Tail(a)) > 1
        BY <1>2, <2>2, <3>3, <4>1, <4>2 DEF RunsCommand, Words
      <4>4. a \in Seq(STRING) /\ a # <<>>
        BY <1>3, <4>2, LineType DEF EndsInv
      <4>5. Len(Tail(a)) = Len(a) - 1 /\ Head(a) = a[1] /\ Head(Tail(a)) = a[2]
        BY <4>3, <4>4
      <4>6. line \in Lines /\ s \in DOMAIN line
        BY <1>3 DEF EndsInv, ShellTypeInv, LineAssumption, Sh!ShellAssumption, Sh!nsegs
      <4>7. Len(a) > 2 => a[1] # "counter" \/ a[2] # "counter"
        BY <4>2, <4>6 DEF LineAssumption, Sh!ShellAssumption
      <4> QED
        BY <4>3, <4>4, <4>5, <4>7
    <3> QED
      BY <1>2, <2>2, <3>1, <3>2, <3>3
  <2>4. MainShape(s, d, r)
    BY <1>2, <2>2 DEF MainShape, Started
  <2>5. CatAt(s, d) => KidShape(s, e, q)
    <3>1. e - 1 = d
      BY <1>2
    <3> QED
      BY <1>2, <2>2, <3>1 DEF KidShape
  <2>6. e = 1 /\ RunsCommand(s) => MainShape(s, 1, q)
    <3>1. e = 1 => d = 0
      BY <1>2
    <3> QED
      BY <1>2, <2>2, <3>1 DEF MainShape, Started
  <2> QED
    BY <1>2, <2>1, <2>2, <2>3, <2>4, <2>5, <2>6
<1>5. ASSUME NEW x \in 1..Sh!nsegs, Sh!Undisturbed(x)
      PROVE  /\ \A c \in 0..1 : \/ proc'[<<x, c>>] = proc[<<x, c>>]
                                \/ Main(x, c) => MainShape(x, c, proc'[<<x, c>>])
             /\ \A c \in 1..2 : \/ proc'[<<x, c>>] = proc[<<x, c>>]
                                \/ CatAt(x, c - 1) => KidShape(x, c, proc'[<<x, c>>])
             /\ \A c \in 1..2 : proc'[<<x, c>>].pc # "unborn"
                  <=> Forks(x, c - 1) /\ proc'[<<x, c - 1>>].pc \in Started
  <2>1. x \in Sh!Segments /\ ShapeAt(x)
    BY <1>5, LineType DEF EndsInv, ShapeInv
  <2>2. \A c \in 0..1 : c \in 0..2
    OBVIOUS
  <2>3. \A c \in 1..2 : c \in 0..2 /\ c - 1 \in 0..2
    OBVIOUS
  <2>4. CASE x # s
    BY <1>2, <2>1, <2>2, <2>3, <2>4 DEF ShapeAt
  <2>5. CASE x = s
    <3>1. /\ AsMain(s, d) /\ Forks(s, d) /\ e \in 1..2
          /\ MainShape(s, d, r)
          /\ CatAt(s, d) => KidShape(s, e, q)
          /\ e = 1 /\ RunsCommand(s) => MainShape(s, 1, q)
      BY <1>4, <1>5, <2>5
    <3>2. ASSUME NEW c \in 0..1, Main(s, c), proc'[<<s, c>>] # proc[<<s, c>>]
          PROVE  MainShape(s, c, proc'[<<s, c>>])
      <4>1. CASE c = d
        BY <1>2, <3>1, <4>1
      <4>2. CASE c = e
        <5>1. c = 1 /\ RunsCommand(s) /\ c \in 0..2
          BY <3>1, <3>2, <4>2 DEF Main
        <5> QED
          BY <1>2, <3>1, <4>2, <5>1
      <4> QED
        BY <1>2, <2>2, <3>2, <4>1, <4>2
    <3>3. ASSUME NEW c \in 1..2, CatAt(s, c - 1), proc'[<<s, c>>] # proc[<<s, c>>]
          PROVE  KidShape(s, c, proc'[<<s, c>>])
      <4>1. CASE c = d
        <5>1. c = 1 /\ c - 1 = 0
          BY <3>1, <4>1 DEF AsMain
        <5> QED
          BY <3>1, <3>3, <4>1, <5>1 DEF AsMain
      <4>2. CASE c = e
        <5>1. c - 1 = d /\ e \in 0..2
          BY <1>2, <4>2
        <5> QED
          BY <1>2, <3>1, <3>3, <4>2, <5>1
      <4> QED
        BY <1>2, <2>3, <3>3, <4>1, <4>2
    <3>4. ASSUME NEW c \in 1..2
          PROVE  proc'[<<s, c>>].pc # "unborn"
                   <=> Forks(s, c - 1) /\ proc'[<<s, c - 1>>].pc \in Started
      <4>1. CASE c = e
        <5>1. c - 1 = d /\ c \in 0..2
          BY <1>2, <4>1
        <5> QED
          BY <1>2, <3>1, <4>1, <5>1 DEF Started
      <4>2. CASE c # e
        <5>1. c \in 0..2 /\ c - 1 \in 0..2 /\ c - 1 # d
          BY <1>2, <4>2
        <5>2. proc[<<s, c>>].pc # "unborn"
                <=> Forks(s, c - 1) /\ proc[<<s, c - 1>>].pc \in Started
          BY <2>1, <2>5 DEF ShapeAt
        <5>3. proc'[<<s, c>>].pc # "unborn" <=> proc[<<s, c>>].pc # "unborn"
          BY <1>2, <4>2, <5>1
        <5>4. proc'[<<s, c - 1>>].pc \in Started <=> proc[<<s, c - 1>>].pc \in Started
          BY <1>2, <5>1 DEF Started
        <5> QED
          BY <5>2, <5>3, <5>4
      <4> QED
        BY <4>1, <4>2
    <3> QED
      BY <2>5, <3>2, <3>3, <3>4
  <2> QED
    BY <2>4, <2>5
<1>6. \A x \in Sh!Segments, c \in 0..2 :
        proc[<<x, c>>].pc \in {"failed", "killed"} => proc'[<<x, c>>].pc \in {"failed", "killed"}
  BY <1>2
<1> QED
  BY <1>2, <1>5, <1>6, ShapeCarry DEF ShapeInv

\* whoever is left has not been hit
\* whom Ctrl-C kills, and whom it leaves alone
LEMMA Interrupting ==
  ASSUME LineAssumption, EndsInv, Sh!CtrlC
  PROVE  /\ proc'[Sh!Shell] = proc[Sh!Shell]
         /\ \A s \in Sh!Segments, d \in 0..2 :
              \/ proc'[<<s, d>>] = proc[<<s, d>>]
              \/ proc'[<<s, d>>].pc = "killed"
         /\ \A x \in 1..Sh!nsegs : Sh!Undisturbed(x)' =>
              x \in Sh!Segments /\ \A c \in 0..2 : proc'[<<x, c>>] = proc[<<x, c>>]
<1>1. /\ proc'[Sh!Shell] = proc[Sh!Shell]
      /\ \A s \in Sh!Segments, d \in 0..2 :
           \/ proc'[<<s, d>>] = proc[<<s, d>>]
           \/ proc'[<<s, d>>].pc = "killed"
  <2>1. Sh!Shell \in Processes /\ DOMAIN proc = Processes
    BY Known, Names
  <2>2. \A q \in Processes : [proc[q] EXCEPT !.pc = "killed"].pc = "killed"
    BY Known DEF Process
  <2>3. proc' = [q \in Processes |->
                   IF q = Sh!Shell \/ ~Sh!Live(q) \/ proc[q].pc = "born" THEN proc[q]
                   ELSE [proc[q] EXCEPT !.pc = "killed"]]
    BY <2>1 DEF Sh!CtrlC
  <2>4. \A q \in Processes :
          proc'[q] = IF q = Sh!Shell \/ ~Sh!Live(q) \/ proc[q].pc = "born" THEN proc[q]
                     ELSE [proc[q] EXCEPT !.pc = "killed"]
    BY <2>3, Zenon
  <2>5. \A q \in Processes : proc'[q] = proc[q] \/ proc'[q].pc = "killed"
    BY <2>2, <2>4, Zenon
  <2> QED
    BY <2>1, <2>4, <2>5, Known
<1>2. ASSUME NEW x \in 1..Sh!nsegs, Sh!Undisturbed(x)'
      PROVE  x \in Sh!Segments /\ \A c \in 0..2 : proc'[<<x, c>>] = proc[<<x, c>>]
  <2>1. x \in Sh!Segments /\ x <= x
    BY LineType DEF EndsInv
  <2>2. \A c \in 0..2 : <<x, c>> \in Sh!Children /\ <<x, c>>[1] = x
    BY <2>1, Names
  <2>3. \A c \in 0..2 : proc'[<<x, c>>].pc # "killed"
    BY <1>2, <2>1, <2>2 DEF Sh!Undisturbed
  <2> QED
    BY <1>1, <2>1, <2>3
<1> QED
  BY <1>1, <1>2

LEMMA CtrlCShape ==
  ASSUME LineAssumption, EndsInv, ShapeInv, line' = line, buffering' = buffering, Sh!CtrlC
  PROVE  ShapeInv'
<1>1. /\ proc'[Sh!Shell] = proc[Sh!Shell]
      /\ \A s \in Sh!Segments, d \in 0..2 :
           \/ proc'[<<s, d>>] = proc[<<s, d>>]
           \/ proc'[<<s, d>>].pc = "killed"
  BY Interrupting
<1>2. \A x \in 1..Sh!nsegs : Sh!Undisturbed(x)' =>
        x \in Sh!Segments /\ \A c \in 0..2 : proc'[<<x, c>>] = proc[<<x, c>>]
  BY Interrupting
<1>3. ASSUME NEW x \in 1..Sh!nsegs, Sh!Undisturbed(x), Sh!Undisturbed(x)'
      PROVE  /\ \A c \in 0..1 : \/ proc'[<<x, c>>] = proc[<<x, c>>]
                                \/ Main(x, c) => MainShape(x, c, proc'[<<x, c>>])
             /\ \A c \in 1..2 : \/ proc'[<<x, c>>] = proc[<<x, c>>]
                                \/ CatAt(x, c - 1) => KidShape(x, c, proc'[<<x, c>>])
             /\ \A c \in 1..2 : proc'[<<x, c>>].pc # "unborn"
                  <=> Forks(x, c - 1) /\ proc'[<<x, c - 1>>].pc \in Started
  <2>1. \A c \in 0..2 : proc'[<<x, c>>] = proc[<<x, c>>]
    BY <1>2, <1>3
  <2>2. \A c \in 0..1 : c \in 0..2
    OBVIOUS
  <2>3. \A c \in 1..2 : c \in 0..2 /\ c - 1 \in 0..2
    OBVIOUS
  <2> QED
    BY <1>3, <2>1, <2>2, <2>3 DEF ShapeInv, ShapeAt
<1>4. \A x \in Sh!Segments, c \in 0..2 :
        proc[<<x, c>>].pc \in {"failed", "killed"} => proc'[<<x, c>>].pc \in {"failed", "killed"}
  BY <1>1
<1> QED
  BY <1>1, <1>3, <1>4, ShapeCarry DEF ShapeInv

LEMMA NextShape ==
  ASSUME LineAssumption, EndsInv, ShapeInv, [Sh!Next]_(Sh!vars)
  PROVE  ShapeInv'
<1>1. CASE UNCHANGED Sh!vars
  BY <1>1, StillShape DEF Sh!vars, ShapeInv
<1>2. CASE UNCHANGED <<line, buffering>> /\ Sh!run_pipeline
  BY <1>2, ForkShape, ShellShape DEF Sh!run_pipeline
<1>3. CASE UNCHANGED <<line, buffering>> /\ Sh!CtrlC
  BY <1>3, CtrlCShape
<1>4. ASSUME NEW p \in Sh!Children, line' = line, buffering' = buffering,
             Sh!segment(p) \/ Sh!IoError(p)
      PROVE  ShapeInv'
  <2>1. PICK s \in Sh!Segments, d \in 0..2 : p = <<s, d>>
    BY Names
  <2>2. CASE Sh!SigDefault(p) \/ Sh!SetupFails(p) \/ Sh!StartFails(p)
             \/ Sh!Reap(p) \/ Sh!SigPipe(p) \/ Sh!IoError(p)
    BY <1>4, <2>1, <2>2, PlainSteps, GotoShape
  <2>3. CASE Sh!Setup(p)
    BY <1>4, <2>1, <2>3, SetupShape
  <2>4. CASE Sh!Exec(p)
    BY <1>4, <2>1, <2>4, ExecShape
  <2>5. CASE Sh!Start(p)
    BY <1>4, <2>1, <2>5, StartShape
  <2>6. CASE Sh!ParentCloses(p)
    BY <1>4, <2>1, <2>6, ParentClosesShape
  <2>7. CASE Sh!KidOfCat(p) \/ Sh!KidOfCounter(p)
    BY <1>4, <2>1, <2>7, KidShapes
  <2>8. CASE Sh!Read(p) \/ Sh!ReadEnds(p) \/ Sh!Write(p)
    BY <1>4, <2>1, <2>8, CopyShape
  <2> QED
    BY <1>4, <2>2, <2>3, <2>4, <2>5, <2>6, <2>7, <2>8 DEF Sh!segment, Sh!Filter
<1> QED
  BY <1>1, <1>2, <1>3, <1>4 DEF Sh!Next

-----------------------------------------------------------------------------
(***************************************************************************)
(* The bytes of an undisturbed line                                        *)
(***************************************************************************)

LEMMA NeedSame ==
  ASSUME line' = line, buffering' = buffering
  PROVE  \A s : (FileGiven(s)' <=> FileGiven(s)) /\ Need(s)' = Need(s)
<1>1. Sh!Input' = Sh!Input
  BY DEF Sh!Input
<1>2. \A s : FileGiven(s)' <=> FileGiven(s)
  BY LineSame, ShapesSame DEF FileGiven
<1> QED
  BY <1>1, <1>2 DEF Need

\* what a segment has got, if its source or what came before it is as it was
LEMMA TakenSame ==
  ASSUME line' = line, buffering' = buffering, NEW x, NEW w, NEW v, left'[x] = left[x],
         \/ Inlet(x) = Sh!Outside
         \/ fill'[<<x - 1, -1>>] = fill[<<x - 1, -1>>] /\ v[x - 1] = w[x - 1]
         \/ /\ Outlet(x - 1, 0) # Sh!Outside
            /\ v[x - 1] - fill'[<<x - 1, -1>>] = w[x - 1] - fill[<<x - 1, -1>>]
         \/ /\ Outlet(x - 1, 0) = Sh!Outside
            /\ fill'[<<x - 1, -1>>] = fill[<<x - 1, -1>>]
  PROVE  Taken(v, x)' = Taken(w, x)
<1>1. Inlet(x)' = Inlet(x) /\ Outlet(x - 1, 0)' = Outlet(x - 1, 0)
  BY LineSame
<1>2. FileGiven(x)' <=> FileGiven(x)
  BY NeedSame
<1> QED
  BY <1>1, <1>2 DEF Taken

(* The process <<x, c>> does nothing that concerns the bytes: it stays, or *)
(* goes on with the bytes it has, or neither copies nor counts.            *)
Still(x, c) ==
  LET p == proc[<<x, c>>]
      r == proc'[<<x, c>>] IN
  \/ r = p
  \/ /\ r.buf = p.buf /\ p.pc # "ended" /\ r.pc # "ended"
     /\ r.pc \in {"wait", "write"} => p.pc \in {"wait", "write"}
  \/ /\ AsMain(x, c) /\ Head(Words(x, c)) \notin {"cat", "counter"}
     /\ p.pc # "ended" /\ (r.pc = "ended" /\ c = 0 => ~Speaks(x))

LEMMA FlowSame ==
  ASSUME line' = line, buffering' = buffering, NEW w, NEW v, NEW x,
         \A c \in 0..2 : Still(x, c),
         \A c \in 0..1 : fill'[<<x, c>>] = fill[<<x, c>>],
         count'[<<x, 0>>] = count[<<x, 0>>], v[x] = w[x],
         Taken(v, x)' = Taken(w, x),
         FlowAt(w, x)
  PROVE  FlowAt(v, x)'
<1>1. /\ Need(x)' = Need(x) /\ (RunsCommand(x)' <=> RunsCommand(x))
      /\ line'[x].argv = line[x].argv
      /\ \A c : CatAt(x, c)' <=> CatAt(x, c)
  BY NeedSame, LineSame, ShapesSame
<1>2. 0 \in 0..1 /\ 1 \in 0..1 /\ 0 \in 0..2 /\ 1 \in 0..2 /\ 2 \in 0..2
  OBVIOUS
<1>3. \A c \in 0..1 : CameOut(v, x, c)' = CameOut(w, x, c)
  BY <1>2 DEF CameOut
<1>4. ASSUME NEW c \in 0..1, CatAt(x, c)
      PROVE  CatFlow(v, x, c)'
  <2>1. c \in 0..2 /\ c + 1 \in 0..2
    OBVIOUS
  <2>2. \A e \in {c, c + 1} :
          /\ proc'[<<x, e>>].buf = proc[<<x, e>>].buf
          /\ proc'[<<x, e>>].pc = "ended" <=> proc[<<x, e>>].pc = "ended"
    <3>1. ASSUME NEW e \in {c, c + 1}
          PROVE  ~(AsMain(x, e) /\ Head(Words(x, e)) # "cat")
      <4>1. CASE e = c
        BY <1>4, <4>1 DEF CatAt
      <4>2. CASE e = c + 1
        <5>1. e = 2 \/ c = 0
          BY <4>2
        <5> QED
          BY <1>4, <4>2, <5>1 DEF AsMain
      <4> QED
        BY <4>1, <4>2
    <3>2. \A e \in {c, c + 1} : Still(x, e)
      BY <2>1
    <3> QED
      BY <3>1, <3>2 DEF Still
  <2>3. CatFlow(w, x, c)
    BY <1>4 DEF FlowAt
  <2> QED
    BY <1>1, <1>3, <2>2, <2>3 DEF CatFlow
<1>5. ASSUME Head(line[x].argv) = "counter", RunsCommand(x) => CatAt(x, 1)
      PROVE  CounterFlow(v, x)'
  <2>1. CounterFlow(w, x)
    BY <1>5 DEF FlowAt
  <2>2. proc'[<<x, 0>>].pc \in {"wait", "write", "ended"}
          => proc[<<x, 0>>].pc \in {"wait", "write", "ended"}
    BY <1>2, <1>5 DEF Still, Words
  <2> QED
    BY <1>1, <2>1, <2>2 DEF CounterFlow
<1>6. ASSUME Head(line[x].argv) # "cat"
      PROVE  v[x] = IF /\ Speaks(x)
                       /\ proc'[<<x, 0>>].pc = "ended" THEN 1 ELSE 0
  <2>1. w[x] = IF /\ Speaks(x)
                  /\ proc[<<x, 0>>].pc = "ended" THEN 1 ELSE 0
    BY <1>6 DEF FlowAt
  <2>2. Speaks(x) =>
          (proc'[<<x, 0>>].pc = "ended" <=> proc[<<x, 0>>].pc = "ended")
    BY <1>2 DEF Still
  <2> QED
    BY <2>1, <2>2
<1> QED
  BY <1>1, <1>4, <1>5, <1>6, LineSame DEF FlowAt

\* the bytes of each segment, one after the other
LEMMA FlowCarry ==
  ASSUME LineAssumption, EndsInv, line' = line, buffering' = buffering, StreamsTypeInv',
         \A x \in Sh!Segments, c \in 0..2 :
           proc[<<x, c>>].pc \in {"failed", "killed"} => proc'[<<x, c>>].pc \in {"failed", "killed"},
         NEW w, NEW v \in [Sh!Segments -> Int],
         \A x \in 1..Sh!nsegs : Sh!Undisturbed(x) => FlowAt(w, x),
         \A x \in 1..Sh!nsegs :
           Sh!Undisturbed(x) /\ Sh!Undisturbed(x)' /\ FlowAt(w, x) => FlowAt(v, x)'
  PROVE  FlowInv'
<1>1. Sh!nsegs' = Sh!nsegs
  BY LineSame
<1>2. \A x \in 1..Sh!nsegs : Sh!Undisturbed(x)' => FlowAt(v, x)'
  <2> TAKE x \in 1..Sh!nsegs
  <2>1. x \in Sh!Segments
    BY LineType DEF EndsInv
  <2> QED
    BY <2>1, CalmBefore
<1>3. (\A x \in 1..Sh!nsegs : Sh!Undisturbed(x) => FlowAt(v, x))'
  BY <1>1, <1>2
<1> QED
  BY <1>3 DEF FlowInv, Sh!Segments

\* whoever reads from the segment before is not the first
LEMMA InletIs ==
  ASSUME LineAssumption, NEW x \in Sh!Segments, Inlet(x) # Sh!Outside
  PROVE  /\ x # 1 /\ x - 1 \in Sh!Segments /\ "<" \notin line[x].redirs
         /\ Inlet(x) = <<x - 1, -1>>
<1>1. x # 1 /\ "<" \notin line[x].redirs /\ Inlet(x) = <<x - 1, -1>>
  BY DEF Inlet
<1> QED
  BY <1>1 DEF LineAssumption, Sh!PipesAssumption, Sh!Segments

LEMMA InitFlow ==
  ASSUME LineAssumption, Sh!Init
  PROVE  FlowInv
<1>1. \A p \in Sh!Children : proc[p].pc = "unborn" /\ proc[p].buf = 0
  BY Names DEF Sh!Init, Sh!NoProcess
<1>2. /\ FILE_SIZE \in Int /\ \A x \in Sh!Segments : left[x] = FILE_SIZE
      /\ \A x \in Sh!Segments, c \in -1..2 : fill[<<x, c>>] = 0
      /\ \A p \in Sh!Children : count[p] = 0
  BY DEF Sh!Init, LineAssumption, Sh!ShellAssumption
<1>3. StreamsTypeInv
  BY <1>2 DEF Sh!Init, StreamsTypeInv
<1>4. PICK w \in [Sh!Segments -> Int] : \A x \in Sh!Segments : w[x] = 0
  <2>1. [x \in Sh!Segments |-> 0] \in [Sh!Segments -> Int]
    OBVIOUS
  <2> QED
    BY <2>1
<1>5. ASSUME NEW x \in 1..Sh!nsegs
      PROVE  FlowAt(w, x)
  <2>1. x \in Sh!Segments
    BY InitEndsInv, LineType DEF EndsInv
  <2>2. \A c \in 0..2 : /\ proc[<<x, c>>].pc = "unborn" /\ proc[<<x, c>>].buf = 0
                        /\ count[<<x, c>>] = 0 /\ fill[<<x, c>>] = 0
    <3> TAKE c \in 0..2
    <3>1. c \in -1..2
      OBVIOUS
    <3>2. <<x, c>> \in Sh!Children
      BY <2>1, Names
    <3> QED
      BY <1>1, <1>2, <2>1, <3>1, <3>2
  <2>3. Taken(w, x) = 0
    <3>1. CASE FileGiven(x) \/ Inlet(x) = Sh!Outside
      BY <1>2, <2>1, <3>1 DEF Taken
    <3>2. CASE ~FileGiven(x) /\ Inlet(x) # Sh!Outside
      <4>1. x - 1 \in Sh!Segments /\ -1 \in -1..2
        BY <2>1, <3>2, InletIs
      <4>2. w[x - 1] = 0 /\ fill[<<x - 1, -1>>] = 0
        BY <1>2, <1>4, <4>1
      <4> QED
        BY <3>2, <4>2 DEF Taken
    <3> QED
      BY <3>1, <3>2
  <2>4. \A c \in 0..1 : CatFlow(w, x, c)
    <3> TAKE c \in 0..1
    <3>1. c \in 0..2 /\ c + 1 \in 0..2 /\ 0 \in 0..2
      OBVIOUS
    <3> QED
      BY <1>4, <2>1, <2>2, <2>3, <3>1 DEF CatFlow, CameOut
  <2>5. 0 \in 0..2
    OBVIOUS
  <2>6. CounterFlow(w, x)
    BY <2>2, <2>3, <2>5 DEF CounterFlow
  <2> QED
    BY <1>4, <2>1, <2>2, <2>4, <2>5, <2>6 DEF FlowAt
<1> QED
  BY <1>3, <1>4, <1>5 DEF FlowInv

\* a step that moves no bytes
LEMMA QuietFlow ==
  ASSUME LineAssumption, EndsInv, FlowInv,
         line' = line, buffering' = buffering, UNCHANGED Sh!streams,
         \A x \in Sh!Segments, c \in 0..2 :
           proc[<<x, c>>].pc \in {"failed", "killed"} => proc'[<<x, c>>].pc \in {"failed", "killed"},
         \A x \in 1..Sh!nsegs : Sh!Undisturbed(x) /\ Sh!Undisturbed(x)' =>
           \A c \in 0..2 : Still(x, c)
  PROVE  FlowInv'
<1>1. PICK w \in [Sh!Segments -> Int] :
        \A x \in 1..Sh!nsegs : Sh!Undisturbed(x) => FlowAt(w, x)
  BY DEF FlowInv
<1>2. fill' = fill /\ left' = left /\ count' = count
  BY DEF Sh!streams
<1>3. StreamsTypeInv'
  BY <1>2 DEF FlowInv, StreamsTypeInv
<1>4. ASSUME NEW x \in 1..Sh!nsegs, Sh!Undisturbed(x), Sh!Undisturbed(x)', FlowAt(w, x)
      PROVE  FlowAt(w, x)'
  <2>1. Taken(w, x)' = Taken(w, x)
    BY <1>2, TakenSame
  <2> QED
    BY <1>2, <1>4, <2>1, FlowSame
<1> QED
  BY <1>1, <1>3, <1>4, FlowCarry

LEMMA QuietMoves ==
  ASSUME LineAssumption, EndsInv, FlowInv,
         line' = line, buffering' = buffering, UNCHANGED Sh!streams,
         NEW s \in Sh!Segments, NEW d \in 0..2, NEW r,
         proc' = [proc EXCEPT ![<<s, d>>] = r],
         proc[<<s, d>>].pc \notin {"failed", "killed"},
         Sh!Undisturbed(s) /\ r.pc \notin {"failed", "killed"} => Still(s, d)
  PROVE  FlowInv'
<1>1. /\ proc'[<<s, d>>] = r
      /\ \A x \in Sh!Segments, c \in 0..2 :
           (x = s /\ c = d) \/ proc'[<<x, c>>] = proc[<<x, c>>]
  BY Known, Names
<1>2. ASSUME NEW x \in 1..Sh!nsegs, Sh!Undisturbed(x), Sh!Undisturbed(x)', NEW c \in 0..2
      PROVE  Still(x, c)
  <2>1. x \in Sh!Segments /\ x <= x
    BY LineType DEF EndsInv
  <2>2. CASE x = s /\ c = d
    <3>1. <<s, d>> \in Sh!Children /\ <<s, d>>[1] = s
      BY Names
    <3>2. r.pc \notin {"failed", "killed"}
      BY <1>1, <1>2, <2>1, <2>2, <3>1 DEF Sh!Undisturbed
    <3> QED
      BY <1>2, <2>2, <3>2
  <2>3. CASE ~(x = s /\ c = d)
    BY <1>1, <2>1, <2>3 DEF Still
  <2> QED
    BY <2>2, <2>3
<1> QED
  BY <1>1, <1>2, QuietFlow

\* the steps of one process before and between its reads and writes
LEMMA QuietSteps ==
  ASSUME LineAssumption, EndsInv, ShapeInv, FlowInv, line' = line, buffering' = buffering,
         NEW s \in Sh!Segments, NEW d \in 0..2,
         LET p == <<s, d>> IN
           \/ Sh!SigDefault(p) \/ Sh!SetupFails(p) \/ Sh!StartFails(p)
           \/ Sh!Reap(p) \/ Sh!SigPipe(p) \/ Sh!IoError(p)
           \/ Sh!Setup(p) \/ Sh!ParentCloses(p) \/ Sh!KidOfCat(p) \/ Sh!KidOfCounter(p)
           \/ Sh!Exec(p)
  PROVE  FlowInv'
<1> DEFINE p == proc[<<s, d>>]
<1>1. p \in Process /\ <<s, d>> \in Processes /\ proc \in [Processes -> Process]
  BY Known
<1>2. CASE \/ Sh!SigDefault(<<s, d>>) \/ Sh!SetupFails(<<s, d>>) \/ Sh!StartFails(<<s, d>>)
           \/ Sh!Reap(<<s, d>>) \/ Sh!SigPipe(<<s, d>>) \/ Sh!IoError(<<s, d>>)
  <2>1. UNCHANGED Sh!streams
    BY <1>2 DEF Sh!SigDefault, Sh!SetupFails, Sh!StartFails, Sh!Reap, Sh!SigPipe, Sh!IoError
  <2>2. PICK from \in Past \cup Before, to \in Past \cup Before :
          /\ Sh!Goto(<<s, d>>, from, to)
          /\ \/ <<from, to>> \in {<<"born", "setup">>, <<"wait", "write">>}
             \/ to \in {"failed", "killed"} /\ from \notin {"unborn", "failed", "killed"}
    BY <1>2, PlainSteps
  <2>3. PICK r : r = [p EXCEPT !.pc = to] /\ proc' = [proc EXCEPT ![<<s, d>>] = r]
    BY <2>2 DEF Sh!Goto
  <2>4. p.pc = from /\ r.pc = to /\ r.buf = p.buf /\ proc'[<<s, d>>] = r
    BY <1>1, <2>2, <2>3 DEF Process, Sh!Goto
  <2>5. r.pc \notin {"failed", "killed"} => Still(s, d)
    BY <2>2, <2>4 DEF Still
  <2>6. p.pc \notin {"failed", "killed"}
    BY <2>2, <2>4
  <2> QED
    BY <2>1, <2>3, <2>5, <2>6, QuietMoves
<1>3. CASE Sh!Setup(<<s, d>>) \/ Sh!ParentCloses(<<s, d>>) \/ Sh!KidOfCat(<<s, d>>)
             \/ Sh!KidOfCounter(<<s, d>>)
  <2>1. UNCHANGED Sh!streams
    BY <1>3 DEF Sh!Setup, Sh!ParentCloses, Sh!KidOfCat, Sh!KidOfCounter
  <2>2. PICK r, next : /\ proc' = [proc EXCEPT ![<<s, d>>] = r]
                       /\ p.pc \in {"setup", "parent", "kid"} /\ next \in {"exec", "read"}
                       /\ r.pc = next /\ r.buf = p.buf
    <3>1. CASE Sh!Setup(<<s, d>>)
      <4>1. PICK a, b : proc' = [proc EXCEPT ![<<s, d>>].pc = "exec", ![<<s, d>>].in = a,
                                             ![<<s, d>>].out = b, ![<<s, d>>].holds = {}]
        BY <3>1 DEF Sh!Setup
      <4>2. PICK r : r = [p EXCEPT !.pc = "exec", !.in = a, !.out = b, !.holds = {}]
        OBVIOUS
      <4>3. proc' = [proc EXCEPT ![<<s, d>>] = r] /\ r.pc = "exec" /\ r.buf = p.buf
        BY <1>1, <4>1, <4>2 DEF Process
      <4> QED
        BY <3>1, <4>3 DEF Sh!Setup
    <3>2. CASE Sh!ParentCloses(<<s, d>>)
      <4>1. PICK a : proc' = [proc EXCEPT ![<<s, d>>].pc = "read", ![<<s, d>>].holds = @ \ a]
        BY <3>2 DEF Sh!ParentCloses
      <4>2. PICK r : r = [p EXCEPT !.pc = "read", !.holds = @ \ a]
        OBVIOUS
      <4>3. proc' = [proc EXCEPT ![<<s, d>>] = r] /\ r.pc = "read" /\ r.buf = p.buf
        BY <1>1, <4>1, <4>2 DEF Process
      <4> QED
        BY <3>2, <4>3 DEF Sh!ParentCloses
    <3>3. CASE Sh!KidOfCat(<<s, d>>)
      <4>1. PICK r : r = [p EXCEPT !.pc = "read", !.prog = "kid",
                                   !.holds = @ \ {<<Sh!Parent(<<s, d>>), "w">>}]
        OBVIOUS
      <4>2. proc' = [proc EXCEPT ![<<s, d>>] = r] /\ r.pc = "read" /\ r.buf = p.buf
        BY <1>1, <3>3, <4>1 DEF Process, Sh!KidOfCat
      <4> QED
        BY <3>3, <4>2 DEF Sh!KidOfCat
    <3>4. CASE Sh!KidOfCounter(<<s, d>>)
      <4>1. PICK above : above = Sh!Parent(<<s, d>>)
        OBVIOUS
      <4>2. PICK r : r = [p EXCEPT !.pc = "exec", !.argv = Tail(@), !.out = above,
                                   !.holds = @ \ {<<above, "r">>, <<above, "w">>}]
        OBVIOUS
      <4>3. proc' = [proc EXCEPT ![<<s, d>>] = r] /\ r.pc = "exec" /\ r.buf = p.buf
        BY <1>1, <3>4, <4>1, <4>2 DEF Process, Sh!KidOfCounter
      <4> QED
        BY <3>4, <4>3 DEF Sh!KidOfCounter
    <3> QED
      BY <1>3, <3>1, <3>2, <3>3, <3>4
  <2>3. proc'[<<s, d>>] = r
    BY <1>1, <2>2
  <2>4. Still(s, d)
    BY <2>2, <2>3 DEF Still
  <2> QED
    BY <2>1, <2>2, <2>4, QuietMoves
<1>4. CASE Sh!Exec(<<s, d>>)
  <2> DEFINE name == Head(p.argv)
             says == name = "pwd" /\ (d # 0 \/ buffering = "line")
             next == CASE says -> "write"
                       [] name = "counter" /\ ~(Len(p.argv) > 1) -> "read"
                       [] name = "cat" -> "start"
                       [] name = "counter" /\ Len(p.argv) > 1 -> "start"
                       [] OTHER -> "ended"
             size == IF says THEN 1 ELSE 0
  <2>1. UNCHANGED Sh!streams /\ p.pc = "exec"
    BY <1>4 DEF Sh!Exec
  <2>2. PICK r : proc' = [proc EXCEPT ![<<s, d>>] = r] /\ r = Turned(s, d)
    BY <1>4, ExecMoves
  <2>3. r.pc = next /\ r.buf = size
    BY <1>1, <2>2 DEF Process, Turned
  <2>4. \/ next \in {"read", "start"} /\ size = 0
        \/ next = "write" /\ name = "pwd"
        \/ /\ next = "ended" /\ size = 0 /\ name \notin {"cat", "counter"}
           /\ d = 0 => ~(name = "pwd" /\ buffering = "line")
    OBVIOUS
  <2> HIDE DEF says, next, size
  <2>5. proc'[<<s, d>>] = r /\ r.pc = next /\ r.buf = size
    BY <1>1, <2>2, <2>3 DEF Process
  <2>6. ASSUME Sh!Undisturbed(s)
        PROVE  Still(s, d)
    <3>1. s \in 1..Sh!nsegs
      BY <2>1, Born
    <3>2. AsMain(s, d)
      <4>1. ~AsKid(s, d)
        BY <2>1 DEF AsKid, KidShape
      <4> QED
        BY <2>1, <2>6, <3>1, <4>1, Roles
    <3>3. p.argv = Words(s, d) /\ p.buf = 0
      BY <2>1, <3>2 DEF AsMain, MainShape
    <3>4. next = "ended" /\ d = 0 => ~Speaks(s)
      BY <2>4, <3>3 DEF Words, Speaks, Sh!OneLine
    <3> QED
      BY <2>1, <2>4, <2>5, <3>2, <3>3, <3>4 DEF Still
  <2>7. p.pc \notin {"failed", "killed"}
    BY <2>1
  <2> QED
    BY <2>1, <2>2, <2>6, <2>7, QuietMoves
<1> QED
  BY <1>2, <1>3, <1>4

\* a process is born with an empty buffer
LEMMA BirthFlow ==
  ASSUME LineAssumption, EndsInv, ShapeInv, FlowInv,
         line' = line, buffering' = buffering, UNCHANGED Sh!streams,
         \A x \in Sh!Segments, c \in 0..2 :
           LET p == proc[<<x, c>>]
               r == proc'[<<x, c>>] IN
           \/ r = p
           \/ p.pc = "unborn" /\ r.pc \in {"born", "kid"}
           \/ p.pc = "start" /\ r.pc = "parent",
         ShapeInv'
  PROVE  FlowInv'
<1>1. ASSUME NEW x \in 1..Sh!nsegs, Sh!Undisturbed(x), Sh!Undisturbed(x)', NEW c \in 0..2
      PROVE  Still(x, c)
  <2>1. x \in Sh!Segments /\ ShapeAt(x) /\ ShapeAt(x)'
    BY <1>1, LineSame, LineType DEF EndsInv, ShapeInv
  <2> DEFINE p == proc[<<x, c>>]
             r == proc'[<<x, c>>]
  <2>2. ASSUME p.pc \notin {"write", "wait"}, r.pc \notin {"write", "wait"},
               r.pc # "unborn"
        PROVE  p.buf = 0 /\ r.buf = 0
    <3>1. CASE Main(x, c)
      <4>1. MainShape(x, c, p) /\ MainShape(x, c, proc[<<x, c>>])' /\ c \in 0..1
        BY <2>1, <3>1, ShapesSame DEF ShapeAt, Main
      <4> QED
        BY <2>2, <4>1 DEF MainShape
    <3>2. CASE ~Main(x, c)
      <4>1. c \in 1..2
        BY <3>2 DEF Main
      <4>2. Forks(x, c - 1)
        BY <2>1, <2>2, <4>1, ShapesSame DEF ShapeAt
      <4>3. CatAt(x, c - 1)
        BY <3>2, <4>1, <4>2 DEF Forks, Main
      <4>4. KidShape(x, c, p) /\ KidShape(x, c, proc[<<x, c>>])'
        BY <2>1, <4>1, <4>3, ShapesSame DEF ShapeAt
      <4> QED
        BY <2>2, <4>4 DEF KidShape
    <3> QED
      BY <3>1, <3>2
  <2> QED
    BY <2>1, <2>2 DEF Still
<1> QED
  BY <1>1, QuietFlow

\* there is one cat in a segment at most
LEMMA OneCat ==
  ASSUME NEW s, NEW c \in 0..1, CatAt(s, c)
  PROVE  /\ \A e \in 0..1 : CatAt(s, e) => e = c
         /\ FileGiven(s) <=> Sh!FileNamed(Words(s, c))
         /\ c = 0 => Head(line[s].argv) = "cat" /\ ~RunsCommand(s)
         /\ c = 1 => Head(line[s].argv) = "counter" /\ RunsCommand(s)
<1>1. /\ c = 0 => Head(line[s].argv) = "cat" /\ ~RunsCommand(s)
      /\ c = 1 => Head(line[s].argv) = "counter" /\ RunsCommand(s)
  BY DEF CatAt, Main, Words, RunsCommand
<1>2. ASSUME NEW e \in 0..1, CatAt(s, e)
      PROVE  e = c
  <2>1. /\ e = 0 => ~RunsCommand(s)
        /\ e = 1 => RunsCommand(s)
    BY <1>2 DEF CatAt, Main, Words, RunsCommand
  <2> QED
    BY <1>1, <2>1
<1> QED
  BY <1>1, <1>2 DEF FileGiven

LEMMA NoCat ==
  ASSUME NEW s, Head(line[s].argv) # "cat", ~CatAt(s, 1)
  PROVE  ~FileGiven(s) /\ \A e \in 0..1 : ~CatAt(s, e)
<1>1. ~CatAt(s, 0)
  BY DEF CatAt, Words
<1>2. \A e \in 0..1 : ~CatAt(s, e)
  BY <1>1
<1> QED
  BY <1>2 DEF FileGiven

\* the parts of FlowAt after a step
LEMMA FlowFrom ==
  ASSUME line' = line, buffering' = buffering, NEW v, NEW x,
         \A c \in 0..1 : CatAt(x, c) => CatFlow(v, x, c)',
         Head(line[x].argv) = "counter" /\ (RunsCommand(x) => CatAt(x, 1))
           => CounterFlow(v, x)',
         Head(line[x].argv) # "cat" =>
           v[x] = IF /\ Speaks(x)
                     /\ proc'[<<x, 0>>].pc = "ended" THEN 1 ELSE 0
  PROVE  FlowAt(v, x)'
<1>1. /\ RunsCommand(x)' <=> RunsCommand(x)
      /\ Speaks(x)' <=> Speaks(x)
      /\ line'[x].argv = line[x].argv
      /\ \A c : CatAt(x, c)' <=> CatAt(x, c)
  BY LineSame, ShapesSame
<1> QED
  BY <1>1 DEF FlowAt

\* where the cat of a segment, or its counter, reads its bytes
Tap(s) == IF FileGiven(s) \/ Inlet(s) = Sh!Outside THEN Sh!Outside ELSE <<s - 1, -1>>

\* the end of the pipe, or of the file, is as near as bytes have been read
LEMMA TakenMore ==
  ASSUME LineAssumption, StreamsTypeInv,
         line' = line, buffering' = buffering, NEW s \in Sh!Segments, NEW m \in Int,
         NEW w \in [Sh!Segments -> Int],
         IF Tap(s) = Sh!Outside
         THEN left' = [left EXCEPT ![s] = left[s] - m]
         ELSE fill' = [fill EXCEPT ![Tap(s)] = fill[Tap(s)] - m]
  PROVE  Taken(w, s)' = Taken(w, s) + m
<1>1. Inlet(s)' = Inlet(s) /\ Outlet(s - 1, 0)' = Outlet(s - 1, 0)
      /\ (FileGiven(s)' <=> FileGiven(s))
  BY LineSame, NeedSame
<1>2. left[s] \in Int /\ DOMAIN left = Sh!Segments /\ FILE_SIZE \in Int
  BY DEF StreamsTypeInv, LineAssumption, Sh!ShellAssumption
<1>3. CASE FileGiven(s) \/ Inlet(s) = Sh!Outside
  <2>1. left'[s] = left[s] - m
    BY <1>2, <1>3 DEF Tap
  <2> QED
    BY <1>1, <1>2, <1>3, <2>1 DEF Taken
<1>4. CASE ~FileGiven(s) /\ Inlet(s) # Sh!Outside
  <2>1. /\ s - 1 \in Sh!Segments /\ -1 \in -1..2 /\ w[s - 1] \in Int
        /\ <<s - 1, -1>> # Sh!Outside
    <3>1. -1 \in -1..2
      OBVIOUS
    <3> QED
      BY <1>4, <3>1, InletIs, Names
  <2>2. /\ fill[<<s - 1, -1>>] \in Int
        /\ fill'[<<s - 1, -1>>] = fill[<<s - 1, -1>>] - m
    BY <1>4, <2>1 DEF StreamsTypeInv, Tap
  <2> QED
    BY <1>1, <1>4, <2>1, <2>2 DEF Taken
<1> QED
  BY <1>3, <1>4

\* a program reads from the outside, the segment before, or a pipe of its segment
LEMMA Sources ==
  ASSUME LineAssumption, EndsInv, NEW s \in Sh!Segments, NEW d \in 0..2,
         proc[<<s, d>>].pc = "read"
  PROVE  /\ Sh!Src(<<s, d>>) \in {Sh!Outside, <<s - 1, -1>>} \cup {<<s, c>> : c \in 0..2}
         /\ proc[<<s, d>>].prog = "kid" => d > 0 /\ Sh!Src(<<s, d>>) = <<s, d - 1>>
<1>1. Own(s, d)
  BY Known
<1>2. /\ proc[<<s, d>>].in \in {Sh!Outside, <<s - 1, -1>>}
      /\ proc[<<s, d>>].prog = "kid" => d > 0
  BY <1>1 DEF Own, Running, Placed, Holding
<1>3. <<s, d>> \in {<<s, c>> : c \in 0..2}
      /\ (d > 0 => <<s, d - 1>> \in {<<s, c>> : c \in 0..2})
  <2>1. d > 0 => d - 1 \in 0..2
    OBVIOUS
  <2> QED
    BY <2>1
<1> QED
  BY <1>2, <1>3 DEF Sh!Src, Sh!Parent

\* where main programs read
LEMMA MainTap ==
  ASSUME LineAssumption, NEW s \in Sh!Segments, NEW d, AsMain(s, d),
         proc[<<s, d>>].pc = "read"
  PROVE  LET p == proc[<<s, d>>] IN
         /\ p.prog \in {"cat", "counter"} /\ p.prog = Head(Words(s, d))
         /\ p.prog = "cat" => CatAt(s, d) /\ Sh!Src(<<s, d>>) = Tap(s)
         /\ p.prog = "counter" /\ d = 0 =>
              /\ Head(line[s].argv) = "counter"
              /\ Sh!Command(<<s, d>>) <=> RunsCommand(s)
              /\ Sh!Src(<<s, d>>) = IF RunsCommand(s) THEN <<s, d>> ELSE Tap(s)
         /\ p.buf = 0
<1> DEFINE p == proc[<<s, d>>]
<1>1. /\ Main(s, d) /\ d \in 0..1 /\ p.argv = Words(s, d) /\ p.in = Inlet(s)
      /\ p.prog \in {"cat", "counter"} /\ p.prog = Head(Words(s, d)) /\ p.buf = 0
  BY DEF AsMain, MainShape, Started
<1>2. Inlet(s) \in {Sh!Outside, <<s - 1, -1>>}
  BY DEF Inlet
<1>3. ASSUME p.prog = "cat"
      PROVE  CatAt(s, d) /\ Sh!Src(<<s, d>>) = Tap(s)
  <2>1. CatAt(s, d)
    BY <1>1, <1>3 DEF CatAt
  <2>2. FileGiven(s) <=> Sh!FileNamed(Words(s, d))
    BY <1>1, <2>1, OneCat
  <2> QED
    BY <1>1, <1>2, <1>3, <2>1, <2>2 DEF Sh!Src, Tap
<1>4. ASSUME p.prog = "counter", d = 0
      PROVE  /\ Head(line[s].argv) = "counter"
             /\ Sh!Command(<<s, d>>) <=> RunsCommand(s)
             /\ Sh!Src(<<s, d>>) = IF RunsCommand(s) THEN <<s, d>> ELSE Tap(s)
  <2>1. /\ Head(line[s].argv) = "counter" /\ p.argv = line[s].argv
        /\ Sh!Command(<<s, d>>) <=> RunsCommand(s)
    BY <1>1, <1>4 DEF Words, Sh!Command, RunsCommand
  <2>2. ~RunsCommand(s) => ~FileGiven(s)
    BY <2>1, NoCat DEF CatAt, Main
  <2> QED
    BY <1>1, <1>2, <1>4, <2>1, <2>2 DEF Sh!Src, Tap
<1> QED
  BY <1>1, <1>3, <1>4

LEMMA Numbers ==
  ASSUME LineAssumption, EndsInv, StreamsTypeInv, NEW s \in Sh!Segments,
         NEW w \in [Sh!Segments -> Int]
  PROVE  /\ \A c \in 0..2 : /\ proc[<<s, c>>].buf \in Int /\ fill[<<s, c>>] \in Int
                            /\ count[<<s, c>>] \in Int
         /\ \A c \in 0..1 : CameOut(w, s, c) \in Int
<1>1. ASSUME NEW c \in 0..2
      PROVE  /\ proc[<<s, c>>].buf \in Int /\ fill[<<s, c>>] \in Int
             /\ count[<<s, c>>] \in Int
  <2>1. proc[<<s, c>>].buf \in Int
    BY Known DEF Process
  <2>2. c \in -1..2
    OBVIOUS
  <2>3. fill[<<s, c>>] \in Int
    BY <2>2 DEF StreamsTypeInv
  <2>4. <<s, c>> \in Sh!Children
    BY Names
  <2> QED
    BY <2>1, <2>3, <2>4 DEF StreamsTypeInv
<1>2. 0 \in 0..2
  OBVIOUS
<1>3. fill[<<s, 0>>] \in Int /\ count[<<s, 0>>] \in Int /\ w[s] \in Int
  BY <1>1, <1>2
<1>4. \A c \in 0..1 : CameOut(w, s, c) \in Int
  BY <1>3 DEF CameOut
<1> QED
  BY <1>1, <1>4

\* what a read does
LEMMA Reading ==
  ASSUME LineAssumption, EndsInv, StreamsTypeInv, NEW s \in Sh!Segments, NEW d \in 0..2,
         Sh!Read(<<s, d>>)
  PROVE  LET p == proc[<<s, d>>]
             src == Sh!Src(<<s, d>>) IN
         \E m \in Int :
           /\ p.pc = "read" /\ StreamsTypeInv'
           /\ src = Sh!Outside => left' = [left EXCEPT ![s] = left[s] - m] /\ fill' = fill
           /\ src # Sh!Outside => fill' = [fill EXCEPT ![src] = fill[src] - m] /\ left' = left
           /\ p.prog = "counter" =>
                count' = [count EXCEPT ![<<s, d>>] = count[<<s, d>>] + m] /\ proc' = proc
           /\ p.prog # "counter" =>
                /\ proc' = [proc EXCEPT ![<<s, d>>] = [p EXCEPT !.pc = "write", !.buf = m]]
                /\ count' = count
<1> DEFINE p == proc[<<s, d>>]
           src == Sh!Src(<<s, d>>)
<1>1. PICK m \in 1..BUF_SIZE :
        /\ p.pc = "read" /\ Sh!Drained(<<s, d>>, m)
        /\ IF p.prog = "counter"
           THEN count' = [count EXCEPT ![<<s, d>>] = count[<<s, d>>] + m] /\ UNCHANGED proc
           ELSE /\ proc' = [proc EXCEPT ![<<s, d>>].pc = "write", ![<<s, d>>].buf = m]
                /\ UNCHANGED count
  BY DEF Sh!Read
<1>2. m \in Int
  BY <1>1 DEF LineAssumption, Sh!FiltersAssumption
<1>3. /\ src = Sh!Outside => left' = [left EXCEPT ![s] = left[s] - m] /\ fill' = fill
      /\ src # Sh!Outside => fill' = [fill EXCEPT ![src] = fill[src] - m] /\ left' = left
  BY <1>1 DEF Sh!Drained
<1>4. p.prog # "counter" =>
        proc' = [proc EXCEPT ![<<s, d>>] = [p EXCEPT !.pc = "write", !.buf = m]]
  BY <1>1, Known
<1>5. StreamsTypeInv'
  <2>1. fill' \in [Sh!Segments \X (-1..2) -> Int]
    BY <1>2, <1>3 DEF StreamsTypeInv
  <2>2. left' \in [Sh!Segments -> Int]
    BY <1>2, <1>3 DEF StreamsTypeInv
  <2>3. count' \in [Sh!Children -> Int]
    <3>1. <<s, d>> \in Sh!Children /\ count \in [Sh!Children -> Int]
      BY Names DEF StreamsTypeInv
    <3>2. count[<<s, d>>] + m \in Int
      BY <1>2, <3>1
    <3> QED
      BY <1>1, <3>1, <3>2
  <2> QED
    BY <2>1, <2>2, <2>3 DEF StreamsTypeInv
<1> QED
  BY <1>1, <1>2, <1>3, <1>4, <1>5

LEMMA ReadHere ==
  ASSUME LineAssumption, EndsInv, ShapeInv, StreamsTypeInv, StreamsTypeInv',
         line' = line, buffering' = buffering,
         NEW s \in 1..Sh!nsegs, s \in Sh!Segments, NEW d \in 0..2, Sh!Undisturbed(s),
         NEW w \in [Sh!Segments -> Int], FlowAt(w, s),
         NEW m \in Int,
         LET p == proc[<<s, d>>]
             src == Sh!Src(<<s, d>>) IN
         /\ p.pc = "read"
         /\ src = Sh!Outside => left' = [left EXCEPT ![s] = left[s] - m] /\ fill' = fill
         /\ src # Sh!Outside => fill' = [fill EXCEPT ![src] = fill[src] - m] /\ left' = left
         /\ p.prog = "counter" =>
              count' = [count EXCEPT ![<<s, d>>] = count[<<s, d>>] + m] /\ proc' = proc
         /\ p.prog # "counter" =>
              /\ proc' = [proc EXCEPT ![<<s, d>>] = [p EXCEPT !.pc = "write", !.buf = m]]
              /\ count' = count
  PROVE  FlowAt(w, s)'
<1> DEFINE p == proc[<<s, d>>]
           src == Sh!Src(<<s, d>>)
<1>1. /\ p.pc = "read"
      /\ src = Sh!Outside => left' = [left EXCEPT ![s] = left[s] - m] /\ fill' = fill
      /\ src # Sh!Outside => fill' = [fill EXCEPT ![src] = fill[src] - m] /\ left' = left
      /\ p.prog = "counter" =>
           count' = [count EXCEPT ![<<s, d>>] = count[<<s, d>>] + m] /\ proc' = proc
      /\ p.prog # "counter" =>
           /\ proc' = [proc EXCEPT ![<<s, d>>] = [p EXCEPT !.pc = "write", !.buf = m]]
           /\ count' = count
  OBVIOUS
<1>2. /\ \A c \in 0..2 : /\ <<s, c>> \in Processes /\ proc[<<s, c>>] \in Process
                         /\ <<s, c>> \in Sh!Children /\ count[<<s, c>>] \in Int
      /\ proc \in [Processes -> Process] /\ p \in Process
  BY Known, Names DEF StreamsTypeInv
<1>3. \A c \in -1..2 : /\ <<s, c>> # src => fill'[<<s, c>>] = fill[<<s, c>>]
                       /\ fill[<<s, c>>] \in Int /\ <<s, c>> # Sh!Outside
  <2> TAKE c \in -1..2
  <2>1. <<s, c>> \in Sh!Segments \X (-1..2)
    OBVIOUS
  <2> QED
    BY <1>1, <2>1, Names DEF StreamsTypeInv
<1>4. \A c \in 0..2 : c \in -1..2
  OBVIOUS
<1>5. Need(s)' = Need(s)
  BY NeedSame
<1>6. p.prog # "counter" =>
        /\ proc'[<<s, d>>].pc = "write" /\ proc'[<<s, d>>].buf = m
        /\ \A c \in 0..2 : c # d => proc'[<<s, c>>] = proc[<<s, c>>]
  <2>1. \A c \in 0..2 : c # d => <<s, c>> # <<s, d>>
    OBVIOUS
  <2>2. PICK r : r = [p EXCEPT !.pc = "write", !.buf = m]
    OBVIOUS
  <2>3. r.pc = "write" /\ r.buf = m
    BY <1>2, <2>2 DEF Process
  <2>4. p.prog # "counter" => proc' = [proc EXCEPT ![<<s, d>>] = r]
    BY <1>1, <2>2
  <2> QED
    BY <1>2, <2>1, <2>3, <2>4
<1>7. AsMain(s, d) \/ AsKid(s, d)
  BY <1>1, Roles
<1>8. ASSUME NEW c \in 0..2, src = <<s, c>>
      PROVE  Taken(w, s)' = Taken(w, s)
  <2>1. left' = left
    <3>1. c \in -1..2
      OBVIOUS
    <3> QED
      BY <1>1, <1>3, <1>8, <3>1
  <2>2. CASE Inlet(s) = Sh!Outside
    BY <2>1, <2>2, TakenSame
  <2>3. CASE Inlet(s) # Sh!Outside
    <3>1. s - 1 \in Sh!Segments /\ -1 \in -1..2 /\ <<s - 1, -1>> # <<s, c>>
      BY <1>8, <2>3, InletIs
    <3>2. fill'[<<s - 1, -1>>] = fill[<<s - 1, -1>>]
      BY <1>1, <1>8, <2>1, <3>1 DEF StreamsTypeInv
    <3> QED
      BY <2>1, <3>2, TakenSame
  <2> QED
    BY <2>2, <2>3
<1>9. AsMain(s, d) => d \in 0..1
  BY DEF AsMain
\* the cat, and the counter by itself, take bytes of what the segment is given
<1>10. CASE AsMain(s, d) /\ p.prog = "cat"
  <2>1. CatAt(s, d) /\ src = Tap(s) /\ p.buf = 0 /\ d + 1 \in 0..2 /\ d \in 0..1
    <3>1. d + 1 \in 0..2
      BY <1>9, <1>10
    <3> QED
      BY <1>1, <1>9, <1>10, <3>1, MainTap
  <2>2. Taken(w, s)' = Taken(w, s) + m
    BY <1>1, <2>1, TakenMore
  <2>3. \A c \in 0..2 : fill'[<<s, c>>] = fill[<<s, c>>]
    BY <1>3, <1>4, <2>1 DEF Tap
  <2>4. CatFlow(w, s, d)'
    <3>1. CatFlow(w, s, d) /\ d + 1 # d
      BY <2>1 DEF FlowAt
    <3>2. CameOut(w, s, d)' = CameOut(w, s, d)
      BY <1>1, <1>10, <2>3 DEF CameOut
    <3>3. /\ proc'[<<s, d>>].buf = m /\ proc'[<<s, d>>].pc = "write"
          /\ proc'[<<s, d + 1>>] = proc[<<s, d + 1>>]
      BY <1>6, <1>10, <2>1, <3>1
    <3>4. proc[<<s, d + 1>>].buf \in Int /\ CameOut(w, s, d) \in Int /\ fill[<<s, d>>] \in Int
      BY <2>1, Numbers
    <3> QED
      BY <1>1, <2>1, <2>2, <2>3, <3>1, <3>2, <3>3, <3>4 DEF CatFlow
  <2>5. \A e \in 0..1 : CatAt(s, e) => CatFlow(w, s, e)'
    BY <2>1, <2>4, OneCat
  <2>6. ASSUME d = 1
        PROVE  /\ RunsCommand(s) /\ proc'[<<s, 0>>] = proc[<<s, 0>>] /\ count' = count
    <3>1. 0 \in 0..2 /\ 0 # d
      BY <2>6
    <3> QED
      BY <1>1, <1>6, <1>10, <2>1, <2>6, <3>1, OneCat
  <2>7. d = 0 => Head(line[s].argv) = "cat"
    BY <2>1, OneCat
  <2>8. Head(line[s].argv) = "counter" /\ (RunsCommand(s) => CatAt(s, 1)) => CounterFlow(w, s)'
    BY <1>5, <2>1, <2>6, <2>7, LineSame DEF FlowAt, CounterFlow
  <2>9. Head(line[s].argv) # "cat" =>
          w[s] = IF /\ Speaks(s)
                    /\ proc'[<<s, 0>>].pc = "ended" THEN 1 ELSE 0
    BY <2>1, <2>6, <2>7 DEF FlowAt
  <2> QED
    BY <2>5, <2>8, <2>9, FlowFrom
<1>11. CASE AsMain(s, d) /\ p.prog = "counter" /\ d = 0 /\ ~RunsCommand(s)
  <2>1. Head(line[s].argv) = "counter" /\ src = Tap(s)
    BY <1>1, <1>11, MainTap
  <2>2. \A e \in 0..1 : ~CatAt(s, e)
    BY <1>11, <2>1, NoCat DEF CatAt, Main
  <2>3. Taken(w, s)' = Taken(w, s) + m
    BY <1>1, <2>1, TakenMore
  <2>4. count'[<<s, 0>>] = count[<<s, 0>>] + m /\ proc' = proc
    BY <1>1, <1>2, <1>11 DEF StreamsTypeInv
  <2>5. CounterFlow(w, s)'
    BY <1>1, <1>11, <2>1, <2>3, <2>4, LineSame DEF FlowAt, CounterFlow
  <2> QED
    BY <2>2, <2>4, <2>5, FlowFrom DEF FlowAt
\* the counter counts what came out of the cat
<1>12. CASE AsMain(s, d) /\ p.prog = "counter" /\ d = 0 /\ RunsCommand(s)
  <2>1. Head(line[s].argv) = "counter" /\ src = <<s, 0>>
    BY <1>1, <1>12, MainTap
  <2>2. count'[<<s, 0>>] = count[<<s, 0>>] + m /\ proc' = proc
    BY <1>1, <1>2, <1>12 DEF StreamsTypeInv
  <2>3. /\ fill'[<<s, 0>>] = fill[<<s, 0>>] - m /\ fill[<<s, 0>>] \in Int
        /\ fill'[<<s, 1>>] = fill[<<s, 1>>]
    <3>1. 0 \in -1..2 /\ 1 \in -1..2 /\ 0 # 1
      OBVIOUS
    <3> QED
      BY <1>1, <1>3, <2>1, <3>1 DEF StreamsTypeInv
  <2>4. Taken(w, s)' = Taken(w, s)
    BY <1>8, <2>1
  <2>5. CatAt(s, 1) => CatFlow(w, s, 1)'
    <3>1. CameOut(w, s, 1)' = CameOut(w, s, 1)
      <4>1. count[<<s, 0>>] \in Int
        BY <1>2, <1>12
      <4> QED
        BY <2>2, <2>3, <4>1 DEF CameOut
    <3> QED
      BY <1>5, <2>2, <2>3, <2>4, <3>1 DEF CatFlow, FlowAt
  <2>6. ~CatAt(s, 0)
    BY <2>1 DEF CatAt, Words
  <2>7. CounterFlow(w, s)'
    BY <1>1, <1>12, <2>2, LineSame DEF CounterFlow
  <2> QED
    BY <2>2, <2>5, <2>6, <2>7, FlowFrom DEF FlowAt
\* nobody asks what the command of a counter counts
<1>13. CASE AsMain(s, d) /\ p.prog = "counter" /\ d = 1
  <2>1. /\ RunsCommand(s) /\ Head(line[s].argv) = "counter"
        /\ \A e \in 0..1 : ~CatAt(s, e)
    <3>1. RunsCommand(s) /\ ~CatAt(s, 0) /\ p.prog = Head(Words(s, 1))
      BY <1>1, <1>13, MainTap DEF AsMain, Main
    <3>2. ~CatAt(s, 1)
      BY <1>13, <3>1 DEF CatAt
    <3> QED
      BY <3>1, <3>2 DEF RunsCommand
  <2> QED
    BY <1>1, <1>13, <2>1, FlowFrom DEF FlowAt
\* the child of the cat takes bytes from the pipe between them
<1>14. CASE AsKid(s, d)
  <2>1. PICK c \in 0..1 : c = d - 1
    BY <1>14 DEF AsKid
  <2>2. /\ CatAt(s, c) /\ p.prog = "kid" /\ src = <<s, c>> /\ p.buf = 0
        /\ c \in 0..2 /\ c + 1 = d /\ c \in -1..2
    <3>1. p.prog = "kid" /\ p.buf = 0 /\ CatAt(s, c)
      BY <1>1, <1>14, <2>1 DEF AsKid, KidShape
    <3>2. src = <<s, c>>
      BY <1>1, <2>1, <3>1, Sources
    <3>3. c \in 0..2 /\ c + 1 = d /\ c \in -1..2
      BY <2>1
    <3> QED
      BY <3>1, <3>2, <3>3
  <2>3. fill'[<<s, c>>] = fill[<<s, c>>] - m /\ left' = left
    BY <1>1, <1>3, <2>2 DEF StreamsTypeInv
  <2>4. Taken(w, s)' = Taken(w, s)
    BY <1>8, <2>2
  <2>5. CatFlow(w, s, c)'
    <3>1. CatFlow(w, s, c)
      BY <2>2 DEF FlowAt
    <3>2. CameOut(w, s, c)' = CameOut(w, s, c)
      <4>1. c # 0 => fill'[<<s, 0>>] = fill[<<s, 0>>]
        BY <1>3, <2>2
      <4> QED
        BY <1>1, <2>2, <4>1 DEF CameOut
    <3>3. /\ proc'[<<s, c>>] = proc[<<s, c>>] /\ proc'[<<s, c + 1>>].buf = m
          /\ proc'[<<s, c + 1>>].pc = "write"
      BY <1>6, <2>2
    <3>4. proc[<<s, c>>].buf \in Int /\ CameOut(w, s, c) \in Int
      BY <2>2, Numbers
    <3> QED
      BY <1>3, <1>5, <2>2, <2>3, <2>4, <3>1, <3>2, <3>3, <3>4 DEF CatFlow
  <2>6. \A e \in 0..1 : CatAt(s, e) => CatFlow(w, s, e)'
    BY <2>2, <2>5, OneCat
  <2>7. /\ proc'[<<s, 0>>] = proc[<<s, 0>>] /\ count' = count
        /\ FlowAt(w, s)
    BY <1>1, <1>6, <2>1, <2>2
  <2>8. Head(line[s].argv) = "counter" /\ (RunsCommand(s) => CatAt(s, 1)) => CounterFlow(w, s)'
    BY <1>5, <2>4, <2>7, LineSame DEF FlowAt, CounterFlow
  <2> QED
    BY <2>6, <2>7, <2>8, FlowFrom DEF FlowAt
<1> QED
  BY <1>1, <1>7, <1>9, <1>10, <1>11, <1>12, <1>13, <1>14, MainTap

LEMMA ReadFlow ==
  ASSUME LineAssumption, EndsInv, ShapeInv, FlowInv, line' = line, buffering' = buffering,
         NEW s \in Sh!Segments, NEW d \in 0..2, Sh!Read(<<s, d>>)
  PROVE  FlowInv'
<1> DEFINE p == proc[<<s, d>>]
           src == Sh!Src(<<s, d>>)
<1>1. PICK w \in [Sh!Segments -> Int] :
        \A x \in 1..Sh!nsegs : Sh!Undisturbed(x) => FlowAt(w, x)
  BY DEF FlowInv
<1>2. StreamsTypeInv
  BY DEF FlowInv
<1>3. PICK m \in Int :
        /\ p.pc = "read" /\ StreamsTypeInv'
        /\ src = Sh!Outside => left' = [left EXCEPT ![s] = left[s] - m] /\ fill' = fill
        /\ src # Sh!Outside => fill' = [fill EXCEPT ![src] = fill[src] - m] /\ left' = left
        /\ p.prog = "counter" =>
             count' = [count EXCEPT ![<<s, d>>] = count[<<s, d>>] + m] /\ proc' = proc
        /\ p.prog # "counter" =>
             /\ proc' = [proc EXCEPT ![<<s, d>>] = [p EXCEPT !.pc = "write", !.buf = m]]
             /\ count' = count
  BY <1>2, Reading
<1>4. src \in {Sh!Outside, <<s - 1, -1>>} \cup {<<s, c>> : c \in 0..2}
  BY <1>3, Sources
<1>5. s \in 1..Sh!nsegs
  BY <1>3, Born
<1>6. \A x \in Sh!Segments, c \in 0..2 :
        (x = s /\ c = d) \/ (proc'[<<x, c>>] = proc[<<x, c>>] /\ count'[<<x, c>>] = count[<<x, c>>])
  <2> TAKE x \in Sh!Segments, c \in 0..2
  <2>1. <<x, c>> \in Processes /\ <<x, c>> \in Sh!Children
    BY Names
  <2> QED
    BY <1>2, <1>3, <2>1, Known DEF StreamsTypeInv
<1>7. ASSUME NEW x \in Sh!Segments, NEW c \in -1..2, <<x, c>> # src
      PROVE  fill'[<<x, c>>] = fill[<<x, c>>]
  BY <1>2, <1>3, <1>7 DEF StreamsTypeInv
<1>8. ASSUME NEW x \in 1..Sh!nsegs, x # s, FlowAt(w, x)
      PROVE  FlowAt(w, x)'
  <2>1. x \in Sh!Segments /\ x \in Int /\ s \in Int
    BY LineType, Names DEF EndsInv
  <2>2. left'[x] = left[x]
    BY <1>2, <1>3, <1>8, <2>1 DEF StreamsTypeInv
  <2>3. \A c \in 0..2 : fill'[<<x, c>>] = fill[<<x, c>>]
    <3> TAKE c \in 0..2
    <3>1. c \in -1..2 /\ c # -1
      OBVIOUS
    <3>2. /\ <<x, c>> # Sh!Outside /\ <<x, c>> # <<s - 1, -1>>
          /\ \A e \in 0..2 : <<x, c>> # <<s, e>>
      BY <1>8, <2>1, <3>1, Names
    <3>3. <<x, c>> # src
      BY <1>4, <3>2
    <3> QED
      BY <1>7, <2>1, <3>1, <3>3
  <2>4. Taken(w, x)' = Taken(w, x)
    <3>1. CASE Inlet(x) = Sh!Outside
      BY <2>2, <3>1, TakenSame
    <3>2. CASE Inlet(x) # Sh!Outside
      <4>1. x - 1 \in Sh!Segments /\ -1 \in -1..2 /\ x - 1 # s - 1
        BY <1>8, <2>1, <3>2, InletIs
      <4>2. <<x - 1, -1>> # Sh!Outside /\ \A c \in 0..2 : <<x - 1, -1>> # <<s, c>>
        BY DEF Sh!Outside
      <4>3. <<x - 1, -1>> # src
        BY <1>4, <4>1, <4>2
      <4>4. fill'[<<x - 1, -1>>] = fill[<<x - 1, -1>>]
        BY <1>7, <4>1, <4>3
      <4> QED
        BY <2>2, <4>4, TakenSame
    <3> QED
      BY <3>1, <3>2
  <2>5. \A c \in 0..1 : fill'[<<x, c>>] = fill[<<x, c>>]
    BY <2>3
  <2>6. \A c \in 0..2 : Still(x, c)
    BY <1>6, <1>8, <2>1 DEF Still
  <2>7. count'[<<x, 0>>] = count[<<x, 0>>]
    <3>1. 0 \in 0..2
      OBVIOUS
    <3> QED
      BY <1>6, <1>8, <2>1, <3>1
  <2> QED
    BY <1>8, <2>4, <2>5, <2>6, <2>7, FlowSame
<1>9. ASSUME Sh!Undisturbed(s), FlowAt(w, s)
      PROVE  FlowAt(w, s)'
  BY <1>1, <1>2, <1>3, <1>4, <1>5, <1>6, <1>7, <1>9, ReadHere
<1>10. \A x \in Sh!Segments, c \in 0..2 :
         proc[<<x, c>>].pc \in {"failed", "killed"} => proc'[<<x, c>>].pc \in {"failed", "killed"}
  BY <1>3, <1>6
<1> QED
  BY <1>1, <1>3, <1>8, <1>9, <1>10, FlowCarry

\* a segment that finds the end of its input has got what it was given
LEMMA Upstream ==
  ASSUME LineAssumption, EndsInv, ShapeInv, StreamsTypeInv,
         NEW s \in 1..Sh!nsegs, s \in Sh!Segments, Sh!Undisturbed(s),
         NEW d \in 0..2, proc[<<s, d>>].pc # "unborn",
         Inlet(s) # Sh!Outside, Sh!EndOfFile(<<s - 1, -1>>),
         NEW w \in [Sh!Segments -> Int],
         \A x \in 1..Sh!nsegs : Sh!Undisturbed(x) => FlowAt(w, x)
  PROVE  (IF Outlet(s - 1, 0) = Sh!Outside THEN 0 ELSE w[s - 1]) = Sh!Input[s]
<1>1. PICK x \in Sh!Segments : x = s - 1
  BY InletIs
<1>2. /\ s # 1 /\ "<" \notin line[s].redirs /\ x \in Int /\ x < s /\ s \in Int
      /\ Sh!nsegs \in Int /\ x \in 1..Sh!nsegs /\ x # Sh!nsegs
  BY <1>1, InletIs, LineType, Names DEF EndsInv
<1>3. Sh!Undisturbed(x)
  <2>1. \A p \in Sh!Children : p[1] \in Int
    BY Names DEF Sh!Children, Sh!Segments
  <2> QED
    BY <1>2, <2>1 DEF Sh!Undisturbed
<1>4. /\ ShapeAt(x) /\ FlowAt(w, x) /\ proc[<<x, 0>>].pc # "unborn"
      /\ w[x] \in Int
  <2>1. x \in 1..s
    BY <1>2
  <2>2. proc[<<x, 0>>].pc # "unborn"
    BY <2>1, Born
  <2> QED
    BY <1>2, <1>3, <2>2 DEF ShapeInv
<1>5. Sh!Input[s]
        = IF ">" \in line[x].redirs THEN 0
          ELSE LET words == line[x].argv IN
               CASE Head(words) = "cat" -> IF Sh!FileNamed(words) THEN FILE_SIZE ELSE Sh!Input[x]
                 [] Sh!OneLine(words) -> 1
                 [] OTHER -> 0
  <2>1. Sh!Input[s] = Given(Sh!Input, s)
    BY InputIs
  <2> QED
    BY <1>1, <1>2, <2>1 DEF Given
<1>6. CASE ">" \in line[x].redirs
  <2>1. Outlet(s - 1, 0) = Sh!Outside
    BY <1>1, <1>6 DEF Outlet
  <2> QED
    BY <1>5, <1>6, <2>1
<1>7. CASE ">" \notin line[x].redirs
  <2>1. Outlet(x, 0) = <<x, -1>> /\ <<x, -1>> # Sh!Outside
    BY <1>2, <1>7 DEF Outlet, Sh!Outside
  <2>2. \A c \in 0..2 : ~Sh!Has(<<x, c>>, <<<<x, -1>>, "w">>)
    <3>1. \A c \in 0..2 : <<x, c>> \in DOMAIN proc
      BY Known
    <3> QED
      BY <1>1, <3>1 DEF Sh!EndOfFile
  <2> DEFINE p == proc[<<x, 0>>]
             q == proc[<<x, 1>>]
  <2>3. p.pc = "ended" /\ p.buf = 0
    <3>1. MainShape(x, 0, p)
      <4>1. Main(x, 0) /\ 0 \in 0..1
        BY DEF Main
      <4> QED
        BY <1>4, <4>1 DEF ShapeAt
    <3>2. p.pc \in {"born", "setup", "kid", "exec", "start"} \cup Started /\ 0 \in 0..2
      <4>1. 0 \in 0..2 /\ x <= x
        BY <1>2
      <4> QED
        BY <1>3, <1>4, <4>1, Calm
    <3>3. p.pc \notin {"born", "setup"}
      <4>1. <<<<x, -1>>, "w">> \in Sh!pipes
        BY <1>2 DEF Sh!pipes
      <4> QED
        BY <2>2, <3>1, <3>2, <4>1 DEF MainShape, Sh!Has, Sh!Live, Sh!Gone
    <3>4. p.pc \notin {"exec", "start", "parent", "read", "write", "wait"}
      BY <2>1, <2>2, <3>1, <3>2 DEF MainShape, Started, Sh!Has, Sh!Live, Sh!Gone
    <3>5. p.pc # "kid"
      BY <3>1 DEF MainShape
    <3>6. p.pc = "ended"
      BY <3>2, <3>3, <3>4, <3>5 DEF Started
    <3> QED
      BY <3>1, <3>6 DEF MainShape
  <2>4. CASE Head(line[x].argv) = "cat"
    <3>1. CatAt(x, 0) /\ (FileGiven(x) <=> Sh!FileNamed(line[x].argv))
      <4>1. CatAt(x, 0) /\ 0 \in 0..1
        BY <2>4 DEF CatAt, Main, Words
      <4>2. FileGiven(x) <=> Sh!FileNamed(Words(x, 0))
        BY <4>1, OneCat
      <4> QED
        BY <4>1, <4>2 DEF Words
    <3>2. q.pc = "ended" /\ q.buf = 0
      <4>1. 1 \in 1..2 /\ 1 - 1 = 0 /\ 1 \in 0..2 /\ 0 \in 0..1
        OBVIOUS
      <4>2. KidShape(x, 1, q) /\ q.pc # "unborn"
        BY <1>4, <2>3, <3>1, <4>1 DEF ShapeAt, Forks, Started
      <4>3. q.out = <<x, -1>>
        BY <2>1, <4>1, <4>2 DEF KidShape
      <4> QED
        BY <2>2, <4>1, <4>2, <4>3 DEF KidShape, Sh!Has, Sh!Live, Sh!Gone
    <3>3. w[x] = Need(x)
      <4>1. CatFlow(w, x, 0)
        <5>1. 0 \in 0..1
          OBVIOUS
        <5> QED
          BY <1>4, <3>1, <5>1 DEF FlowAt
      <4>2. /\ Taken(w, x) = p.buf + fill[<<x, 0>>] + q.buf + w[x]
            /\ Taken(w, x) = Need(x) /\ fill[<<x, 0>>] = 0
        BY <2>3, <3>2, <4>1 DEF CatFlow, CameOut
      <4> QED
        BY <1>4, <2>3, <3>2, <4>2
    <3> QED
      BY <1>1, <1>5, <1>7, <2>1, <2>4, <3>1, <3>3 DEF Need, Sh!OneLine
  <2>5. CASE Head(line[x].argv) # "cat"
    BY <1>1, <1>4, <1>5, <1>7, <2>1, <2>3, <2>5 DEF FlowAt, Speaks
  <2> QED
    BY <2>4, <2>5
<1> QED
  BY <1>6, <1>7

\* so has whoever reads there
LEMMA AllTaken ==
  ASSUME LineAssumption, EndsInv, ShapeInv, StreamsTypeInv,
         NEW s \in 1..Sh!nsegs, s \in Sh!Segments, Sh!Undisturbed(s),
         NEW d \in 0..2, proc[<<s, d>>].pc # "unborn",
         IF Tap(s) = Sh!Outside THEN left[s] = 0 ELSE Sh!EndOfFile(Tap(s)),
         NEW w \in [Sh!Segments -> Int],
         \A x \in 1..Sh!nsegs : Sh!Undisturbed(x) => FlowAt(w, x)
  PROVE  Taken(w, s) = Need(s)
<1>1. CASE FileGiven(s)
  BY <1>1 DEF Tap, Taken, Need, LineAssumption, Sh!ShellAssumption
<1>2. CASE ~FileGiven(s) /\ Inlet(s) = Sh!Outside
  <2>1. Sh!Input[s] = Given(Sh!Input, s)
    BY InputIs
  <2>2. s = 1 \/ "<" \in line[s].redirs
    <3>1. -1 # 0
      OBVIOUS
    <3> QED
      BY <1>2, <3>1 DEF Inlet, Sh!Outside
  <2> QED
    BY <1>2, <2>1, <2>2 DEF Tap, Taken, Need, Given, LineAssumption, Sh!ShellAssumption
<1>3. CASE ~FileGiven(s) /\ Inlet(s) # Sh!Outside
  <2>1. s - 1 \in Sh!Segments /\ -1 \in -1..2 /\ <<s - 1, -1>> # Sh!Outside
    BY <1>3, InletIs, Names
  <2>2. Sh!EndOfFile(<<s - 1, -1>>)
    BY <1>3, <2>1 DEF Tap
  <2>3. fill[<<s - 1, -1>>] = 0 /\ w[s - 1] \in Int
    BY <2>1, <2>2 DEF Sh!EndOfFile
  <2>4. (IF Outlet(s - 1, 0) = Sh!Outside THEN 0 ELSE w[s - 1]) = Sh!Input[s]
    BY <1>3, <2>2, Upstream
  <2> QED
    BY <1>3, <2>3, <2>4 DEF Taken, Need
<1> QED
  BY <1>1, <1>2, <1>3

\* whoever would write to the child of a cat, or to the counter, is gone
LEMMA CatGone ==
  ASSUME LineAssumption, EndsInv, NEW s \in Sh!Segments, NEW d \in 0..2, AsKid(s, d),
         Sh!EndOfFile(<<s, d - 1>>)
  PROVE  fill[<<s, d - 1>>] = 0 /\ proc[<<s, d - 1>>].pc = "ended"
<1> DEFINE above == proc[<<s, d - 1>>]
           w == <<<<s, d - 1>>, "w">>
<1>1. d - 1 \in 0..2 /\ CatAt(s, d - 1) /\ MainShape(s, d - 1, above) /\ above.pc \in Started
  <2>1. d \in 1..2
    BY DEF AsKid
  <2> QED
    BY <2>1 DEF AsKid
<1>2. ~Sh!Has(<<s, d - 1>>, w) /\ Own(s, d - 1)
  BY <1>1, Known DEF Sh!EndOfFile
<1>3. above.prog = "cat"
  BY <1>1 DEF MainShape, CatAt
<1>4. above.pc # "parent"
  BY <1>2 DEF Own, Running, Holding, BothEnds, Sh!Has, Sh!Live, Sh!Gone
<1>5. above.pc \notin {"read", "write"}
  BY <1>1, <1>2, <1>3 DEF MainShape, Sh!Has, Sh!Live, Sh!Gone
<1>6. above.pc # "wait"
  BY <1>2, <1>3 DEF Own, Running, Holding
<1> QED
  BY <1>1, <1>4, <1>5, <1>6 DEF Started, Sh!EndOfFile

LEMMA CommandGone ==
  ASSUME LineAssumption, EndsInv, ShapeInv, NEW s \in 1..Sh!nsegs, s \in Sh!Segments,
         Sh!Undisturbed(s), proc[<<s, 0>>].pc = "read", CatAt(s, 1),
         Sh!EndOfFile(<<s, 0>>)
  PROVE  /\ fill[<<s, 0>>] = 0
         /\ \A c \in 1..2 : proc[<<s, c>>].pc = "ended" /\ proc[<<s, c>>].buf = 0
<1>1. RunsCommand(s) /\ 1 \in 0..1 /\ 1 \in 0..2 /\ 2 \in 0..2
  BY DEF CatAt, Main
<1>2. ShapeAt(s) /\ \A c \in 0..2 : ~Sh!Has(<<s, c>>, <<<<s, 0>>, "w">>)
  BY Known DEF ShapeInv, Sh!EndOfFile
<1>3. Outlet(s, 1) = <<s, 0>>
  BY DEF Outlet
<1> DEFINE p == proc[<<s, 1>>]
           q == proc[<<s, 2>>]
<1>4. p.pc = "ended" /\ p.buf = 0
  <2>1. MainShape(s, 1, p)
    BY <1>1, <1>2 DEF ShapeAt, CatAt
  <2>2. p.pc # "unborn"
    <3>1. 1 \in 1..2 /\ 1 - 1 = 0
      OBVIOUS
    <3> QED
      BY <1>1, <1>2, <3>1 DEF ShapeAt, Forks, Started
  <2>3. p.pc \in {"unborn", "born", "setup", "kid", "exec", "start"} \cup Started
    <3>1. s <= s
      OBVIOUS
    <3> QED
      BY <1>1, <3>1, Calm
  <2>4. p.pc # "kid"
    <3>1. p.pc = "kid" => p.holds = BothEnds(<<s, 0>>)
      <4>1. \A c \in 0..2 : Own(s, c)
        BY DEF EndsInv
      <4>2. Own(s, 1) /\ 1 - 1 = 0
        BY <1>1, <4>1
      <4> QED
        BY <4>2 DEF Own, Running, Holding
    <3> QED
      BY <1>1, <1>2, <3>1 DEF BothEnds, Sh!Has, Sh!Live, Sh!Gone
  <2>5. p.pc \notin {"born", "setup"}
    BY <2>1 DEF MainShape
  <2>6. p.pc \notin {"exec", "start", "parent", "read", "write", "wait"}
    BY <1>1, <1>2, <1>3, <2>1 DEF MainShape, Started, Sh!Has, Sh!Live, Sh!Gone
  <2>7. p.pc = "ended"
    BY <2>2, <2>3, <2>4, <2>5, <2>6 DEF Started
  <2> QED
    BY <2>1, <2>7 DEF MainShape
<1>5. q.pc = "ended" /\ q.buf = 0
  <2>1. 2 \in 1..2 /\ 2 - 1 = 1
    OBVIOUS
  <2>2. KidShape(s, 2, q) /\ q.pc # "unborn"
    BY <1>2, <1>4, <2>1 DEF ShapeAt, Forks, Started
  <2>3. q.out = <<s, 0>>
    BY <1>3, <2>1, <2>2 DEF KidShape
  <2> QED
    BY <1>1, <1>2, <2>2, <2>3 DEF KidShape, Sh!Has, Sh!Live, Sh!Gone
<1>6. \A c \in 1..2 : c = 1 \/ c = 2
  OBVIOUS
<1> QED
  BY <1>4, <1>5, <1>6 DEF Sh!EndOfFile

\* what the end of the input does
LEMMA EndsHere ==
  ASSUME LineAssumption, EndsInv, ShapeInv, StreamsTypeInv, line' = line, buffering' = buffering,
         NEW s \in 1..Sh!nsegs, s \in Sh!Segments, NEW d \in 0..2, Sh!Undisturbed(s),
         NEW w \in [Sh!Segments -> Int],
         \A x \in 1..Sh!nsegs : Sh!Undisturbed(x) => FlowAt(w, x),
         Sh!ReadEnds(<<s, d>>)
  PROVE  FlowAt(w, s)'
<1> DEFINE p == proc[<<s, d>>]
           src == Sh!Src(<<s, d>>)
           next == IF p.prog # "counter" THEN "ended"
                   ELSE IF Sh!Command(<<s, d>>) THEN "wait" ELSE "write"
           size == IF p.prog = "counter" THEN 1 ELSE 0
<1>1. /\ p.pc = "read" /\ FlowAt(w, s)
      /\ IF src = Sh!Outside THEN left[s] = 0 ELSE Sh!EndOfFile(src)
      /\ fill' = fill /\ left' = left /\ count' = count
  BY DEF Sh!ReadEnds, Sh!streams
<1>2. PICK r : /\ r = [p EXCEPT !.pc = next, !.buf = size, !.holds = {}]
               /\ proc' = [proc EXCEPT ![<<s, d>>] = r]
  BY DEF Sh!ReadEnds
<1>3. /\ proc'[<<s, d>>].pc = next /\ proc'[<<s, d>>].buf = size
      /\ \A c \in 0..2 : c # d => proc'[<<s, c>>] = proc[<<s, c>>]
  <2>1. /\ p \in Process /\ proc \in [Processes -> Process]
        /\ \A c \in 0..2 : <<s, c>> \in Processes /\ (c # d => <<s, c>> # <<s, d>>)
    BY Known
  <2>2. r.pc = next /\ r.buf = size
    <3> HIDE DEF next, size
    <3> QED
      BY <1>2, <2>1 DEF Process
  <2> QED
    BY <1>2, <2>1, <2>2
<1>4. Taken(w, s)' = Taken(w, s) /\ Need(s)' = Need(s)
  BY <1>1, TakenSame, NeedSame
<1>5. \A c \in 0..1 : CameOut(w, s, c)' = CameOut(w, s, c)
  BY <1>1 DEF CameOut
<1>6. AsMain(s, d) \/ AsKid(s, d)
  BY <1>1, Roles
<1>7. (IF Tap(s) = Sh!Outside THEN left[s] = 0 ELSE Sh!EndOfFile(Tap(s)))
        => Taken(w, s) = Need(s)
  BY <1>1, AllTaken
<1>8. CASE AsKid(s, d)
  <2>1. PICK c \in 0..1 : c = d - 1
    BY <1>8 DEF AsKid
  <2>2. CatAt(s, c) /\ p.prog = "kid" /\ src = <<s, c>> /\ p.buf = 0 /\ c \in 0..2 /\ c + 1 = d
    <3>1. p.prog = "kid" /\ p.buf = 0 /\ CatAt(s, c)
      BY <1>1, <1>8, <2>1 DEF AsKid, KidShape
    <3>2. src = <<s, c>>
      BY <1>1, <2>1, <3>1, Sources
    <3>3. c \in 0..2 /\ c + 1 = d
      BY <2>1
    <3> QED
      BY <3>1, <3>2, <3>3
  <2>3. fill[<<s, c>>] = 0 /\ proc[<<s, c>>].pc = "ended"
    <3>1. c \in -1..2
      BY <2>1
    <3>2. src # Sh!Outside
      BY <2>2, <3>1, Names
    <3> QED
      BY <1>1, <1>8, <2>1, <2>2, <3>2, CatGone
  <2>4. CatFlow(w, s, c)'
    <3>1. CatFlow(w, s, c)
      BY <1>1, <2>2 DEF FlowAt
    <3>2. proc'[<<s, c>>] = proc[<<s, c>>] /\ proc'[<<s, c + 1>>].buf = 0
      BY <1>3, <2>2
    <3> QED
      BY <1>1, <1>4, <1>5, <2>2, <2>3, <3>1, <3>2 DEF CatFlow
  <2>5. \A e \in 0..1 : CatAt(s, e) => CatFlow(w, s, e)'
    BY <2>2, <2>4, OneCat
  <2>6. proc'[<<s, 0>>] = proc[<<s, 0>>]
    BY <1>3, <2>1
  <2>7. Head(line[s].argv) = "counter" /\ (RunsCommand(s) => CatAt(s, 1)) => CounterFlow(w, s)'
    BY <1>1, <1>4, <2>6, LineSame DEF FlowAt, CounterFlow
  <2> QED
    BY <1>1, <2>5, <2>6, <2>7, FlowFrom DEF FlowAt
<1>9. CASE AsMain(s, d) /\ p.prog = "cat"
  <2>1. CatAt(s, d) /\ src = Tap(s) /\ p.buf = 0 /\ d \in 0..1 /\ d + 1 \in 0..2
    <3>1. CatAt(s, d) /\ src = Tap(s) /\ p.buf = 0 /\ d \in 0..1
      BY <1>1, <1>9, MainTap DEF AsMain
    <3> QED
      BY <3>1
  <2>2. Taken(w, s) = Need(s)
    BY <1>1, <1>7, <2>1
  <2>3. CatFlow(w, s, d)'
    <3>1. CatFlow(w, s, d) /\ d + 1 # d
      BY <1>1, <2>1 DEF FlowAt
    <3>2. /\ proc'[<<s, d>>].buf = 0 /\ proc'[<<s, d>>].pc = "ended"
          /\ proc'[<<s, d + 1>>] = proc[<<s, d + 1>>]
      BY <1>3, <1>9, <2>1, <3>1
    <3> QED
      BY <1>1, <1>4, <1>5, <2>1, <2>2, <3>1, <3>2 DEF CatFlow
  <2>4. \A e \in 0..1 : CatAt(s, e) => CatFlow(w, s, e)'
    BY <2>1, <2>3, OneCat
  <2>5. d = 1 => RunsCommand(s) /\ proc'[<<s, 0>>] = proc[<<s, 0>>]
    <3>1. ASSUME d = 1
          PROVE  RunsCommand(s) /\ proc'[<<s, 0>>] = proc[<<s, 0>>]
      <4>1. 0 \in 0..2 /\ 0 # d
        BY <3>1
      <4> QED
        BY <1>3, <2>1, <3>1, <4>1, OneCat
    <3> QED
      BY <3>1
  <2>6. d = 0 => Head(line[s].argv) = "cat"
    BY <2>1, OneCat
  <2>7. Head(line[s].argv) = "counter" /\ (RunsCommand(s) => CatAt(s, 1)) => CounterFlow(w, s)'
    BY <1>1, <1>4, <2>1, <2>5, <2>6, LineSame DEF FlowAt, CounterFlow
  <2>8. Head(line[s].argv) # "cat" =>
          w[s] = IF /\ Speaks(s)
                    /\ proc'[<<s, 0>>].pc = "ended" THEN 1 ELSE 0
    BY <1>1, <2>1, <2>5, <2>6 DEF FlowAt
  <2> QED
    BY <2>4, <2>7, <2>8, FlowFrom
<1>10. CASE AsMain(s, d) /\ p.prog = "counter" /\ d = 0
  <2>1. /\ Head(line[s].argv) = "counter" /\ ~CatAt(s, 0)
        /\ proc'[<<s, 0>>].pc \in {"wait", "write"} /\ proc[<<s, 0>>].pc = "read"
        /\ w[s] = 0
    <3>1. Head(line[s].argv) = "counter"
      BY <1>1, <1>10, MainTap
    <3>2. proc'[<<s, 0>>].pc \in {"wait", "write"} /\ proc[<<s, 0>>].pc = "read"
      BY <1>1, <1>3, <1>10
    <3> QED
      BY <1>1, <3>1, <3>2 DEF CatAt, Words, FlowAt
  <2>2. CatAt(s, 1) => CatFlow(w, s, 1)'
    <3>1. 1 \in 0..1 /\ 1 \in 0..2 /\ 2 \in 0..2 /\ 1 # 0 /\ 2 # 0 /\ 1 + 1 = 2
      OBVIOUS
    <3>2. proc'[<<s, 1>>] = proc[<<s, 1>>] /\ proc'[<<s, 2>>] = proc[<<s, 2>>]
      BY <1>3, <1>10, <3>1
    <3> QED
      BY <1>1, <1>4, <1>5, <3>1, <3>2 DEF CatFlow, FlowAt
  <2>3. ASSUME ~RunsCommand(s)
        PROVE  CounterFlow(w, s) /\ count[<<s, 0>>] = Need(s)
    <3>1. src = Tap(s)
      BY <1>1, <1>10, <2>3, MainTap
    <3> QED
      BY <1>1, <1>7, <2>1, <2>3, <3>1 DEF FlowAt, CounterFlow
  <2>4. ASSUME RunsCommand(s), CatAt(s, 1)
        PROVE  count[<<s, 0>>] = Need(s)
    <3>1. src = <<s, 0>> /\ src # Sh!Outside
      <4>1. 0 \in -1..2
        OBVIOUS
      <4> QED
        BY <1>1, <1>10, <2>4, <4>1, MainTap, Names
    <3>2. /\ fill[<<s, 0>>] = 0
          /\ \A c \in 1..2 : proc[<<s, c>>].pc = "ended" /\ proc[<<s, c>>].buf = 0
      BY <1>1, <2>1, <2>4, <3>1, CommandGone
    <3>3. /\ proc[<<s, 1>>].pc = "ended" /\ proc[<<s, 1>>].buf = 0
          /\ proc[<<s, 1 + 1>>].pc = "ended" /\ proc[<<s, 1 + 1>>].buf = 0
      BY <3>2
    <3>4. CatFlow(w, s, 1) /\ count[<<s, 0>>] \in Int
      <4>1. 1 \in 0..1 /\ 0 \in 0..2
        OBVIOUS
      <4> QED
        BY <1>1, <2>4, <4>1, Numbers DEF FlowAt
    <3> QED
      BY <3>2, <3>3, <3>4 DEF CatFlow, CameOut
  <2>5. RunsCommand(s) /\ CatAt(s, 1) => CounterFlow(w, s)'
    BY <1>1, <1>4, <2>4, LineSame DEF CounterFlow
  <2>6. ~RunsCommand(s) => CounterFlow(w, s)'
    BY <1>1, <1>4, <2>3, LineSame DEF CounterFlow
  <2> QED
    BY <2>1, <2>2, <2>5, <2>6, FlowFrom
<1>11. CASE AsMain(s, d) /\ p.prog = "counter" /\ d = 1
  <2>1. /\ RunsCommand(s) /\ Head(line[s].argv) = "counter"
        /\ \A e \in 0..1 : ~CatAt(s, e)
    <3>1. RunsCommand(s) /\ ~CatAt(s, 0) /\ p.prog = Head(Words(s, 1))
      BY <1>1, <1>11, MainTap DEF AsMain, Main
    <3>2. ~CatAt(s, 1)
      BY <1>11, <3>1 DEF CatAt
    <3> QED
      BY <3>1, <3>2 DEF RunsCommand
  <2>2. proc'[<<s, 0>>] = proc[<<s, 0>>]
    <3>1. 0 \in 0..2 /\ 0 # d
      BY <1>11
    <3> QED
      BY <1>3, <3>1
  <2> QED
    BY <1>1, <2>1, <2>2, FlowFrom DEF FlowAt
<1> QED
  <2>1. AsMain(s, d) => d = 0 \/ d = 1
    BY DEF AsMain
  <2> QED
    BY <1>1, <1>6, <1>8, <1>9, <1>10, <1>11, <2>1, MainTap

LEMMA ReadEndsFlow ==
  ASSUME LineAssumption, EndsInv, ShapeInv, FlowInv, line' = line, buffering' = buffering,
         NEW s \in Sh!Segments, NEW d \in 0..2, Sh!ReadEnds(<<s, d>>)
  PROVE  FlowInv'
<1>1. PICK w \in [Sh!Segments -> Int] :
        \A x \in 1..Sh!nsegs : Sh!Undisturbed(x) => FlowAt(w, x)
  BY DEF FlowInv
<1>2. /\ proc[<<s, d>>].pc = "read"
      /\ fill' = fill /\ left' = left /\ count' = count
      /\ \A q \in Processes : q # <<s, d>> => proc'[q] = proc[q]
  BY Known DEF Sh!ReadEnds, Sh!streams
<1>3. StreamsTypeInv /\ StreamsTypeInv'
  BY <1>2 DEF FlowInv, StreamsTypeInv
<1>4. s \in 1..Sh!nsegs
  BY <1>2, Born
<1>5. \A x \in Sh!Segments, c \in 0..2 : (x = s /\ c = d) \/ proc'[<<x, c>>] = proc[<<x, c>>]
  <2> TAKE x \in Sh!Segments, c \in 0..2
  <2>1. <<x, c>> \in Processes
    BY Names
  <2> QED
    BY <1>2, <2>1
<1>6. ASSUME NEW x \in 1..Sh!nsegs, x # s, FlowAt(w, x)
      PROVE  FlowAt(w, x)'
  <2>1. x \in Sh!Segments
    BY LineType DEF EndsInv
  <2>2. \A c \in 0..2 : Still(x, c)
    BY <1>5, <1>6, <2>1 DEF Still
  <2>3. Taken(w, x)' = Taken(w, x)
    BY <1>2, TakenSame
  <2> QED
    BY <1>2, <1>6, <2>2, <2>3, FlowSame
<1>7. Sh!Undisturbed(s) => FlowAt(w, s)'
  BY <1>1, <1>3, <1>4, EndsHere
<1>8. \A x \in Sh!Segments, c \in 0..2 :
        proc[<<x, c>>].pc \in {"failed", "killed"} => proc'[<<x, c>>].pc \in {"failed", "killed"}
  BY <1>2, <1>5
<1> QED
  BY <1>1, <1>3, <1>6, <1>7, <1>8, FlowCarry

\* a program writes to the outside, to the next segment, or to its own
LEMMA Targets ==
  ASSUME LineAssumption, EndsInv, NEW s \in Sh!Segments, NEW d \in 0..2,
         proc[<<s, d>>].pc = "write"
  PROVE  Sh!Dst(<<s, d>>) \in {Sh!Outside, <<s, -1>>} \cup {<<s, c>> : c \in 0..2}
<1>1. Own(s, d)
  BY Known
<1>2. \/ proc[<<s, d>>].out \in {Sh!Outside, <<s, -1>>}
      \/ \E e \in 0..d - 1 : proc[<<s, d>>].out = <<s, e>>
  BY <1>1 DEF Own, Running, Placed
<1>3. \A e \in 0..d - 1 : e \in 0..2
  OBVIOUS
<1> QED
  BY <1>2, <1>3 DEF Sh!Dst

\* what a write does
LEMMA Writing ==
  ASSUME LineAssumption, EndsInv, StreamsTypeInv, NEW s \in Sh!Segments, NEW d \in 0..2,
         Sh!Write(<<s, d>>)
  PROVE  LET p == proc[<<s, d>>]
             dst == Sh!Dst(<<s, d>>)
             r == proc'[<<s, d>>] IN
         \E m \in Int :
           /\ p.pc = "write" /\ m >= 1 /\ m <= p.buf
           /\ StreamsTypeInv' /\ left' = left /\ count' = count
           /\ dst = Sh!Outside => fill' = fill
           /\ dst # Sh!Outside => fill' = [fill EXCEPT ![dst] = fill[dst] + m]
           /\ \A x \in Sh!Segments, c \in 0..2 :
                (x = s /\ c = d) \/ proc'[<<x, c>>] = proc[<<x, c>>]
           /\ r.buf = p.buf - m
           /\ \/ r.pc = "write" /\ m < p.buf
              \/ r.pc = "read" /\ m = p.buf /\ p.prog \in {"cat", "kid"}
              \/ r.pc = "ended" /\ m = p.buf /\ p.prog \notin {"cat", "kid"}
<1> DEFINE p == proc[<<s, d>>]
           dst == Sh!Dst(<<s, d>>)
<1>1. PICK m \in 1..p.buf :
        /\ p.pc = "write"
        /\ IF dst = Sh!Outside
           THEN fill' = fill
           ELSE fill' = [fill EXCEPT ![dst] = fill[dst] + m]
        /\ proc' = [proc EXCEPT ![<<s, d>>].buf = p.buf - m,
             ![<<s, d>>].pc = IF m < p.buf THEN p.pc ELSE Sh!AfterWrite(<<s, d>>)]
        /\ left' = left /\ count' = count
  BY DEF Sh!Write
<1> DEFINE next == IF m < p.buf THEN p.pc ELSE Sh!AfterWrite(<<s, d>>)
<1>2. p \in Process /\ p.buf \in Int /\ m \in Int /\ m >= 1 /\ m <= p.buf
  <2>1. p \in Process /\ p.buf \in Int
    BY Known DEF Process
  <2> QED
    BY <1>1, <2>1
<1>3. \/ next = "write" /\ m < p.buf
      \/ next = "read" /\ m = p.buf /\ p.prog \in {"cat", "kid"}
      \/ next = "ended" /\ m = p.buf /\ p.prog \notin {"cat", "kid"}
  BY <1>1, <1>2 DEF Sh!AfterWrite
<1>4. PICK r : r = [p EXCEPT !.buf = p.buf - m, !.pc = next]
  OBVIOUS
<1>5. proc' = [proc EXCEPT ![<<s, d>>] = r]
  BY <1>1, <1>4
<1> HIDE DEF next
<1>6. r.buf = p.buf - m /\ r.pc = next /\ proc'[<<s, d>>] = r
  BY <1>2, <1>4, <1>5, Known DEF Process
<1>7. \A x \in Sh!Segments, c \in 0..2 :
        (x = s /\ c = d) \/ proc'[<<x, c>>] = proc[<<x, c>>]
  <2> TAKE x \in Sh!Segments, c \in 0..2
  <2>1. <<x, c>> \in Processes
    BY Names
  <2> QED
    BY <1>5, <2>1, Known
<1>8. StreamsTypeInv'
  <2>1. fill' \in [Sh!Segments \X (-1..2) -> Int]
    BY <1>1, <1>2 DEF StreamsTypeInv
  <2> QED
    BY <1>1, <2>1 DEF StreamsTypeInv
<1> QED
  BY <1>1, <1>2, <1>3, <1>6, <1>7, <1>8

\* where programs write
LEMMA TargetOf ==
  ASSUME LineAssumption, NEW s \in Sh!Segments, NEW d \in 0..2,
         AsMain(s, d) \/ AsKid(s, d), proc[<<s, d>>].pc = "write"
  PROVE  LET p == proc[<<s, d>>]
             dst == Sh!Dst(<<s, d>>) IN
         /\ AsKid(s, d) => p.prog = "kid" /\ dst = Outlet(s, d - 1)
         /\ AsMain(s, d) =>
              /\ d \in 0..1 /\ p.prog \in {"cat", "counter", "pwd"} /\ p.prog = Head(Words(s, d))
              /\ p.prog = "cat" => CatAt(s, d) /\ dst = <<s, d>>
              /\ p.prog # "cat" => dst = Outlet(s, d) /\ p.buf = 1 /\ (d = 0 => Speaks(s))
         /\ dst = Outlet(s, 0) \/ dst \in {<<s, c>> : c \in 0..2}
<1> DEFINE p == proc[<<s, d>>]
           dst == Sh!Dst(<<s, d>>)
<1>1. Outlet(s, 1) = <<s, 0>>
  BY DEF Outlet
<1>2. AsKid(s, d) => p.prog = "kid" /\ dst = Outlet(s, d - 1) /\ d - 1 \in {0, 1}
  BY DEF AsKid, KidShape, Sh!Dst
<1>3. AsMain(s, d) =>
        /\ d \in 0..1 /\ p.prog \in {"cat", "counter", "pwd"} /\ p.prog = Head(Words(s, d))
        /\ p.prog = "cat" => CatAt(s, d) /\ dst = <<s, d>>
        /\ p.prog # "cat" => dst = Outlet(s, d) /\ p.buf = 1 /\ (d = 0 => Speaks(s))
  BY DEF AsMain, MainShape, Started, CatAt, Sh!Dst, Speaks, Sh!OneLine, Words
<1>4. 0 \in 0..2 /\ 1 \in 0..2
  OBVIOUS
<1>5. AsMain(s, d) => d = 0 \/ d = 1
  BY <1>3
<1>6. dst = Outlet(s, 0) \/ dst \in {<<s, c>> : c \in 0..2}
  BY <1>1, <1>2, <1>3, <1>4, <1>5
<1> QED
  BY <1>2, <1>3, <1>6

(* The process <<s, d>> writes m bytes, which v counts if they come out of  *)
(* the segment.                                                            *)
Wrote(s, d, m, w, v) ==
  LET p == proc[<<s, d>>]
      dst == Sh!Dst(<<s, d>>)
      r == proc'[<<s, d>>] IN
  /\ p.pc = "write" /\ m >= 1 /\ m <= p.buf
  /\ left' = left /\ count' = count
  /\ \A x \in Sh!Segments, c \in -1..2 : <<x, c>> # dst => fill'[<<x, c>>] = fill[<<x, c>>]
  /\ \A x \in Sh!Segments, c \in -1..2 : <<x, c>> = dst => fill'[<<x, c>>] = fill[<<x, c>>] + m
  /\ \A c \in 0..2 : c = d \/ proc'[<<s, c>>] = proc[<<s, c>>]
  /\ r.buf = p.buf - m
  /\ \/ r.pc = "write" /\ m < p.buf
     \/ r.pc = "read" /\ m = p.buf /\ p.prog \in {"cat", "kid"}
     \/ r.pc = "ended" /\ m = p.buf /\ p.prog \notin {"cat", "kid"}
  /\ \A x \in Sh!Segments : x # s => v[x] = w[x]
  /\ v[s] = IF dst \in {Sh!Outside, <<s, -1>>} THEN w[s] + m ELSE w[s]

\* the bytes of the segment that writes
LEMMA WriteHere ==
  ASSUME LineAssumption, EndsInv, ShapeInv, StreamsTypeInv, StreamsTypeInv',
         line' = line, buffering' = buffering,
         NEW s \in 1..Sh!nsegs, s \in Sh!Segments, NEW d \in 0..2, Sh!Undisturbed(s),
         NEW w \in [Sh!Segments -> Int], NEW v \in [Sh!Segments -> Int], FlowAt(w, s),
         NEW m \in Int,
         Wrote(s, d, m, w, v)
  PROVE  FlowAt(v, s)'
<1> DEFINE p == proc[<<s, d>>]
           dst == Sh!Dst(<<s, d>>)
           r == proc'[<<s, d>>]
           name == Head(line[s].argv)
<1>1. /\ p.pc = "write" /\ m >= 1 /\ m <= p.buf
      /\ left' = left /\ count' = count
      /\ \A x \in Sh!Segments, c \in -1..2 : <<x, c>> # dst => fill'[<<x, c>>] = fill[<<x, c>>]
      /\ \A x \in Sh!Segments, c \in -1..2 : <<x, c>> = dst => fill'[<<x, c>>] = fill[<<x, c>>] + m
      /\ \A c \in 0..2 : c = d \/ proc'[<<s, c>>] = proc[<<s, c>>]
      /\ r.buf = p.buf - m
      /\ \/ r.pc = "write" /\ m < p.buf
         \/ r.pc = "read" /\ m = p.buf /\ p.prog \in {"cat", "kid"}
         \/ r.pc = "ended" /\ m = p.buf /\ p.prog \notin {"cat", "kid"}
      /\ \A x \in Sh!Segments : x # s => v[x] = w[x]
      /\ v[s] = IF dst \in {Sh!Outside, <<s, -1>>} THEN w[s] + m ELSE w[s]
  BY DEF Wrote
<1>2. /\ p.pc = "write" /\ m >= 1 /\ m <= p.buf /\ r.buf = p.buf - m
      /\ r.pc # "ended" \/ p.prog \notin {"cat", "kid"}
      /\ r.pc = "ended" \/ m < p.buf \/ p.prog \in {"cat", "kid"}
  BY <1>1
<1>3. left' = left /\ count' = count
  BY <1>1
<1>4. \A c \in 0..2 : c = d \/ proc'[<<s, c>>] = proc[<<s, c>>]
  BY <1>1
<1>5. v[s] = IF dst \in {Sh!Outside, <<s, -1>>} THEN w[s] + m ELSE w[s]
  BY <1>1
<1>6. AsMain(s, d) \/ AsKid(s, d)
  BY <1>2, Roles
<1>7. Need(s)' = Need(s)
  BY NeedSame
<1>8. Taken(v, s)' = Taken(w, s)
  <2>1. CASE Inlet(s) = Sh!Outside
    <3>1. left'[s] = left[s]
      BY <1>3
    <3>2. Inlet(s)' = Inlet(s)
      BY LineSame
    <3> QED
      BY <2>1, <3>1, <3>2 DEF Taken
  <2>2. CASE Inlet(s) # Sh!Outside
    <3>1. s - 1 \in Sh!Segments /\ s - 1 # s /\ -1 \in -1..2
      <4>1. s \in Int /\ -1 \in -1..2
        BY Names
      <4> QED
        BY <2>2, <4>1, InletIs
    <3>2. <<s - 1, -1>> # dst
      <4>1. /\ <<s - 1, -1>> # Sh!Outside /\ <<s - 1, -1>> # <<s, -1>>
            /\ \A c \in 0..2 : <<s - 1, -1>> # <<s, c>>
        BY <3>1, Names
      <4> QED
        BY <1>1, <4>1, Targets
    <3>3. fill'[<<s - 1, -1>>] = fill[<<s - 1, -1>>] /\ v[s - 1] = w[s - 1]
      BY <1>1, <3>1, <3>2
    <3> QED
      BY <1>3, <3>3, TakenSame
  <2> QED
    BY <2>1, <2>2
<1>9. \A c \in 0..2 : /\ <<s, c>> # dst => fill'[<<s, c>>] = fill[<<s, c>>]
                      /\ <<s, c>> = dst => fill'[<<s, c>>] = fill[<<s, c>>] + m
                      /\ <<s, c>> # Sh!Outside /\ <<s, c>> # <<s, -1>>
  <2> TAKE c \in 0..2
  <2>1. c \in -1..2 /\ c # -1
    OBVIOUS
  <2>2. <<s, c>> # Sh!Outside /\ <<s, c>> # <<s, -1>>
    BY <2>1, Names
  <2> QED
    BY <1>1, <2>1, <2>2
<1>10. 0 \in 0..2 /\ 1 \in 0..2 /\ 2 \in 0..2 /\ 0 \in 0..1 /\ 1 \in 0..1 /\ w[s] \in Int
  OBVIOUS
<1>11. Outlet(s, 1) = <<s, 0>> /\ Outlet(s, 0) \in {Sh!Outside, <<s, -1>>}
  BY DEF Outlet
\* the child of the cat
<1>12. CASE AsKid(s, d)
  <2>1. PICK c \in 0..1 : c = d - 1
    BY <1>12 DEF AsKid
  <2>2. /\ CatAt(s, c) /\ p.prog = "kid" /\ dst = Outlet(s, c)
        /\ c \in 0..2 /\ c + 1 = d /\ c # d
    <3>1. CatAt(s, c) /\ p.prog = "kid" /\ dst = Outlet(s, c)
      BY <1>2, <1>12, <2>1, TargetOf DEF AsKid
    <3>2. c \in 0..2 /\ c + 1 = d /\ c # d
      BY <2>1
    <3> QED
      BY <3>1, <3>2
  <2>3. c = 0 \/ c = 1
    BY <2>1
  <2>4. CatFlow(v, s, c)'
    <3>1. CatFlow(w, s, c)
      BY <2>2 DEF FlowAt
    <3>2. fill'[<<s, c>>] = fill[<<s, c>>]
      <4>1. CASE c = 0
        <5>1. dst = Sh!Outside \/ dst = <<s, -1>>
          BY <1>11, <2>2, <4>1
        <5>2. <<s, c>> # dst
          BY <1>9, <2>2, <5>1
        <5> QED
          BY <1>9, <2>2, <5>2
      <4>2. CASE c = 1
        <5>1. dst = <<s, 0>> /\ <<s, c>> # <<s, 0>>
          BY <1>11, <2>2, <4>2
        <5> QED
          BY <1>9, <2>2, <5>1
      <4> QED
        BY <2>3, <4>1, <4>2
    <3>3. CameOut(v, s, c)' = CameOut(w, s, c) + m
      <4>1. CASE c = 0
        <5>1. dst \in {Sh!Outside, <<s, -1>>}
          BY <1>11, <2>2, <4>1
        <5>2. v[s] = w[s] + m
          BY <1>5, <5>1
        <5> QED
          BY <4>1, <5>2 DEF CameOut
      <4>2. CASE c = 1
        <5>1. fill'[<<s, 0>>] = fill[<<s, 0>>] + m
          BY <1>9, <1>10, <1>11, <2>2, <4>2
        <5>2. fill[<<s, 0>>] \in Int /\ count[<<s, 0>>] \in Int
          BY <1>10, Numbers
        <5> QED
          BY <1>3, <1>10, <4>2, <5>1, <5>2 DEF CameOut
      <4> QED
        BY <2>3, <4>1, <4>2
    <3>4. /\ proc'[<<s, c>>] = proc[<<s, c>>]
          /\ proc'[<<s, c + 1>>].buf = proc[<<s, c + 1>>].buf - m
          /\ proc'[<<s, c + 1>>].pc # "ended"
      BY <1>2, <1>4, <2>2
    <3>5. /\ proc[<<s, c>>].buf \in Int /\ proc[<<s, c + 1>>].buf \in Int
          /\ fill[<<s, c>>] \in Int /\ CameOut(w, s, c) \in Int
      <4>1. c + 1 \in 0..2
        BY <2>2
      <4> QED
        BY <2>2, <4>1, Numbers
    <3>6. Taken(w, s) = proc[<<s, c>>].buf + fill[<<s, c>>] + proc[<<s, c + 1>>].buf + CameOut(w, s, c)
      BY <3>1 DEF CatFlow
    <3>7. Taken(v, s)' = (proc[<<s, c>>].buf + fill[<<s, c>>] + proc[<<s, c + 1>>].buf
                            + CameOut(v, s, c))'
      BY <1>8, <3>2, <3>3, <3>4, <3>5, <3>6
    <3>8. proc[<<s, c>>].pc = "ended" => Taken(w, s) = Need(s)
      BY <3>1 DEF CatFlow
    <3> QED
      BY <1>7, <1>8, <3>4, <3>7, <3>8 DEF CatFlow
  <2>5. \A e \in 0..1 : CatAt(s, e) => CatFlow(v, s, e)'
    BY <2>2, <2>4, OneCat
  <2>6. /\ c = 0 => name = "cat"
        /\ c = 1 => RunsCommand(s) /\ v[s] = w[s]
    <3>1. c = 1 => v[s] = w[s]
      BY <1>1, <1>9, <1>10, <1>11, <2>2
    <3> QED
      BY <2>2, <3>1, OneCat
  <2>7. proc'[<<s, 0>>] = proc[<<s, 0>>]
    <3>1. 0 # d
      BY <2>1
    <3> QED
      BY <1>1, <1>10, <3>1
  <2>8. name = "counter" /\ (RunsCommand(s) => CatAt(s, 1)) => CounterFlow(v, s)'
    BY <1>1, <1>7, <2>3, <2>6, <2>7, LineSame DEF FlowAt, CounterFlow
  <2>9. name # "cat" =>
          v[s] = IF Speaks(s) /\ proc'[<<s, 0>>].pc = "ended" THEN 1 ELSE 0
    BY <2>3, <2>6, <2>7 DEF FlowAt
  <2> QED
    BY <2>5, <2>8, <2>9, FlowFrom
\* the cat
<1>13. CASE AsMain(s, d) /\ p.prog = "cat"
  <2>1. CatAt(s, d) /\ dst = <<s, d>> /\ d \in 0..1 /\ v[s] = w[s]
    <3>1. CatAt(s, d) /\ dst = <<s, d>> /\ d \in 0..1
      BY <1>1, <1>13, TargetOf
    <3> QED
      BY <1>1, <1>9, <3>1
  <2>2. d + 1 \in 0..2 /\ d + 1 # d /\ (d = 0 \/ d = 1)
    BY <2>1
  <2>3. CatFlow(v, s, d)'
    <3>1. CatFlow(w, s, d)
      BY <2>1 DEF FlowAt
    <3>2. fill'[<<s, d>>] = fill[<<s, d>>] + m
      BY <1>9, <2>1
    <3>3. CameOut(v, s, d)' = CameOut(w, s, d)
      <4>1. d # 0 => fill'[<<s, 0>>] = fill[<<s, 0>>]
        BY <1>9, <1>10, <2>1
      <4> QED
        BY <1>1, <2>1, <4>1 DEF CameOut
    <3>4. /\ proc'[<<s, d + 1>>] = proc[<<s, d + 1>>] /\ p.pc # "ended"
          /\ proc'[<<s, d>>].buf = p.buf - m /\ proc'[<<s, d>>].pc # "ended"
      BY <1>2, <1>4, <1>13, <2>2
    <3>5. /\ p.buf \in Int /\ proc[<<s, d + 1>>].buf \in Int
          /\ fill[<<s, d>>] \in Int /\ CameOut(w, s, d) \in Int
      BY <2>1, <2>2, Numbers
    <3>6. Taken(w, s) = p.buf + fill[<<s, d>>] + proc[<<s, d + 1>>].buf + CameOut(w, s, d)
      BY <3>1 DEF CatFlow
    <3>7. Taken(v, s)' = (proc[<<s, d>>].buf + fill[<<s, d>>] + proc[<<s, d + 1>>].buf
                            + CameOut(v, s, d))'
      BY <1>8, <3>2, <3>3, <3>4, <3>5, <3>6
    <3>8. proc[<<s, d + 1>>].pc = "ended" => p.pc = "ended"
      BY <3>1 DEF CatFlow
    <3> QED
      BY <3>4, <3>7, <3>8 DEF CatFlow
  <2>4. \A e \in 0..1 : CatAt(s, e) => CatFlow(v, s, e)'
    BY <2>1, <2>3, OneCat
  <2>5. /\ d = 0 => name = "cat"
        /\ d = 1 => RunsCommand(s) /\ proc'[<<s, 0>>] = proc[<<s, 0>>]
    <3>1. d = 1 => proc'[<<s, 0>>] = proc[<<s, 0>>]
      BY <1>1, <1>10
    <3> QED
      BY <2>1, <3>1, OneCat
  <2>6. name = "counter" /\ (RunsCommand(s) => CatAt(s, 1)) => CounterFlow(v, s)'
    BY <1>1, <1>7, <2>2, <2>5, LineSame DEF FlowAt, CounterFlow
  <2>7. name # "cat" =>
          v[s] = IF Speaks(s) /\ proc'[<<s, 0>>].pc = "ended" THEN 1 ELSE 0
    BY <2>1, <2>2, <2>5 DEF FlowAt
  <2> QED
    BY <2>4, <2>6, <2>7, FlowFrom
\* a line is printed, by the program of the segment
<1>14. CASE AsMain(s, d) /\ p.prog # "cat" /\ d = 0
  <2>1. /\ name \in {"counter", "pwd"} /\ Speaks(s) /\ dst = Outlet(s, 0) /\ m = 1
        /\ v[s] = w[s] + 1 /\ r.pc = "ended" /\ ~CatAt(s, 0)
    <3>1. /\ name = p.prog /\ name \in {"counter", "pwd"} /\ Speaks(s)
          /\ dst = Outlet(s, 0) /\ p.buf = 1
      BY <1>1, <1>14, TargetOf DEF Words
    <3>2. m = 1
      BY <1>2, <3>1
    <3>3. p.prog \notin {"cat", "kid"}
      BY <3>1
    <3>4. r.pc = "ended"
      <4>1. ~(m < p.buf)
        BY <3>1, <3>2
      <4> QED
        BY <1>2, <3>3, <4>1
    <3> QED
      BY <1>5, <1>11, <3>1, <3>2, <3>4 DEF CatAt, Words
  <2>2. w[s] = 0 /\ proc[<<s, 0>>].pc = "write"
    BY <1>1, <1>14, <2>1 DEF FlowAt
  <2>3. CatAt(s, 1) => CatFlow(v, s, 1)'
    <3>1. 1 # 0 /\ 2 # 0 /\ 1 + 1 = 2
      OBVIOUS
    <3>2. \A c \in 0..2 : fill'[<<s, c>>] = fill[<<s, c>>]
      BY <1>9, <1>11, <2>1
    <3>3. proc'[<<s, 1>>] = proc[<<s, 1>>] /\ proc'[<<s, 2>>] = proc[<<s, 2>>]
      BY <1>1, <1>10, <1>14, <3>1
    <3>4. CameOut(v, s, 1)' = CameOut(w, s, 1)
      BY <1>1, <1>10, <3>2 DEF CameOut
    <3> QED
      BY <1>7, <1>8, <1>10, <3>1, <3>2, <3>3, <3>4 DEF CatFlow, FlowAt
  <2>4. name = "counter" /\ (RunsCommand(s) => CatAt(s, 1)) => CounterFlow(v, s)'
    BY <1>1, <1>7, <1>8, <2>2, LineSame DEF FlowAt, CounterFlow
  <2>5. v[s] = IF Speaks(s) /\ proc'[<<s, 0>>].pc = "ended" THEN 1 ELSE 0
    BY <1>14, <2>1, <2>2
  <2> QED
    BY <1>10, <2>1, <2>3, <2>4, <2>5, FlowFrom
\* or by the command of a counter, which nobody checks
<1>15. CASE AsMain(s, d) /\ p.prog # "cat" /\ d = 1
  <2>1. /\ RunsCommand(s) /\ name = "counter" /\ dst = <<s, 0>>
        /\ \A e \in 0..1 : ~CatAt(s, e)
    <3>1. RunsCommand(s) /\ ~CatAt(s, 0) /\ p.prog = Head(Words(s, 1)) /\ dst = <<s, 0>>
      <4>1. RunsCommand(s)
        BY <1>15 DEF AsMain, Main
      <4>2. p.prog = Head(Words(s, d)) /\ dst = Outlet(s, d)
        BY <1>2, <1>15, TargetOf
      <4>3. ~CatAt(s, 0)
        BY <4>1 DEF CatAt, Words, RunsCommand
      <4> QED
        BY <1>11, <1>15, <4>1, <4>2, <4>3
    <3>2. ~CatAt(s, 1)
      BY <1>15, <3>1 DEF CatAt
    <3> QED
      BY <3>1, <3>2 DEF RunsCommand
  <2>2. proc'[<<s, 0>>] = proc[<<s, 0>>] /\ v[s] = w[s]
    <3>1. 0 # d
      BY <1>15
    <3> QED
      BY <1>1, <1>9, <1>10, <2>1, <3>1
  <2>3. name # "cat" =>
          v[s] = IF Speaks(s) /\ proc'[<<s, 0>>].pc = "ended" THEN 1 ELSE 0
    BY <2>2 DEF FlowAt
  <2>4. 1 \in 0..1
    OBVIOUS
  <2> QED
    BY <2>1, <2>3, <2>4, FlowFrom
<1> QED
  <2>1. AsMain(s, d) => d = 0 \/ d = 1
    BY DEF AsMain
  <2> QED
    BY <1>6, <1>12, <1>13, <1>14, <1>15, <2>1

LEMMA WriteFlow ==
  ASSUME LineAssumption, EndsInv, ShapeInv, FlowInv, line' = line, buffering' = buffering,
         NEW s \in Sh!Segments, NEW d \in 0..2, Sh!Write(<<s, d>>)
  PROVE  FlowInv'
<1> DEFINE p == proc[<<s, d>>]
           dst == Sh!Dst(<<s, d>>)
           r == proc'[<<s, d>>]
<1>1. PICK w \in [Sh!Segments -> Int] :
        \A x \in 1..Sh!nsegs : Sh!Undisturbed(x) => FlowAt(w, x)
  BY DEF FlowInv
<1>2. StreamsTypeInv
  BY DEF FlowInv
<1>3. PICK m \in Int :
        /\ p.pc = "write" /\ m >= 1 /\ m <= p.buf
        /\ StreamsTypeInv' /\ left' = left /\ count' = count
        /\ dst = Sh!Outside => fill' = fill
        /\ dst # Sh!Outside => fill' = [fill EXCEPT ![dst] = fill[dst] + m]
        /\ \A x \in Sh!Segments, c \in 0..2 :
             (x = s /\ c = d) \/ proc'[<<x, c>>] = proc[<<x, c>>]
        /\ r.buf = p.buf - m
        /\ \/ r.pc = "write" /\ m < p.buf
           \/ r.pc = "read" /\ m = p.buf /\ p.prog \in {"cat", "kid"}
           \/ r.pc = "ended" /\ m = p.buf /\ p.prog \notin {"cat", "kid"}
  BY <1>2, Writing
<1>4. dst \in {Sh!Outside, <<s, -1>>} \cup {<<s, c>> : c \in 0..2}
  BY <1>3, Targets
<1>5. s \in 1..Sh!nsegs
  BY <1>3, Born
<1>6. PICK v \in [Sh!Segments -> Int] :
        /\ \A x \in Sh!Segments : x # s => v[x] = w[x]
        /\ v[s] = IF dst \in {Sh!Outside, <<s, -1>>} THEN w[s] + m ELSE w[s]
  <2>1. PICK n \in Int : n = IF dst \in {Sh!Outside, <<s, -1>>} THEN w[s] + m ELSE w[s]
    <3>1. w[s] \in Int /\ w[s] + m \in Int
      OBVIOUS
    <3> QED
      BY <3>1
  <2>2. [w EXCEPT ![s] = n] \in [Sh!Segments -> Int]
    OBVIOUS
  <2> QED
    BY <2>1, <2>2
<1>7. /\ \A x \in Sh!Segments, c \in -1..2 :
           <<x, c>> # dst => fill'[<<x, c>>] = fill[<<x, c>>]
      /\ \A x \in Sh!Segments, c \in -1..2 :
           <<x, c>> = dst => fill'[<<x, c>>] = fill[<<x, c>>] + m
  <2> SUFFICES ASSUME NEW x \in Sh!Segments, NEW c \in -1..2
               PROVE  /\ <<x, c>> # dst => fill'[<<x, c>>] = fill[<<x, c>>]
                      /\ <<x, c>> = dst => fill'[<<x, c>>] = fill[<<x, c>>] + m
    OBVIOUS
  <2>1. <<x, c>> \in Sh!Segments \X (-1..2) /\ <<x, c>> # Sh!Outside
    BY Names
  <2>2. fill \in [Sh!Segments \X (-1..2) -> Int]
    BY <1>2 DEF StreamsTypeInv
  <2>3. <<x, c>> # dst => fill'[<<x, c>>] = fill[<<x, c>>]
    BY <1>3, <2>1, <2>2
  <2>4. <<x, c>> = dst => fill'[<<x, c>>] = fill[<<x, c>>] + m
    BY <1>3, <2>1, <2>2
  <2> QED
    BY <2>3, <2>4
<1>8. ASSUME NEW x \in 1..Sh!nsegs, x # s, Sh!Undisturbed(x), FlowAt(w, x)
      PROVE  FlowAt(v, x)'
  <2>1. x \in Sh!Segments /\ x \in Int /\ s \in Int
    BY LineType, Names DEF EndsInv
  <2>2. left'[x] = left[x] /\ v[x] = w[x] /\ count'[<<x, 0>>] = count[<<x, 0>>]
    BY <1>3, <1>6, <1>8, <2>1
  <2>3. \A c \in 0..2 : fill'[<<x, c>>] = fill[<<x, c>>]
    <3> TAKE c \in 0..2
    <3>1. c \in -1..2 /\ c # -1
      OBVIOUS
    <3>2. /\ <<x, c>> # Sh!Outside /\ <<x, c>> # <<s, -1>>
          /\ \A e \in 0..2 : <<x, c>> # <<s, e>>
      BY <1>8, <2>1, <3>1, Names
    <3>3. <<x, c>> # dst
      BY <1>4, <3>2
    <3> QED
      BY <1>7, <2>1, <3>1, <3>3
  <2>4. Taken(v, x)' = Taken(w, x)
    <3>1. CASE Inlet(x) = Sh!Outside
      <4>1. Inlet(x)' = Inlet(x)
        BY LineSame
      <4> QED
        BY <2>2, <3>1, <4>1 DEF Taken
    <3>2. CASE Inlet(x) # Sh!Outside
      <4>1. /\ x - 1 \in Sh!Segments /\ x - 1 \in Int /\ -1 \in -1..2
            /\ <<x - 1, -1>> # Sh!Outside
        BY <2>1, <3>2, InletIs, Names
      <4>2. CASE x - 1 # s
        <5>1. <<x - 1, -1>> # <<s, -1>> /\ \A c \in 0..2 : <<x - 1, -1>> # <<s, c>>
          BY <4>2
        <5>2. <<x - 1, -1>> # dst
          BY <1>4, <4>1, <5>1
        <5>3. fill'[<<x - 1, -1>>] = fill[<<x - 1, -1>>] /\ v[x - 1] = w[x - 1]
          BY <1>6, <1>7, <4>1, <4>2, <5>2
        <5> QED
          BY <2>2, <5>3, TakenSame
      <4>3. CASE x - 1 = s
        <5>1. Sh!Undisturbed(s)
          <6>1. s <= x /\ \A q \in Sh!Children : q[1] \in Int
            BY <2>1, <4>3, Names DEF Sh!Children, Sh!Segments
          <6> QED
            BY <1>8, <2>1, <6>1 DEF Sh!Undisturbed
        <5>2. dst = Outlet(s, 0) \/ dst \in {<<s, c>> : c \in 0..2}
          <6>1. AsMain(s, d) \/ AsKid(s, d)
            BY <1>3, <1>5, <5>1, Roles
          <6> QED
            BY <1>3, <6>1, TargetOf
        <5>3. Outlet(s, 0) = Sh!Outside \/ Outlet(s, 0) = <<s, -1>>
          BY DEF Outlet
        <5>4. fill[<<s, -1>>] \in Int /\ w[s] \in Int /\ <<s, -1>> # Sh!Outside
          BY <1>2, <4>1, <4>3 DEF StreamsTypeInv
        <5>5. CASE dst = Outlet(s, 0) /\ Outlet(s, 0) = Sh!Outside
          <6>1. fill'[<<s, -1>>] = fill[<<s, -1>>]
            BY <1>7, <4>1, <5>4, <5>5
          <6> QED
            BY <2>2, <4>3, <5>5, <6>1, TakenSame
        <5>6. CASE dst = Outlet(s, 0) /\ Outlet(s, 0) = <<s, -1>>
          <6>1. fill'[<<s, -1>>] = fill[<<s, -1>>] + m /\ v[s] = w[s] + m
            BY <1>6, <1>7, <4>1, <5>6
          <6>2. v[s] - fill'[<<s, -1>>] = w[s] - fill[<<s, -1>>]
            BY <5>4, <6>1
          <6> QED
            BY <2>2, <4>3, <5>4, <5>6, <6>2, TakenSame
        <5>7. CASE dst \in {<<s, c>> : c \in 0..2}
          <6>1. dst # <<s, -1>> /\ dst # Sh!Outside
            <7>1. \A c \in 0..2 : c \in -1..2 /\ <<s, c>> # <<s, -1>>
              OBVIOUS
            <7> QED
              BY <5>7, <7>1, Names
          <6>2. fill'[<<s, -1>>] = fill[<<s, -1>>] /\ v[s] = w[s]
            BY <1>6, <1>7, <4>1, <6>1
          <6> QED
            BY <2>2, <4>3, <6>2, TakenSame
        <5> QED
          BY <5>2, <5>3, <5>5, <5>6, <5>7
      <4> QED
        BY <4>2, <4>3
    <3> QED
      BY <3>1, <3>2
  <2>5. \A c \in 0..1 : fill'[<<x, c>>] = fill[<<x, c>>]
    BY <2>3
  <2>6. \A c \in 0..2 : Still(x, c)
    BY <1>3, <1>8, <2>1 DEF Still
  <2> QED
    BY <1>8, <2>2, <2>4, <2>5, <2>6, FlowSame
<1>9. ASSUME Sh!Undisturbed(s), FlowAt(w, s)
      PROVE  FlowAt(v, s)'
  <2>1. \A c \in 0..2 : c = d \/ proc'[<<s, c>>] = proc[<<s, c>>]
    BY <1>3
  <2>2. Wrote(s, d, m, w, v)
    BY <1>3, <1>6, <1>7, <2>1 DEF Wrote
  <2> QED
    BY <1>2, <1>3, <1>5, <1>9, <2>2, WriteHere
<1>10. \A x \in Sh!Segments, c \in 0..2 :
         proc[<<x, c>>].pc \in {"failed", "killed"} => proc'[<<x, c>>].pc \in {"failed", "killed"}
  BY <1>3
<1>11. \A x \in 1..Sh!nsegs :
         Sh!Undisturbed(x) /\ Sh!Undisturbed(x)' /\ FlowAt(w, x) => FlowAt(v, x)'
  BY <1>8, <1>9
<1> QED
  BY <1>1, <1>3, <1>10, <1>11, FlowCarry

LEMMA NextFlow ==
  ASSUME LineAssumption, EndsInv, ShapeInv, FlowInv, [Sh!Next]_(Sh!vars)
  PROVE  FlowInv'
<1>1. ShapeInv'
  BY NextShape
<1>2. CASE UNCHANGED Sh!vars
  <2>1. line' = line /\ buffering' = buffering /\ proc' = proc /\ UNCHANGED Sh!streams
    BY <1>2 DEF Sh!vars
  <2> QED
    BY <2>1, QuietFlow DEF Still
<1>3. CASE UNCHANGED <<line, buffering>> /\ Sh!run_pipeline
  <2>1. CASE Sh!Fork
    <3>1. UNCHANGED Sh!streams
      BY <2>1 DEF Sh!Fork
    <3>2. \A x \in Sh!Segments, c \in 0..2 :
            \/ proc'[<<x, c>>] = proc[<<x, c>>]
            \/ proc[<<x, c>>].pc = "unborn" /\ proc'[<<x, c>>].pc \in {"born", "kid"}
      <4>1. PICK j \in 1..Sh!nsegs, q \in Process :
              /\ j \in Sh!Segments /\ q.pc = "born"
              /\ \A x \in Sh!Segments : proc[<<x, 0>>].pc # "unborn" <=> x < j
              /\ proc'[<<j, 0>>] = q
              /\ \A x \in Sh!Segments, c \in 0..2 :
                   proc'[<<x, c>>] = proc[<<x, c>>] \/ (x = j /\ c = 0)
        BY <2>1, Forking
      <4>2. proc[<<j, 0>>].pc = "unborn"
        <5>1. ~(j < j)
          OBVIOUS
        <5> QED
          BY <4>1, <5>1
      <4> QED
        BY <4>1, <4>2
    <3> QED
      BY <1>1, <1>3, <3>1, <3>2, BirthFlow
  <2>2. CASE Sh!MakePipes \/ Sh!PipeFails \/ Sh!ForkFails \/ Sh!ClosePipes \/ Sh!Wait
    <3>1. UNCHANGED Sh!streams
      BY <2>2 DEF Sh!MakePipes, Sh!PipeFails, Sh!ForkFails, Sh!ClosePipes, Sh!Wait
    <3>2. \A q \in Processes : q # Sh!Shell => proc'[q] = proc[q]
      BY <2>2, Known DEF Sh!MakePipes, Sh!PipeFails, Sh!ForkFails, Sh!ClosePipes, Sh!Wait, Sh!Goto
    <3>3. \A x \in Sh!Segments, c \in 0..2 : proc'[<<x, c>>] = proc[<<x, c>>]
      BY <3>2, Names
    <3>4. \A x \in 1..Sh!nsegs : \A c \in 0..2 : Still(x, c)
      BY <3>3, LineType DEF EndsInv, Still
    <3> QED
      BY <1>3, <3>1, <3>3, <3>4, QuietFlow
  <2> QED
    BY <1>3, <2>1, <2>2 DEF Sh!run_pipeline
<1>4. CASE UNCHANGED <<line, buffering>> /\ Sh!CtrlC
  <2>1. UNCHANGED Sh!streams
    BY <1>4 DEF Sh!CtrlC
  <2>2. \A x \in 1..Sh!nsegs : Sh!Undisturbed(x) /\ Sh!Undisturbed(x)' =>
          \A c \in 0..2 : Still(x, c)
    BY <1>4, Interrupting DEF Still
  <2>3. \A x \in Sh!Segments, c \in 0..2 :
          proc[<<x, c>>].pc \in {"failed", "killed"} => proc'[<<x, c>>].pc \in {"failed", "killed"}
    BY <1>4, Interrupting
  <2> QED
    BY <1>4, <2>1, <2>2, <2>3, QuietFlow
<1>5. ASSUME NEW p \in Sh!Children, line' = line, buffering' = buffering,
             Sh!segment(p) \/ Sh!IoError(p)
      PROVE  FlowInv'
  <2>1. PICK s \in Sh!Segments, d \in 0..2 : p = <<s, d>>
    BY Names
  <2>2. CASE Sh!Start(<<s, d>>)
    <3>1. UNCHANGED Sh!streams
      BY <2>2 DEF Sh!Start
    <3>2. \A x \in Sh!Segments, c \in 0..2 :
            \/ proc'[<<x, c>>] = proc[<<x, c>>]
            \/ proc[<<x, c>>].pc = "unborn" /\ proc'[<<x, c>>].pc \in {"born", "kid"}
            \/ proc[<<x, c>>].pc = "start" /\ proc'[<<x, c>>].pc = "parent"
      <4>1. PICK e \in Nat, r \in Process, q \in Process : Begun(s, d, e, r, q)
        BY <2>2, Starting
      <4>2. /\ proc[<<s, d>>].pc = "start" /\ r.pc = "parent" /\ q.pc = "kid"
            /\ proc'[<<s, d>>] = r
            /\ e \in 0..2 => proc'[<<s, e>>] = q /\ proc[<<s, e>>].pc = "unborn"
            /\ \A x \in Sh!Segments, c \in 0..2 :
                 \/ proc'[<<x, c>>] = proc[<<x, c>>]
                 \/ x = s /\ c = d
                 \/ x = s /\ c = e
        BY <4>1 DEF Begun
      <4> QED
        BY <4>2
    <3> QED
      BY <1>1, <1>5, <3>1, <3>2, BirthFlow
  <2>3. CASE Sh!Read(<<s, d>>)
    BY <1>5, <2>3, ReadFlow
  <2>4. CASE Sh!ReadEnds(<<s, d>>)
    BY <1>5, <2>4, ReadEndsFlow
  <2>5. CASE Sh!Write(<<s, d>>)
    BY <1>5, <2>5, WriteFlow
  <2>6. CASE \/ Sh!SigDefault(<<s, d>>) \/ Sh!SetupFails(<<s, d>>) \/ Sh!StartFails(<<s, d>>)
             \/ Sh!Reap(<<s, d>>) \/ Sh!SigPipe(<<s, d>>) \/ Sh!IoError(<<s, d>>)
             \/ Sh!Setup(<<s, d>>) \/ Sh!ParentCloses(<<s, d>>) \/ Sh!KidOfCat(<<s, d>>)
             \/ Sh!KidOfCounter(<<s, d>>) \/ Sh!Exec(<<s, d>>)
    BY <1>5, <2>6, QuietSteps
  <2> QED
    BY <1>5, <2>1, <2>2, <2>3, <2>4, <2>5, <2>6 DEF Sh!segment, Sh!Filter
<1> QED
  BY <1>2, <1>3, <1>4, <1>5 DEF Sh!Next

(* A counter that prints has counted what its segment was given            *)
LEMMA Counted ==
  ASSUME LineAssumption, EndsInv, ShapeInv, FlowInv
  PROVE  Sh!CountExact
<1> SUFFICES ASSUME NEW s \in Sh!pids, Sh!Undisturbed(s),
                    line[s].argv \in {<<"counter">>, <<"counter", "cat">>},
                    proc[<<s, 0>>].pc \in {"write", "ended"}
             PROVE  count[<<s, 0>>] = Sh!Input[s]
  BY DEF Sh!CountExact
<1>1. s \in Sh!Segments /\ proc[<<s, 0>>].pc # "unborn" /\ 0 \in 0..2
  BY DEF Sh!pids
<1>2. s \in 1..Sh!nsegs
  BY <1>1, Born
<1>3. PICK w \in [Sh!Segments -> Int] : FlowAt(w, s)
  BY <1>2 DEF FlowInv
<1>4. Head(line[s].argv) = "counter"
  BY DEF RunsCommand
<1>5. (RunsCommand(s) => CatAt(s, 1)) /\ ~FileGiven(s)
  <2>1. CASE line[s].argv = <<"counter">>
    <3>1. ~RunsCommand(s)
      BY <2>1 DEF RunsCommand
    <3>2. ~CatAt(s, 1)
      BY <3>1 DEF CatAt, Main
    <3> QED
      BY <1>4, <3>1, <3>2, NoCat
  <2>2. CASE line[s].argv = <<"counter", "cat">>
    <3>1. RunsCommand(s) /\ Words(s, 1) = <<"cat">>
      BY <2>2 DEF RunsCommand, Words
    <3>2. CatAt(s, 1) /\ 1 \in 0..1
      BY <3>1 DEF CatAt, Main
    <3>3. ~Sh!FileNamed(Words(s, 1))
      <4>1. Len(<<"cat">>) = 1
        OBVIOUS
      <4>2. Len(Words(s, 1)) = 1
        BY <3>1, <4>1, Zenon
      <4>3. ~(1 > 1)
        OBVIOUS
      <4> QED
        BY <4>2, <4>3, Zenon DEF Sh!FileNamed
    <3> QED
      BY <3>2, <3>3, OneCat
  <2> QED
    BY <2>1, <2>2
<1>6. CounterFlow(w, s)
  BY <1>3, <1>4, <1>5 DEF FlowAt
<1> QED
  BY <1>5, <1>6 DEF CounterFlow, Need

(* While nobody up to a segment fails, the bytes it has got are those that *)
(* came out of the one before: the invariant that CountExact rests on      *)
THEOREM CountsInductive ==
  ASSUME Sh!PipesAssumption, Sh!FiltersAssumption, Sh!ShellAssumption
  PROVE  Sh!Spec => [](EndsInv /\ ShapeInv /\ FlowInv)
<1>1. LineAssumption
  BY DEF LineAssumption
<1>2. Sh!Init => EndsInv /\ ShapeInv /\ FlowInv
  BY <1>1, InitEndsInv, InitShape, InitFlow
<1>3. EndsInv /\ ShapeInv /\ FlowInv /\ [Sh!Next]_(Sh!vars)
        => (EndsInv /\ ShapeInv /\ FlowInv)'
  BY <1>1, NextEnds, NextShape, NextFlow
<1> QED
  BY <1>2, <1>3, PTL DEF Sh!Spec

(* A counter that prints has counted all the bytes its segment was given,  *)
(* unless a process before it failed or was killed: lesson4_counter.c in   *)
(* every line, behind every cat, for pipes and files of every size         *)
THEOREM CountsExact ==
  ASSUME Sh!PipesAssumption, Sh!FiltersAssumption, Sh!ShellAssumption
  PROVE  Sh!Spec => []Sh!CountExact
<1>1. LineAssumption
  BY DEF LineAssumption
<1>2. EndsInv /\ ShapeInv /\ FlowInv => Sh!CountExact
  BY <1>1, Counted
<1>3. Sh!Spec => [](EndsInv /\ ShapeInv /\ FlowInv)
  BY CountsInductive
<1> QED
  BY <1>2, <1>3, PTL
===============================================================================
