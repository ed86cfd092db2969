-------------------------------- MODULE Pcat --------------------------------
(***************************************************************************)
(* Lesson_8/lesson8_pcat2.c: cat with two threads.  The writer reads the   *)
(* files and puts chunks into the one buffer of a monitor; the reader      *)
(* takes them out and writes them to stdout.  An error of either stops     *)
(* both.                                                                   *)
(*                                                                         *)
(* What a thread does with mtx held is one step, split where               *)
(* pthread_cond_wait gives mtx up; a woken thread tests again.  Every      *)
(* read and write is a step that may be short or fail.  EINTR is left out: *)
(* read_retry and write_all do the call again.                             *)
(***************************************************************************)
EXTENDS Integers, Sequences

CONSTANTS
  Inputs,    \* the command lines that may be given
  BUFSZ

\* stdin: argc = 1, and the only file is stdin, which is not opened;
\* ends: where each file ends, in the order of argv, in bytes of the input
ASSUME PcatAssumption ==
  /\ \A input \in Inputs :
       /\ input.stdin \in BOOLEAN /\ input.ends \in Seq(Nat)
       /\ \A f, g \in DOMAIN input.ends : f <= g => input.ends[f] <= input.ends[g]
       /\ IF input.stdin THEN Len(input.ends) = 1 ELSE input.ends # <<>>
  /\ BUFSZ \in Nat \ {0}

\* a chunk is the interval of the input it holds
NoChunk == <<1, 0>>
Bytes(chunk) == [i \in 1..chunk[2] - chunk[1] + 1 |-> chunk[1] + i - 1]

VARIABLES
  input,             \* the command line
  writer, reader,    \* where the two threads are
  i,                 \* the file the writer is at
  taken,             \* bytes of the input it has read
  tmp, buf, local,   \* the chunk in each buffer
  full, done, stop,
  err,               \* err_ctx: 0, a file, or Stdout
  rc,                \* "running", or what main returns
  out                \* stdout

FromStdin == input.stdin
Files == Len(input.ends)
Stdout == Files + 1

\* where a read of file f finds nothing more
EndOf(f) == input.ends[f]
Size == EndOf(Files)

monitor == <<buf, full, done, stop, err>>
vars == <<input, writer, reader, i, taken, tmp, local, monitor, rc, out>>

\* mon_fail_locked; it wakes both threads
Fail(context) ==
  /\ stop' = TRUE
  /\ err' = IF stop THEN err ELSE context

\* the label of a thread that a signal or a broadcast may have woken
Woken(thread) == IF thread = "wait" THEN "enter" ELSE thread

Init ==
  /\ input \in Inputs
  /\ writer = IF FromStdin THEN "read" ELSE "open"
  /\ reader = "enter"
  /\ i = 1
  /\ taken = 0
  /\ tmp = NoChunk /\ buf = NoChunk /\ local = NoChunk
  /\ full = FALSE /\ done = FALSE /\ stop = FALSE
  /\ err = 0
  /\ rc = "running"
  /\ out = <<>>

-----------------------------------------------------------------------------
(***************************************************************************)
(* writer_thread                                                           *)
(***************************************************************************)

OpenFile ==
  /\ writer = "open"
  /\ writer' = "read"
  /\ UNCHANGED <<reader, i, taken, tmp, local, monitor, rc, out>>

OpenError ==
  /\ writer = "open"
  /\ writer' = "finish"
  /\ reader' = Woken(reader)
  /\ Fail(i)
  /\ UNCHANGED <<i, taken, tmp, local, buf, full, done, rc, out>>

\* read_retry: any number of the bytes that are left of the file
ReadFile ==
  /\ writer = "read"
  /\ \E m \in 1..BUFSZ :
       /\ taken + m <= EndOf(i)
       /\ tmp' = <<taken + 1, taken + m>>
       /\ taken' = taken + m
  /\ writer' = "enter"
  /\ UNCHANGED <<reader, i, local, monitor, rc, out>>

\* EOF: close, unless the file is stdin
EndOfFile ==
  /\ writer = "read"
  /\ taken = EndOf(i)
  /\ writer' = IF FromStdin THEN "finish" ELSE "next"
  /\ UNCHANGED <<reader, i, taken, tmp, local, monitor, rc, out>>

ReadError ==
  /\ writer = "read"
  /\ Fail(i)
  /\ writer' = IF FromStdin THEN "finish" ELSE "next"
  /\ reader' = Woken(reader)
  /\ UNCHANGED <<i, taken, tmp, local, buf, full, done, rc, out>>

\* the wait loop of copy_fd_to_monitor, the return on stop, and the put
Put ==
  /\ writer = "enter"
  /\ UNCHANGED <<i, taken, tmp, local, done, stop, err, rc, out>>
  /\ \/ /\ full /\ ~stop
        /\ writer' = "wait"
        /\ UNCHANGED <<reader, buf, full>>
     \/ /\ stop
        /\ writer' = IF FromStdin THEN "finish" ELSE "next"
        /\ UNCHANGED <<reader, buf, full>>
     \/ /\ ~full /\ ~stop
        /\ buf' = tmp
        /\ full' = TRUE
        /\ reader' = Woken(reader)
        /\ writer' = "read"

\* the test of stop after every file
NextFile ==
  /\ writer = "next"
  /\ i' = i + 1
  /\ writer' = IF stop \/ i = Files THEN "finish" ELSE "open"
  /\ UNCHANGED <<reader, taken, tmp, local, monitor, rc, out>>

\* mutated Finish: nobody tells the reader
FinishSilently ==
  /\ writer = "finish"
  /\ done' = TRUE
  /\ writer' = "exited"
  /\ UNCHANGED <<reader, i, taken, tmp, local, buf, full, stop, err, rc, out>>

Finish ==
  /\ writer = "finish"
  /\ done' = TRUE
  /\ writer' = "exited"
  /\ reader' = Woken(reader)
  /\ UNCHANGED <<i, taken, tmp, local, buf, full, stop, err, rc, out>>

Writer ==
  /\ \/ OpenFile \/ OpenError
     \/ ReadFile \/ EndOfFile \/ ReadError
     \/ Put
     \/ NextFile \/ Finish
  /\ UNCHANGED input

-----------------------------------------------------------------------------
(***************************************************************************)
(* reader_thread                                                           *)
(***************************************************************************)

\* mutated Get: done is tested before the buffer is
GetDoneFirst ==
  /\ reader = "enter"
  /\ UNCHANGED <<i, taken, tmp, buf, done, stop, err, rc, out>>
  /\ \/ /\ ~full /\ ~done /\ ~stop
        /\ reader' = "wait"
        /\ UNCHANGED <<writer, local, full>>
     \/ /\ stop \/ done
        /\ reader' = "exited"
        /\ UNCHANGED <<writer, local, full>>
     \/ /\ full /\ ~stop /\ ~done
        /\ local' = buf
        /\ full' = FALSE
        /\ writer' = Woken(writer)
        /\ reader' = "write"

\* the wait loop of reader_thread, its two returns, and the get
Get ==
  /\ reader = "enter"
  /\ UNCHANGED <<i, taken, tmp, buf, done, stop, err, rc, out>>
  /\ \/ /\ ~full /\ ~done /\ ~stop
        /\ reader' = "wait"
        /\ UNCHANGED <<writer, local, full>>
     \/ /\ stop \/ (~full /\ done)
        /\ reader' = "exited"
        /\ UNCHANGED <<writer, local, full>>
     \/ /\ full /\ ~stop
        /\ local' = buf
        /\ full' = FALSE
        /\ writer' = Woken(writer)
        /\ reader' = "write"

\* mutated WriteOut: a short write is taken for the whole
WriteOnce ==
  /\ reader = "write"
  /\ \E m \in 1..Len(Bytes(local)) :
       /\ out' = out \o SubSeq(Bytes(local), 1, m)
       /\ local' = NoChunk
  /\ reader' = "enter"
  /\ UNCHANGED <<writer, i, taken, tmp, monitor, rc>>

\* write_all: some bytes are written, and the loop goes on with the others
WriteOut ==
  /\ reader = "write"
  /\ \E m \in 1..Len(Bytes(local)) :
       /\ out' = out \o SubSeq(Bytes(local), 1, m)
       /\ local' = <<local[1] + m, local[2]>>
       /\ reader' = IF m = Len(Bytes(local)) THEN "enter" ELSE "write"
  /\ UNCHANGED <<writer, i, taken, tmp, monitor, rc>>

WriteError ==
  /\ reader = "write"
  /\ Fail(Stdout)
  /\ reader' = "exited"
  /\ writer' = Woken(writer)
  /\ UNCHANGED <<i, taken, tmp, local, buf, full, done, rc, out>>

Reader == (Get \/ WriteOut \/ WriteError) /\ UNCHANGED input

-----------------------------------------------------------------------------
\* pthread_cond_wait may return without a signal
Spurious ==
  /\ \/ writer = "wait" /\ writer' = "enter" /\ UNCHANGED reader
     \/ reader = "wait" /\ reader' = "enter" /\ UNCHANGED writer
  /\ UNCHANGED <<input, i, taken, tmp, local, monitor, rc, out>>

\* main, after the joins
Report ==
  /\ writer = "exited" /\ reader = "exited" /\ rc = "running"
  /\ rc' = IF stop THEN "failed" ELSE "complete"
  /\ UNCHANGED <<input, writer, reader, i, taken, tmp, local, monitor, out>>

Terminating == rc # "running" /\ UNCHANGED vars

Next == Writer \/ Reader \/ Spurious \/ Report \/ Terminating

Spec == Init /\ [][Next]_vars

(***************************************************************************)
(* Both threads run, the files end and the calls on them return.           *)
(***************************************************************************)
FairSpec == Spec /\ WF_vars(Writer) /\ WF_vars(Reader) /\ WF_vars(Report)

-----------------------------------------------------------------------------
(***************************************************************************)
(* Properties                                                              *)
(***************************************************************************)

(* The bytes taken from the input and not written are, in order, the rest   *)
(* of local, the buffer and tmp, each in one place only; a stop may drop    *)
(* them but not reorder them.                                               *)
InFlight ==
  LET Rest == IF reader = "write" THEN Bytes(local) ELSE <<>>
      Slot == IF full THEN Bytes(buf) ELSE <<>>
      Hand == IF writer \in {"enter", "wait"} THEN Bytes(tmp) ELSE <<>> IN
  ~stop => out \o Rest \o Slot \o Hand = [j \in 1..taken |-> j]

Cat == INSTANCE Copying WITH size <- Size, result <- rc

(* Whatever the errors and the interleaving, stdout is a prefix of the      *)
(* files' bytes, and an exit status of 0 means all of them.                 *)
ImplementsCopying == Cat!Spec

(* An error, a full buffer or an empty one never keeps the program from     *)
(* ending.                                                                  *)
Ends == <>(rc # "running")
=============================================================================
