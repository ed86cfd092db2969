---------------------------- MODULE SingleProofs ----------------------------
(***************************************************************************)
(* Proofs about Single, for any number of processes, any of them in a pipe *)
(* and any length of the message.  Only Survives needs that no process     *)
(* writes to a pipe: then none dies between its two critical sections.     *)
(***************************************************************************)
EXTENDS Single, FiniteSetTheorems, TLAPS

\* the labels where a process holds the semaphore
Critical == {"register", "unregister"}

MutexInv ==
  /\ \A p \in Procs : pc[p] \in Critical => sem = 0
  /\ \A p, q \in Procs : pc[p] \in Critical /\ pc[q] \in Critical => p = q
  /\ (\A p \in Procs : pc[p] \notin Critical) => sem = 1

PrintLabels == {"write", "written", "pause", "newline", "cleanup", "unregister"}

\* g_registered says whether the process has counted itself
RegisteredInv ==
  \A p \in Procs :
    /\ pc[p] \in PrintLabels => registered[p]
    /\ pc[p] \in {"start", "wait", "register"} => ~registered[p]

IInv == TypeOK /\ MutexInv /\ RegisteredInv /\ ActiveExact /\ HelloExclusive

Counted == Printing \cup Lost

-----------------------------------------------------------------------------
LEMMA Finite ==
  IsFiniteSet(Counted) /\ Cardinality(Counted) \in Nat
<1>1. Counted \subseteq Procs
  BY DEF Counted, Printing, Lost, At
<1> QED
  BY <1>1, SingleAssumption, FS_Subset, FS_CardinalityType

LEMMA InitIInv == Init => IInv
<1> SUFFICES ASSUME Init PROVE IInv
  OBVIOUS
<1>1. Printing = {} /\ Lost = {}
  BY DEF Init, Printing, Lost, At
<1>2. ActiveExact /\ HelloExclusive /\ RegisteredInv
  BY <1>1, FS_EmptySet DEF Init, ActiveExact, HelloExclusive, RegisteredInv, PrintLabels
<1>3. TypeOK
  <2>1. pc \in [Procs -> Labels] /\ i \in [Procs -> 0..Len-1]
    BY SingleAssumption DEF Init, Labels
  <2>2. registered \in [Procs -> BOOLEAN] /\ stop_flag \in [Procs -> BOOLEAN]
    BY DEF Init
  <2>3. msg \in [Procs -> {"none", "Hello", "Goodbye"}]
    BY DEF Init
  <2> QED
    BY <2>1, <2>2, <2>3 DEF Init, TypeOK
<1> QED
  BY <1>2, <1>3 DEF IInv, Init, MutexInv, Critical

\* how the semaphore may change with a step between two labels
SemStep(from, to) ==
  \/ from \notin Critical /\ to \in Critical /\ sem > 0 /\ sem' = sem - 1
  \/ from \in Critical /\ to \notin Critical /\ sem' = sem + 1
  \/ from \notin Critical /\ to \notin Critical /\ sem' = sem

LEMMA MutexMove ==
  ASSUME TypeOK, MutexInv, NEW p \in Procs, NEW from, NEW to, Goto(p, from, to),
         SemStep(from, to)
  PROVE  sem' \in 0..1 /\ MutexInv'
<1>1. /\ pc[p] = from /\ pc'[p] = to
      /\ \A q \in Procs : q # p => pc'[q] = pc[q]
  BY DEF Goto, TypeOK
<1>2. sem \in {0, 1}
  BY DEF TypeOK
<1> QED
  BY <1>1, <1>2 DEF MutexInv, SemStep

(* A step that leaves the processes counted as they are: it stays on its  *)
(* side of the two critical sections, or kills the process.                *)
LEMMA QuietStep ==
  ASSUME IInv, NEW p \in Procs, NEW from, NEW to \in Labels, Goto(p, from, to),
         SemStep(from, to),
         \/ from \in PrintLabels /\ to \in PrintLabels \cup {"killed"}
         \/ from \in {"start", "wait"} /\ to \in {"wait", "register", "killed"},
         UNCHANGED <<active, registered, msg>>,
         stop_flag' \in [Procs -> BOOLEAN], reader' \subseteq Piped,
         i' \in [Procs -> 0..Len-1]
  PROVE  IInv'
<1>1. TypeOK /\ MutexInv /\ RegisteredInv /\ ActiveExact /\ HelloExclusive
  BY DEF IInv
<1>2. sem' \in 0..1 /\ MutexInv'
  BY <1>1, MutexMove
<1>3. TypeOK'
  BY <1>1, <1>2 DEF TypeOK, Goto
<1>4. /\ pc[p] = from /\ pc'[p] = to
      /\ \A q \in Procs : q # p => pc'[q] = pc[q]
  BY <1>1 DEF TypeOK, Goto
<1>5. RegisteredInv'
  BY <1>1, <1>4 DEF RegisteredInv, PrintLabels
<1>6. Counted' = Counted /\ Printing' \subseteq Printing
  BY <1>1, <1>4 DEF RegisteredInv, PrintLabels, Counted, Printing, Lost, At
<1>7. ActiveExact' /\ HelloExclusive'
  BY <1>1, <1>6 DEF ActiveExact, Counted, HelloExclusive
<1> QED
  BY <1>2, <1>3, <1>5, <1>7 DEF IInv

LEMMA RegisterIInv ==
  ASSUME IInv, NEW p \in Procs, Register(p)
  PROVE  IInv'
<1>1. /\ TypeOK /\ MutexInv /\ RegisteredInv /\ ActiveExact /\ HelloExclusive
      /\ Goto(p, "register", "write")
  BY DEF IInv, Register
<1>2. sem' \in 0..1 /\ MutexInv'
  BY <1>1, MutexMove DEF Register, SemStep, Critical
<1>3. TypeOK'
  <2>1. registered' \in [Procs -> BOOLEAN]
    BY <1>1 DEF Register, TypeOK
  <2>2. msg' \in [Procs -> {"none", "Hello", "Goodbye"}]
    BY <1>1 DEF Register, TypeOK, Greeting
  <2> QED
    BY <1>1, <1>2, <2>1, <2>2 DEF TypeOK, Register, Goto, Labels
<1>4. /\ pc[p] = "register" /\ pc'[p] = "write"
      /\ \A q \in Procs : q # p => pc'[q] = pc[q]
  BY <1>1 DEF TypeOK, Goto
<1>5. registered'[p] /\ \A q \in Procs : q # p => registered'[q] = registered[q]
  BY <1>1 DEF TypeOK, Register
<1>6. RegisteredInv'
  BY <1>1, <1>4, <1>5 DEF RegisteredInv, PrintLabels
<1>7. /\ Printing' = Printing \cup {p}
      /\ Counted' = Counted \cup {p}
      /\ p \notin Counted
  BY <1>4, <1>5 DEF Counted, Printing, Lost, At
<1>8. ActiveExact'
  <2>1. Cardinality(Counted') = Cardinality(Counted) + 1
    BY <1>7, Finite, FS_AddElement
  <2> QED
    BY <1>1, <2>1 DEF ActiveExact, Counted, Register
<1>9. HelloExclusive'
  <2>1. CASE active = 0
    <3>1. Printing = {}
      BY <1>1, <2>1, Finite, FS_EmptySet DEF ActiveExact, Counted
    <3> QED
      BY <1>7, <3>1 DEF HelloExclusive
  <2>2. CASE active # 0
    <3>1. msg'[p] = "Goodbye" /\ \A q \in Procs : q # p => msg'[q] = msg[q]
      BY <1>1, <2>2 DEF Register, Greeting, TypeOK
    <3>2. Printing \subseteq Procs
      BY DEF Printing, At
    <3> QED
      BY <1>1, <1>7, <3>1, <3>2 DEF HelloExclusive
  <2> QED
    BY <2>1, <2>2
<1> QED
  BY <1>2, <1>3, <1>6, <1>8, <1>9 DEF IInv

LEMMA UnregisterIInv ==
  ASSUME IInv, NEW p \in Procs, Unregister(p)
  PROVE  IInv'
<1>1. /\ TypeOK /\ MutexInv /\ RegisteredInv /\ ActiveExact /\ HelloExclusive
      /\ Goto(p, "unregister", "closed")
  BY DEF IInv, Unregister
<1>2. sem' \in 0..1 /\ MutexInv'
  BY <1>1, MutexMove DEF Unregister, SemStep, Critical
<1>3. /\ pc[p] = "unregister" /\ pc'[p] = "closed"
      /\ \A q \in Procs : q # p => pc'[q] = pc[q]
  BY <1>1 DEF TypeOK, Goto
<1>4. /\ Printing' \subseteq Printing
      /\ Counted' = Counted \ {p}
      /\ p \in Counted
  BY <1>3 DEF Counted, Printing, Lost, At, Unregister, locals
<1>5. Cardinality(Counted') = Cardinality(Counted) - 1
  BY <1>4, Finite, FS_RemoveElement
<1>6. active > 0
  BY <1>1, <1>4, Finite, FS_EmptySet DEF ActiveExact, Counted, TypeOK
<1>7. TypeOK'
  BY <1>1, <1>2, <1>6 DEF TypeOK, Unregister, Goto, Labels, locals
<1>8. RegisteredInv'
  BY <1>1, <1>3 DEF RegisteredInv, PrintLabels, Unregister, locals
<1>9. ActiveExact'
  BY <1>1, <1>5, <1>6 DEF ActiveExact, Counted, Unregister
<1>10. HelloExclusive'
  BY <1>1, <1>4 DEF HelloExclusive, Unregister, locals
<1> QED
  BY <1>2, <1>7, <1>8, <1>9, <1>10 DEF IInv

\* a step that moves no process and changes no shared variable
LEMMA StandStill ==
  ASSUME IInv, UNCHANGED <<pc, sem, active, registered, msg, i>>,
         stop_flag' \in [Procs -> BOOLEAN], reader' \subseteq Piped
  PROVE  IInv'
<1>1. TypeOK'
  BY DEF IInv, TypeOK
<1>2. MutexInv' /\ RegisteredInv' /\ HelloExclusive'
  BY DEF IInv, MutexInv, RegisteredInv, HelloExclusive, Printing, At
<1>3. ActiveExact'
  BY DEF IInv, ActiveExact, Printing, Lost, At
<1> QED
  BY <1>1, <1>2, <1>3 DEF IInv

(* Ctrl-C moves a process only before it has the handler.                  *)
LEMMA CtrlCIInv ==
  ASSUME IInv, NEW p \in Procs, CtrlC(p)
  PROVE  IInv'
<1>1. TypeOK
  BY DEF IInv
<1>2. CASE Goto(p, "start", "killed") /\ UNCHANGED stop_flag
  BY <1>1, <1>2, QuietStep
     DEF CtrlC, SemStep, Critical, PrintLabels, Labels, locals, TypeOK
<1>3. CASE UNCHANGED pc /\ stop_flag' = [stop_flag EXCEPT ![p] = TRUE]
  <2>1. stop_flag' \in [Procs -> BOOLEAN]
    BY <1>1, <1>3 DEF TypeOK
  <2> QED
    BY <1>1, <1>3, <2>1, StandStill DEF CtrlC, TypeOK, locals
<1> QED
  BY <1>2, <1>3 DEF CtrlC

LEMMA NextIInv == IInv /\ [Next]_vars => IInv'
<1> SUFFICES ASSUME IInv, [Next]_vars PROVE IInv'
  OBVIOUS
<1>1. TypeOK
  BY DEF IInv
<1>2. ASSUME NEW p \in Procs, Main(p)
      PROVE  IInv'
  <2>1. CASE Open(p)
    BY <1>1, <2>1, QuietStep
       DEF Open, SemStep, Critical, PrintLabels, Labels, locals, TypeOK
  <2>2. CASE SemWait(p, "wait", "register")
    BY <1>1, <2>2, QuietStep
       DEF SemWait, SemStep, Critical, PrintLabels, Labels, locals, TypeOK
  <2>3. CASE Register(p)
    BY <2>3, RegisterIInv
  <2>4. CASE SigPipe(p)
    <3>1. PICK from \in {"write", "newline"} : Goto(p, from, "killed")
      BY <2>4 DEF SigPipe
    <3> QED
      BY <1>1, <2>4, <3>1, QuietStep
         DEF SigPipe, SemStep, Critical, PrintLabels, Labels, locals, TypeOK
  <2>5. CASE Write(p)
    BY <1>1, <2>5, QuietStep
       DEF Write, SemStep, Critical, PrintLabels, Labels, locals, TypeOK
  <2>6. CASE WriteError(p)
    BY <1>1, <2>6, QuietStep
       DEF WriteError, SemStep, Critical, PrintLabels, Labels, locals, TypeOK
  <2>7. CASE AfterWrite(p)
    BY <1>1, <2>7, QuietStep
       DEF AfterWrite, SemStep, Critical, PrintLabels, Labels, locals, TypeOK
  <2>8. CASE AfterPause(p)
    <3>1. PICK to \in {"write", "newline"} : Goto(p, "pause", to)
      BY <2>8 DEF AfterPause
    <3>2. i' \in [Procs -> 0..Len-1]
      BY <1>1, <2>8, SingleAssumption DEF AfterPause, TypeOK
    <3> QED
      BY <1>1, <2>8, <3>1, <3>2, QuietStep
         DEF AfterPause, SemStep, Critical, PrintLabels, Labels, TypeOK
  <2>9. CASE Newline(p)
    BY <1>1, <2>9, QuietStep
       DEF Newline, SemStep, Critical, PrintLabels, Labels, locals, TypeOK
  <2>10. CASE registered[p] /\ SemWait(p, "cleanup", "unregister")
    BY <1>1, <2>10, QuietStep
       DEF SemWait, SemStep, Critical, PrintLabels, Labels, locals, TypeOK
  <2>11. CASE Unregister(p)
    BY <2>11, UnregisterIInv
  <2> QED
    BY <1>2, <2>1, <2>2, <2>3, <2>4, <2>5, <2>6, <2>7, <2>8, <2>9, <2>10, <2>11 DEF Main
<1>3. ASSUME NEW p \in Procs, CtrlC(p)
      PROVE  IInv'
  BY <1>3, CtrlCIInv
<1>4. ASSUME NEW p \in Procs, ReaderDies(p)
      PROVE  IInv'
  BY <1>1, <1>4, StandStill DEF ReaderDies, TypeOK, locals
<1>5. CASE UNCHANGED vars
  BY <1>1, <1>5, StandStill DEF TypeOK, vars, locals
<1> QED
  BY <1>2, <1>3, <1>4, <1>5 DEF Next, Terminating
-----------------------------------------------------------------------------
(* active, the semaphore and g_registered agree with the places of the      *)
(* processes in main, whatever Ctrl-C and a broken pipe interrupt.         *)
THEOREM Inductive == Spec => []IInv
  BY InitIInv, NextIInv, PTL DEF Spec

(* active counts the printing processes, whatever Ctrl-C interrupts, and   *)
(* the ones a broken pipe has killed.                                      *)
THEOREM Exact == Spec => []ActiveExact
<1>1. IInv => ActiveExact
  BY DEF IInv
<1> QED
  BY <1>1, Inductive, PTL

(* Two processes that print never both say Hello.                          *)
THEOREM OneHello == Spec => []HelloExclusive
<1>1. IInv => HelloExclusive
  BY DEF IInv
<1> QED
  BY <1>1, Inductive, PTL

(* When all processes have ended the shared state is as good as new, if    *)
(* none of them could be killed by a broken pipe.                          *)
THEOREM Survives ==
  ASSUME Piped = {}
  PROVE  Spec => []StateSurvives
<1> DEFINE Unhurt == Lost = {}
<1>1. Init => Unhurt
  BY DEF Init, Lost, At
<1>2. IInv /\ Unhurt /\ [Next]_vars => Unhurt'
  <2> SUFFICES ASSUME IInv, Unhurt, [Next]_vars, NEW p \in Procs,
                      pc'[p] = "killed", registered'[p]
               PROVE  FALSE
    BY DEF Lost, At
  <2>1. TypeOK /\ RegisteredInv /\ ~Broken(p) /\ ~(pc[p] = "killed" /\ registered[p])
    BY DEF IInv, TypeOK, Broken, Lost, At
  <2>2. ASSUME NEW q \in Procs, Main(q)
        PROVE  FALSE
    BY <2>1, <2>2 DEF Main, Open, SemWait, Register, SigPipe, Write, WriteError, AfterWrite,
       AfterPause, Newline, Unregister, Goto, Broken, TypeOK, RegisteredInv, locals
  <2>3. ASSUME NEW q \in Procs, CtrlC(q) \/ ReaderDies(q)
        PROVE  FALSE
    BY <2>1, <2>3 DEF CtrlC, ReaderDies, Goto, TypeOK, RegisteredInv, locals
  <2>4. CASE UNCHANGED vars
    BY <2>1, <2>4 DEF vars, locals
  <2> QED
    BY <2>2, <2>3, <2>4 DEF Next, Terminating
<1>3. IInv /\ Unhurt => StateSurvives
  <2> SUFFICES ASSUME IInv, Unhurt, AllEnded PROVE active = 0 /\ sem = 1
    BY DEF StateSurvives
  <2>1. Printing = {}
    BY DEF AllEnded, Ended, Printing, At
  <2>2. active = 0
    BY <2>1, FS_EmptySet DEF IInv, ActiveExact
  <2>3. sem = 1
    BY DEF IInv, MutexInv, AllEnded, Ended, Critical
  <2> QED
    BY <2>2, <2>3
<1> QED
  BY <1>1, <1>2, <1>3, Inductive, PTL DEF Spec

(* The semaphore stays binary and active never goes below 0.               *)
THEOREM TypeCorrect == Spec => []TypeOK
<1>1. IInv => TypeOK
  BY DEF IInv
<1> QED
  BY <1>1, Inductive, PTL

(* A process says Hello exactly when nobody is counted.                    *)
THEOREM RightGreeting == Spec => GreetingRight
<1>1. IInv /\ [Next]_vars =>
        [\A p \in Procs : pc[p] = "register" /\ pc'[p] = "write" =>
           (msg'[p] = "Hello" <=> Printing \cup Lost = {})]_vars
  <2> SUFFICES ASSUME IInv, [Next]_vars, NEW p \in Procs,
                      pc[p] = "register", pc'[p] = "write"
               PROVE  msg'[p] = "Hello" <=> Counted = {}
    BY DEF Counted
  <2>1. TypeOK /\ ActiveExact
    BY DEF IInv
  <2>2. Register(p)
    BY <2>1 DEF Next, Main, Open, SemWait, SigPipe, Write, WriteError, AfterWrite,
       AfterPause, Newline, Register, Unregister, CtrlC, ReaderDies, Terminating, Goto,
       vars, TypeOK
  <2>3. msg'[p] = Greeting
    BY <2>1, <2>2 DEF Register, TypeOK
  <2>4. active = 0 <=> Counted = {}
    BY <2>1, Finite, FS_EmptySet DEF ActiveExact, Counted
  <2> QED
    BY <2>3, <2>4 DEF Greeting
<1> QED
  BY <1>1, Inductive, PTL DEF Spec, GreetingRight
=============================================================================
