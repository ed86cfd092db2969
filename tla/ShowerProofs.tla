---------------------------- MODULE ShowerProofs ----------------------------
(***************************************************************************)
(* Proofs about Shower, for any number of clients, any capacity and any    *)
(* streak limit, and whichever clients are killed at whatever moment.  The *)
(* counters of state_t and SEM_CAP are shown to count the clients at       *)
(* certain labels; capacity and the single gender follow.  What holds      *)
(* while nobody is killed comes last: nobody is kept out by an empty room, *)
(* and a waiting gender is overtaken a bounded number of times.            *)
(***************************************************************************)
EXTENDS Shower, FiniteSetTheorems, TLAPS

MutexInv ==
  /\ \A c \in Clients : pc[c] \in Critical => mutex = 0
  /\ \A c, d \in Clients : pc[c] \in Critical /\ pc[d] \in Critical => c = d

GenderInv ==
  \A c \in Clients : pc[c] \in {"shower", "leave"} => current_gender = Gender(c)

\* the labels that in and wait + queue count
CountedLabels == {"shower", "leave", "ghost_inside", "ghost_entering"}
SleepLabels == {"queue", "ghost_waiting"}
LeftLabels == {"switch", "done", "ghost_inside", "killed_leaving", "torn"}

IInv == TypeOK /\ MutexInv /\ GenderInv /\ CountersExact

-----------------------------------------------------------------------------
(* Who is at a label is a finite set of processes.                         *)
LEMMA AtFinite ==
  ASSUME NEW D, IsFiniteSet(D), NEW at, NEW L
  PROVE  IsFiniteSet(At(at, D, L)) /\ Cardinality(At(at, D, L)) \in Nat
<1>1. At(at, D, L) \subseteq D
  BY DEF At
<1> QED
  BY <1>1, FS_Subset, FS_CardinalityType

(* When one process moves from one label to another, the number of         *)
(* processes of D at the labels L changes by what it crosses.              *)
LEMMA AtMove ==
  ASSUME NEW D, IsFiniteSet(D), NEW L, NEW P, NEW Q, D \subseteq P,
         NEW at \in [P -> Q], NEW p \in P, NEW to,
         NEW at2, at2 = [at EXCEPT ![p] = to]
  PROVE  Cardinality(At(at2, D, L))
           = Cardinality(At(at, D, L)) + Crossing(p \in D, at[p], to, L)
<1>1. IsFiniteSet(At(at, D, L)) /\ Cardinality(At(at, D, L)) \in Nat
  BY AtFinite
<1>2. CASE p \in D /\ at[p] \notin L /\ to \in L
  <2>1. At(at2, D, L) = At(at, D, L) \cup {p} /\ p \notin At(at, D, L)
    BY <1>2 DEF At
  <2>2. Cardinality(At(at2, D, L)) = Cardinality(At(at, D, L)) + 1
    BY <1>1, <2>1, FS_AddElement
  <2> QED
    BY <1>2, <2>2 DEF Crossing
<1>3. CASE p \in D /\ at[p] \in L /\ to \notin L
  <2>1. At(at2, D, L) = At(at, D, L) \ {p} /\ p \in At(at, D, L)
    BY <1>3 DEF At
  <2>2. Cardinality(At(at2, D, L)) = Cardinality(At(at, D, L)) - 1
    BY <1>1, <2>1, FS_RemoveElement
  <2> QED
    BY <1>1, <1>3, <2>2 DEF Crossing
<1>4. CASE p \notin D \/ (at[p] \in L <=> to \in L)
  <2>1. At(at2, D, L) = At(at, D, L)
    BY <1>4 DEF At
  <2> QED
    BY <1>1, <1>4, <2>1 DEF Crossing
<1> QED
  BY <1>2, <1>3, <1>4

(* The clients of one gender.                                              *)
LEMMA OfGender ==
  /\ IsFiniteSet(Clients)
  /\ \A g \in Genders : Of(g) \in SUBSET Clients /\ IsFiniteSet(Of(g))
  /\ \A c \in Clients : /\ Gender(c) \in Genders
                        /\ \A g \in Genders : c \in Of(g) <=> Gender(c) = g
  BY ShowerAssumption, FS_Union DEF Of, Clients, Genders, Gender

(* The three sets CountersExact counts are finite.                         *)
LEMMA Finite ==
  /\ \A g \in Genders :
       /\ IsFiniteSet(CountedIn(g)) /\ Cardinality(CountedIn(g)) \in Nat
       /\ IsFiniteSet(Sleepers(g)) /\ Cardinality(Sleepers(g)) \in Nat
  /\ IsFiniteSet(Holders) /\ Cardinality(Holders) \in Nat
  /\ IsFiniteSet(Inside) /\ Cardinality(Inside) \in Nat
  BY OfGender, AtFinite DEF CountedIn, Sleepers, Holders, Inside

(* The same in the next state.                                             *)
LEMMA FinitePrime ==
  /\ \A g \in Genders : /\ Cardinality(CountedIn(g)') \in Nat
                         /\ Cardinality(Sleepers(g)') \in Nat
  /\ Cardinality(Holders') \in Nat
  BY OfGender, AtFinite DEF CountedIn, Sleepers, Holders

(* AtMove for the three sets CountersExact counts.                         *)
LEMMA Counts ==
  ASSUME NEW c \in Clients, NEW from, NEW to,
         pc \in [Clients -> Labels], Goto(c, from, to)
  PROVE  /\ \A g \in Genders :
              /\ Cardinality(CountedIn(g)) \in Nat
              /\ Cardinality(CountedIn(g)') = Cardinality(CountedIn(g))
                   + Crossing(g = Gender(c), from, to, CountedLabels)
              /\ Cardinality(Sleepers(g)) \in Nat
              /\ Cardinality(Sleepers(g)') = Cardinality(Sleepers(g))
                   + Crossing(g = Gender(c), from, to, SleepLabels)
         /\ Cardinality(Holders) \in Nat
         /\ Cardinality(Holders') = Cardinality(Holders) + Crossing(TRUE, from, to, Holding)
<1>1. pc[c] = from /\ pc' = [pc EXCEPT ![c] = to]
  BY DEF Goto
<1>2. ASSUME NEW D \in SUBSET Clients, IsFiniteSet(D), NEW L
      PROVE  Cardinality(At(pc', D, L))
               = Cardinality(At(pc, D, L)) + Crossing(c \in D, from, to, L)
  <2>1. D \subseteq Clients
    OBVIOUS
  <2>2. Cardinality(At(pc', D, L))
          = Cardinality(At(pc, D, L)) + Crossing(c \in D, pc[c], to, L)
    BY <1>1, <1>2, <2>1, AtMove
  <2> QED
    BY <1>1, <2>2
<1>3. \A g \in Genders : /\ Of(g) \in SUBSET Clients /\ IsFiniteSet(Of(g))
                         /\ c \in Of(g) <=> g = Gender(c)
  BY OfGender
<1>4. ASSUME NEW g \in Genders
      PROVE  /\ Cardinality(CountedIn(g)') = Cardinality(CountedIn(g))
                   + Crossing(g = Gender(c), from, to, CountedLabels)
             /\ Cardinality(Sleepers(g)') = Cardinality(Sleepers(g))
                   + Crossing(g = Gender(c), from, to, SleepLabels)
  <2>1. \A L : Crossing(c \in Of(g), from, to, L) = Crossing(g = Gender(c), from, to, L)
    BY <1>3 DEF Crossing
  <2>2. /\ Cardinality(At(pc', Of(g), CountedLabels))
             = Cardinality(At(pc, Of(g), CountedLabels))
                 + Crossing(c \in Of(g), from, to, CountedLabels)
        /\ Cardinality(At(pc', Of(g), SleepLabels))
             = Cardinality(At(pc, Of(g), SleepLabels))
                 + Crossing(c \in Of(g), from, to, SleepLabels)
    BY <1>2, <1>3
  <2> QED
    BY <2>1, <2>2 DEF CountedIn, Sleepers, CountedLabels, SleepLabels
<1>5. Cardinality(Holders') = Cardinality(Holders) + Crossing(TRUE, from, to, Holding)
  BY <1>2, OfGender DEF Holders, Crossing
<1> QED
  BY <1>4, <1>5, Finite

(* The mark of a torn handover stays.                                      *)
LEMMA TornStays ==
  ASSUME NEW c \in Clients, NEW from, NEW to, from # "torn",
         pc \in [Clients -> Labels], Goto(c, from, to)
  PROVE  /\ At(pc', Clients, {"torn"}) = {} => At(pc, Clients, {"torn"}) = {}
         /\ to = "torn" => At(pc', Clients, {"torn"}) # {}
  BY DEF At, Goto

(* The initial state: nobody is at a counted label.                        *)
LEMMA InitIInv == Init => IInv
<1> SUFFICES ASSUME Init PROVE IInv
  OBVIOUS
<1>1. /\ \A g \in Genders : CountedIn(g) = {} /\ Sleepers(g) = {}
      /\ Holders = {}
  BY OfGender DEF Init, CountedIn, Sleepers, Holders, Holding, At
<1>2. CountersExact
  BY <1>1, FS_EmptySet, ShowerAssumption DEF Init, CountersExact, Genders
<1>3. TypeOK
  BY ShowerAssumption DEF Init, TypeOK, Labels, Genders
<1> QED
  BY <1>2, <1>3 DEF IInv, Init, MutexInv, GenderInv, Critical

(* A step between labels that takes or gives the mutex exactly when it     *)
(* enters or leaves a critical section keeps mutual exclusion.             *)
LEMMA MutexMove ==
  ASSUME TypeOK, MutexInv, NEW c \in Clients, NEW from, NEW to, Goto(c, from, to),
         \/ from \notin Critical /\ to \in Critical /\ mutex > 0 /\ mutex' = mutex - 1
         \/ from \in Critical /\ to \notin Critical /\ mutex' = mutex + 1
         \/ (from \in Critical <=> to \in Critical) /\ mutex' = mutex
  PROVE  mutex' \in 0..1 /\ MutexInv'
<1>1. /\ pc[c] = from /\ pc'[c] = to
      /\ \A d \in Clients : d # c => pc'[d] = pc[d]
  BY DEF Goto, TypeOK
<1>2. mutex \in {0, 1}
  BY DEF TypeOK
<1> QED
  BY <1>1, <1>2 DEF MutexInv

(* A step that moves one client without crossing a counted label, and      *)
(* changes nothing else but the mutex: the four P(SEM_MUTEX) and the two   *)
(* decisions that only give it back.                                       *)
LEMMA QuietStep ==
  ASSUME IInv, NEW c \in Clients, NEW from, NEW to \in Labels, Goto(c, from, to),
         \/ from \notin Critical /\ to \in Critical /\ mutex > 0 /\ mutex' = mutex - 1
         \/ from \in Critical /\ to \notin Critical /\ mutex' = mutex + 1,
         from \notin Deaths,
         \A L \in {CountedLabels, SleepLabels, Holding} : from \in L <=> to \in L,
         UNCHANGED <<cap, queue, shared>>
  PROVE  IInv'
<1>1. TypeOK /\ MutexInv /\ GenderInv /\ CountersExact
  BY DEF IInv
<1>2. mutex' \in 0..1 /\ MutexInv'
  BY <1>1, MutexMove
<1>3. TypeOK'
  BY <1>1, <1>2 DEF TypeOK, Goto, shared
<1>4. GenderInv'
  BY <1>1 DEF TypeOK, Goto, GenderInv, shared, CountedLabels, Deaths
<1>5. /\ \A g \in Genders : CountedIn(g)' = CountedIn(g) /\ Sleepers(g)' = Sleepers(g)
      /\ Holders' = Holders
  BY <1>1 DEF TypeOK, Goto, CountedIn, Sleepers, Holders, At, CountedLabels, SleepLabels
<1>6. CountersExact'
  BY <1>1, <1>5, TornStays DEF CountersExact, shared, TypeOK, Deaths
<1> QED
  BY <1>2, <1>3, <1>4, <1>6 DEF IInv

LEMMA JoinQueueIInv ==
  ASSUME IInv, NEW c \in Clients, NEW from \in {"check", "requeue"}, JoinQueue(c, from)
  PROVE  IInv'
<1> DEFINE g == Gender(c)
<1>1. TypeOK /\ MutexInv /\ GenderInv /\ CountersExact /\ Goto(c, from, "queue") /\ g \in Genders
  BY OfGender DEF IInv, JoinQueue
<1>2. mutex' \in 0..1 /\ MutexInv'
  BY <1>1, MutexMove DEF JoinQueue, Critical
<1>3. TypeOK'
  BY <1>1, <1>2 DEF TypeOK, JoinQueue, Goto, Labels
<1>4. GenderInv'
  BY <1>1 DEF GenderInv, TypeOK, JoinQueue, Goto
<1>5. /\ \A h \in Genders :
           /\ Cardinality(CountedIn(h)') = Cardinality(CountedIn(h))
           /\ Cardinality(Sleepers(h)) \in Nat
           /\ Cardinality(Sleepers(h)') = Cardinality(Sleepers(h)) + (IF h = g THEN 1 ELSE 0)
      /\ Cardinality(Holders') = Cardinality(Holders)
  BY <1>1, Counts DEF TypeOK, Crossing, CountedLabels, SleepLabels, Holding
<1>6. CountersExact'
  BY <1>1, <1>5, TornStays DEF CountersExact, JoinQueue, TypeOK
<1> QED
  BY <1>2, <1>3, <1>4, <1>6 DEF IInv

LEMMA TakeCapIInv ==
  ASSUME IInv, NEW c \in Clients, TakeCap(c)
  PROVE  IInv'
<1>1. /\ TypeOK /\ MutexInv /\ GenderInv /\ CountersExact
      /\ Goto(c, "cap", "recheck_lock")
  BY DEF IInv, TakeCap
<1>2. mutex' \in 0..1 /\ MutexInv'
  BY <1>1, MutexMove DEF TakeCap, Critical
<1>3. TypeOK'
  BY <1>1, <1>2, ShowerAssumption DEF TypeOK, TakeCap, Goto, Labels, shared
<1>4. GenderInv'
  BY <1>1 DEF GenderInv, TypeOK, TakeCap, Goto, shared
<1>5. /\ \A g \in Genders :
           /\ Cardinality(CountedIn(g)') = Cardinality(CountedIn(g))
           /\ Cardinality(Sleepers(g)') = Cardinality(Sleepers(g))
      /\ Cardinality(Holders) \in Nat
      /\ Cardinality(Holders') = Cardinality(Holders) + 1
  BY <1>1, Counts DEF TypeOK, Crossing, CountedLabels, SleepLabels, Holding
<1>6. CountersExact'
  <2>1. cap \in Int /\ cap' = cap - 1 /\ cap + Cardinality(Holders) = N
    BY <1>1 DEF TypeOK, TakeCap, CountersExact
  <2>2. (cap + Cardinality(Holders) = N)'
    BY <1>5, <2>1, ShowerAssumption
  <2> QED
    BY <1>1, <1>5, <2>2, TornStays DEF CountersExact, TakeCap, shared, TypeOK
<1> QED
  BY <1>2, <1>3, <1>4, <1>6 DEF IInv

LEMMA ReturnCapIInv ==
  ASSUME IInv, NEW c \in Clients, ReturnCap(c)
  PROVE  IInv'
<1>1. /\ TypeOK /\ MutexInv /\ GenderInv /\ CountersExact
      /\ Goto(c, "return_cap", "requeue_lock")
  BY DEF IInv, ReturnCap
<1>2. mutex' \in 0..1 /\ MutexInv'
  BY <1>1, MutexMove DEF ReturnCap, Critical
<1>4. GenderInv'
  BY <1>1 DEF GenderInv, TypeOK, ReturnCap, Goto, shared
<1>5. /\ \A g \in Genders :
           /\ Cardinality(CountedIn(g)') = Cardinality(CountedIn(g))
           /\ Cardinality(Sleepers(g)') = Cardinality(Sleepers(g))
      /\ Cardinality(Holders) \in Nat /\ Cardinality(Holders') \in Nat
      /\ Cardinality(Holders') = Cardinality(Holders) - 1
  BY <1>1, Counts, FinitePrime DEF TypeOK, Crossing, CountedLabels, SleepLabels, Holding
<1>6. CountersExact'
  BY <1>1, <1>5, ShowerAssumption, TornStays DEF CountersExact, ReturnCap, shared, TypeOK
<1>7. cap' \in 0..N
  BY <1>1, <1>5, ShowerAssumption DEF CountersExact, ReturnCap, TypeOK
<1>3. TypeOK'
  BY <1>1, <1>2, <1>7 DEF TypeOK, ReturnCap, Goto, Labels, shared
<1> QED
  BY <1>2, <1>3, <1>4, <1>6 DEF IInv

LEMMA WakeUpIInv ==
  ASSUME IInv, NEW c \in Clients, WakeUp(c)
  PROVE  IInv'
<1> DEFINE g == Gender(c)
<1>1. /\ TypeOK /\ MutexInv /\ GenderInv /\ CountersExact
      /\ Goto(c, "queue", "enter") /\ g \in Genders
  BY OfGender DEF IInv, WakeUp
<1>2. mutex' \in 0..1 /\ MutexInv'
  BY <1>1, MutexMove DEF WakeUp, Critical, shared
<1>3. TypeOK'
  BY <1>1, <1>2 DEF TypeOK, WakeUp, Goto, Labels, shared
<1>4. GenderInv'
  BY <1>1 DEF GenderInv, TypeOK, WakeUp, Goto, shared
<1>5. /\ \A h \in Genders :
           /\ Cardinality(CountedIn(h)') = Cardinality(CountedIn(h))
           /\ Cardinality(Sleepers(h)) \in Nat
           /\ Cardinality(Sleepers(h)') = Cardinality(Sleepers(h)) - (IF h = g THEN 1 ELSE 0)
      /\ Cardinality(Holders') = Cardinality(Holders)
  BY <1>1, Counts DEF TypeOK, Crossing, CountedLabels, SleepLabels, Holding
<1>6. CountersExact'
  BY <1>1, <1>5, TornStays DEF CountersExact, WakeUp, TypeOK, shared
<1> QED
  BY <1>2, <1>3, <1>4, <1>6 DEF IInv

(* Entering: the recheck runs with the mutex held, so the decision is      *)
(* still valid when current_gender and in are written.                     *)
LEMMA RecheckAllowedIInv ==
  ASSUME IInv, NEW c \in Clients, RecheckAllowed(c)
  PROVE  IInv'
<1> DEFINE g == Gender(c)
<1>1. /\ TypeOK /\ MutexInv /\ GenderInv /\ CountersExact
      /\ Goto(c, "recheck", "shower") /\ g \in Genders
  BY OfGender DEF IInv, RecheckAllowed
<1>2. mutex' \in 0..1 /\ MutexInv'
  BY <1>1, MutexMove DEF RecheckAllowed, Critical
<1>3. TypeOK'
  BY <1>1, <1>2 DEF TypeOK, RecheckAllowed, Goto, Labels, Other, Genders
<1>4. GenderInv'
  <2>1. current_gender \in {"NONE", g} /\ current_gender' = g
    BY DEF RecheckAllowed, Allow2, Allow
  <2>2. \A d \in Clients : pc[d] \in {"shower", "leave"} => Gender(d) = g
    BY <1>1, <2>1, OfGender DEF GenderInv, Genders
  <2> QED
    BY <1>1, <2>1, <2>2 DEF GenderInv, TypeOK, Goto
<1>5. /\ \A h \in Genders :
           /\ Cardinality(CountedIn(h)) \in Nat
           /\ Cardinality(CountedIn(h)') = Cardinality(CountedIn(h)) + (IF h = g THEN 1 ELSE 0)
           /\ Cardinality(Sleepers(h)') = Cardinality(Sleepers(h))
      /\ Cardinality(Holders') = Cardinality(Holders)
  BY <1>1, Counts DEF TypeOK, Crossing, CountedLabels, SleepLabels, Holding
<1>6. CountersExact'
  BY <1>1, <1>5, TornStays DEF CountersExact, RecheckAllowed, TypeOK
<1> QED
  BY <1>2, <1>3, <1>4, <1>6 DEF IInv

LEMMA LeaveRoomIInv ==
  ASSUME IInv, NEW c \in Clients, LeaveRoom(c)
  PROVE  IInv'
<1> DEFINE g == Gender(c)
<1>1. /\ TypeOK /\ MutexInv /\ GenderInv /\ CountersExact
      /\ Goto(c, "leave", "switch") /\ g \in Genders
  BY OfGender DEF IInv, LeaveRoom
<1>2. mutex' \in 0..1 /\ MutexInv'
  BY <1>1, MutexMove DEF LeaveRoom, Critical
<1>4. GenderInv'
  BY <1>1 DEF GenderInv, TypeOK, LeaveRoom, Goto
<1>5. /\ \A h \in Genders :
           /\ Cardinality(CountedIn(h)) \in Nat /\ Cardinality(CountedIn(h)') \in Nat
           /\ Cardinality(CountedIn(h)') = Cardinality(CountedIn(h)) - (IF h = g THEN 1 ELSE 0)
           /\ Cardinality(Sleepers(h)') = Cardinality(Sleepers(h))
      /\ Cardinality(Holders) \in Nat /\ Cardinality(Holders') \in Nat
      /\ Cardinality(Holders') = Cardinality(Holders) - 1
  <2>1. /\ \A h \in Genders : Cardinality(CountedIn(h)') \in Nat
        /\ Cardinality(Holders') \in Nat
    BY FinitePrime
  <2> QED
    BY <1>1, <2>1, Counts DEF TypeOK, Crossing, CountedLabels, SleepLabels, Holding
<1>6. /\ cap \in Int /\ cap' = cap + 1 /\ cap + Cardinality(Holders) = N
      /\ in' = [in EXCEPT ![g] = @ - 1] /\ in \in [Genders -> Nat]
  BY <1>1 DEF TypeOK, LeaveRoom, CountersExact
<1>7. (cap + Cardinality(Holders) = N)' /\ cap' \in 0..N
  BY <1>1, <1>5, <1>6, ShowerAssumption DEF TypeOK
<1>8. \A h \in Genders : in'[h] = Cardinality(CountedIn(h)') /\ in'[h] \in Nat
  BY <1>1, <1>5, <1>6 DEF CountersExact
<1>9. CountersExact'
  BY <1>1, <1>5, <1>7, <1>8, TornStays DEF CountersExact, LeaveRoom, TypeOK
<1>10. TypeOK'
  BY <1>1, <1>2, <1>6, <1>7, <1>8 DEF TypeOK, LeaveRoom, Goto, Labels
<1> QED
  BY <1>2, <1>4, <1>9, <1>10 DEF IInv

(* When the counters say that the room is empty, nobody is inside.         *)
LEMMA EmptyRoom ==
  ASSUME IInv, RoomEmpty
  PROVE  \A d \in Clients : pc[d] \notin {"shower", "leave"}
<1>1. ASSUME NEW g \in Genders
      PROVE  CountedIn(g) = {}
  <2>1. Cardinality(CountedIn(g)) = 0
    BY DEF IInv, CountersExact, RoomEmpty
  <2>2. IsFiniteSet(CountedIn(g))
    BY Finite
  <2> QED
    BY <2>1, <2>2, FS_EmptySet
<1> QED
  BY <1>1, OfGender DEF CountedIn, At

(* The room is handed to one of the two genders.                           *)
LEMMA HandedToGender ==
  ASSUME TypeOK
  PROVE  HandedTo \subseteq Genders
<1>1. Contended \in Genders
  BY DEF Contended, Genders, TypeOK
<1> QED
  BY <1>1 DEF HandedTo, Waiting

(* Handing an empty room on moves the waiting clients from wait to queue.  *)
LEMMA SwitchRoomIInv ==
  ASSUME IInv, NEW c \in Clients, SwitchRoom(c)
  PROVE  IInv'
<1>1. /\ TypeOK /\ MutexInv /\ GenderInv /\ CountersExact
      /\ Goto(c, "switch", "done")
  BY DEF IInv, SwitchRoom
<1>2. mutex' \in 0..1 /\ MutexInv'
  BY <1>1, MutexMove DEF SwitchRoom, Critical
<1>3. \/ /\ ~RoomEmpty
         /\ UNCHANGED <<queue, wait, current_gender, streak, turn, overtaken>>
      \/ RoomEmpty /\ FreeRoom
      \/ RoomEmpty /\ \E g \in Genders : WakeLocked(g)
  BY <1>1, HandedToGender DEF SwitchRoom
<1>4. /\ queue' \in [Genders -> Nat] /\ wait' \in [Genders -> Nat]
      /\ \A h \in Genders : wait'[h] + queue'[h] = wait[h] + queue[h]
      /\ current_gender' \in Genders \cup {"NONE"} /\ turn' \in Genders
      /\ streak' \in [Genders -> Nat] /\ overtaken' \in [Genders -> Nat]
  BY <1>1, <1>3 DEF FreeRoom, WakeLocked, TypeOK, Other, Genders
<1>5. TypeOK'
  BY <1>1, <1>2, <1>4 DEF TypeOK, SwitchRoom, Goto, Labels
<1>6. GenderInv'
  <2>1. CASE ~RoomEmpty
    BY <1>1, <1>3, <2>1 DEF GenderInv, TypeOK, Goto
  <2>2. CASE RoomEmpty
    BY <1>1, <2>2, EmptyRoom DEF GenderInv, TypeOK, Goto
  <2> QED
    BY <2>1, <2>2
<1>7. /\ \A h \in Genders :
           /\ Cardinality(CountedIn(h)') = Cardinality(CountedIn(h))
           /\ Cardinality(Sleepers(h)') = Cardinality(Sleepers(h))
      /\ Cardinality(Holders') = Cardinality(Holders)
  BY <1>1, Counts DEF TypeOK, Crossing, CountedLabels, SleepLabels, Holding
<1>8. CountersExact'
  BY <1>1, <1>4, <1>7, TornStays DEF CountersExact, SwitchRoom, TypeOK
<1> QED
  BY <1>2, <1>5, <1>6, <1>8 DEF IInv

(* A death gives back what SEM_UNDO remembers, so the mutex and the places *)
(* stay exact, if in and wait change by what the client leaves behind, and *)
(* current_gender changes only to the gender of all who are inside.        *)
LEMMA DeathStep ==
  ASSUME IInv, NEW c \in Clients, NEW from \in Labels \ Deaths, NEW to \in Deaths,
         Goto(c, from, to), Undo(c),
         /\ queue' \in [Genders -> Nat] /\ wait' \in [Genders -> Nat]
         /\ turn' \in Genders /\ streak' \in [Genders -> Nat]
         /\ overtaken' \in [Genders -> Nat],
         \/ current_gender' = current_gender
         \/ /\ current_gender' \in Genders \cup {"NONE"}
            /\ \A d \in Clients : pc[d] \in {"shower", "leave"} => current_gender' = Gender(d),
         in' \in [Genders -> Int],
         \A g \in Genders :
           /\ in'[g] = in[g] + Crossing(g = Gender(c), from, to, CountedLabels)
           /\ wait'[g] + queue'[g]
                <= wait[g] + queue[g] + Crossing(g = Gender(c), from, to, SleepLabels)
           /\ to # "torn" => wait'[g] + queue'[g]
                = wait[g] + queue[g] + Crossing(g = Gender(c), from, to, SleepLabels)
  PROVE  IInv'
<1>1. TypeOK /\ MutexInv /\ GenderInv /\ CountersExact /\ pc[c] = from
  BY DEF IInv, Goto
<1>2. mutex' \in 0..1 /\ MutexInv'
  <2>1. to \notin Critical
    BY DEF Critical, Deaths
  <2> QED
    BY <1>1, <2>1, MutexMove DEF Undo, TypeOK
<1>3. GenderInv'
  BY <1>1 DEF GenderInv, TypeOK, Goto, Deaths
<1>4. /\ \A g \in Genders :
           /\ Cardinality(CountedIn(g)') \in Nat /\ Cardinality(Sleepers(g)') \in Nat
           /\ Cardinality(CountedIn(g)) \in Nat /\ Cardinality(Sleepers(g)) \in Nat
           /\ Cardinality(CountedIn(g)') = Cardinality(CountedIn(g))
                + Crossing(g = Gender(c), from, to, CountedLabels)
           /\ Cardinality(Sleepers(g)') = Cardinality(Sleepers(g))
                + Crossing(g = Gender(c), from, to, SleepLabels)
      /\ Cardinality(Holders) \in Nat /\ Cardinality(Holders') \in Nat
      /\ Cardinality(Holders') = Cardinality(Holders) + Crossing(TRUE, from, to, Holding)
  BY <1>1, Counts, FinitePrime DEF TypeOK, Crossing
<1>5. cap' \in 0..N /\ cap' + Cardinality(Holders') = N
  <2>1. Crossing(TRUE, from, to, Holding) = IF from \in Holding THEN -1 ELSE 0
    BY DEF Crossing, Holding, Deaths
  <2>2. /\ cap' = cap + (IF from \in Holding THEN 1 ELSE 0) /\ cap \in 0..N
        /\ cap + Cardinality(Holders) = N
    BY <1>1 DEF Undo, TypeOK, CountersExact
  <2>3. Cardinality(Holders') = Cardinality(Holders) + (IF from \in Holding THEN -1 ELSE 0)
    BY <1>4, <2>1
  <2>4. Cardinality(Holders) \in Nat /\ Cardinality(Holders') \in Nat /\ N \in Nat
    BY <1>4, ShowerAssumption
  <2>5. CASE from \in Holding
    BY <2>2, <2>3, <2>4, <2>5
  <2>6. CASE from \notin Holding
    BY <2>2, <2>3, <2>4, <2>6
  <2> QED
    BY <2>5, <2>6
<1>6. \A g \in Genders :
        /\ in'[g] = Cardinality(CountedIn(g)')
        /\ wait'[g] + queue'[g] <= Cardinality(Sleepers(g)')
        /\ At(pc', Clients, {"torn"}) = {} =>
             wait'[g] + queue'[g] = Cardinality(Sleepers(g)')
  <2> SUFFICES ASSUME NEW g \in Genders
               PROVE  /\ in'[g] = Cardinality(CountedIn(g)')
                      /\ wait'[g] + queue'[g] <= Cardinality(Sleepers(g)')
                      /\ At(pc', Clients, {"torn"}) = {} =>
                           wait'[g] + queue'[g] = Cardinality(Sleepers(g)')
    OBVIOUS
  <2>1. /\ wait[g] \in Nat /\ queue[g] \in Nat /\ wait'[g] \in Nat /\ queue'[g] \in Nat
        /\ in[g] = Cardinality(CountedIn(g))
        /\ wait[g] + queue[g] <= Cardinality(Sleepers(g))
        /\ At(pc, Clients, {"torn"}) = {} => wait[g] + queue[g] = Cardinality(Sleepers(g))
    BY <1>1 DEF TypeOK, CountersExact
  <2>2. At(pc', Clients, {"torn"}) = {} => to # "torn" /\ At(pc, Clients, {"torn"}) = {}
    BY <1>1, TornStays DEF TypeOK, Deaths
  <2>3. Crossing(g = Gender(c), from, to, SleepLabels) \in Int
    BY DEF Crossing
  <2> QED
    BY <1>4, <2>1, <2>2, <2>3
<1>7. CountersExact'
  BY <1>5, <1>6 DEF CountersExact
<1>8. TypeOK'
  <2>1. in' \in [Genders -> Nat]
    BY <1>4, <1>6
  <2>2. pc' \in [Clients -> Labels]
    BY <1>1 DEF TypeOK, Goto, Labels
  <2>3. current_gender' \in Genders \cup {"NONE"}
    BY <1>1 DEF TypeOK
  <2> QED
    BY <1>2, <1>5, <2>1, <2>2, <2>3 DEF TypeOK
<1> QED
  BY <1>2, <1>3, <1>7, <1>8 DEF IInv

(* Every death is such a step.                                             *)
LEMMA KillIInv ==
  ASSUME IInv, NEW c \in Clients, Kill(c)
  PROVE  IInv'
<1> DEFINE g == Gender(c)
<1> USE DEF Crossing, CountedLabels, SleepLabels, Deaths
<1>1. TypeOK /\ MutexInv /\ GenderInv /\ CountersExact /\ Undo(c) /\ g \in Genders
  BY OfGender DEF IInv, Kill
<1>2. CASE KillOutside(c)
  <2>1. PICK from \in {"enter", "check", "cap", "recheck_lock", "recheck", "return_cap",
                      "requeue_lock", "requeue"} : Goto(c, from, "killed")
    BY <1>2 DEF KillOutside
  <2>2. UNCHANGED <<queue, shared>>
    BY <1>2 DEF KillOutside
  <2> QED
    BY <1>1, <2>1, <2>2, DeathStep DEF TypeOK, Labels, shared
<1>3. CASE KillAsleep(c)
  BY <1>1, <1>3, DeathStep DEF TypeOK, Labels, shared, KillAsleep
<1>4. CASE KillJoining(c)
  <2>1. PICK from \in {"check", "requeue"} : Goto(c, from, "ghost_waiting")
    BY <1>4 DEF KillJoining
  <2> QED
    BY <1>1, <1>4, <2>1, DeathStep DEF TypeOK, Labels, KillJoining
<1>5. CASE KillEntering(c)
  <2>1. \A d \in Clients : pc[d] \in {"shower", "leave"} => current_gender' = Gender(d)
    BY <1>1, <1>5, OfGender DEF KillEntering, Allow2, Allow, GenderInv, Genders
  <2>2. CASE Goto(c, "recheck", "killed") /\ UNCHANGED <<in, streak>>
    BY <1>1, <1>5, <2>1, <2>2, DeathStep DEF KillEntering, TypeOK, Labels
  <2>3. CASE Goto(c, "recheck", "ghost_entering") /\ in' = [in EXCEPT ![g] = @ + 1]
    <3>1. streak' \in [Genders -> Nat]
      BY <1>1, <1>5, <2>3 DEF KillEntering, TypeOK, Other, Genders, Goto
    <3>2. /\ UNCHANGED <<queue, wait, turn, overtaken>>
          /\ current_gender' \in Genders \cup {"NONE"}
      BY <1>1, <1>5 DEF KillEntering
    <3>3. /\ in' \in [Genders -> Int]
          /\ \A h \in Genders :
               in'[h] = in[h] + Crossing(h = g, "recheck", "ghost_entering", CountedLabels)
      BY <1>1, <2>3 DEF TypeOK
    <3>4. \A h \in Genders :
            wait'[h] + queue'[h]
              = wait[h] + queue[h] + Crossing(h = g, "recheck", "ghost_entering", SleepLabels)
      BY <1>1, <3>2 DEF TypeOK
    <3>5. \A h \in Genders : wait'[h] + queue'[h] \in Nat
      BY <1>1, <3>2 DEF TypeOK
    <3> QED
      BY <1>1, <2>1, <2>3, <3>1, <3>2, <3>3, <3>4, <3>5, DeathStep DEF TypeOK, Labels
  <2> QED
    BY <1>5, <2>2, <2>3 DEF KillEntering
<1>6. CASE KillInside(c)
  <2>1. PICK from \in {"shower", "leave"} : Goto(c, from, "ghost_inside")
    BY <1>6 DEF KillInside
  <2> QED
    BY <1>1, <1>6, <2>1, DeathStep DEF TypeOK, Labels, shared, KillInside
<1>7. CASE KillLeaving(c)
  BY <1>1, <1>7, DeathStep DEF TypeOK, Labels, KillLeaving
<1>8. ASSUME RoomEmpty
      PROVE  \A d \in Clients : pc[d] \in {"shower", "leave"} => current_gender' = Gender(d)
  BY <1>8, EmptyRoom
<1>9. Zeroed \subseteq [Genders -> Nat]
  BY <1>1 DEF Zeroed, TypeOK, Genders
<1>10. CASE KillSwitching(c)
  <2>1. CASE UNCHANGED <<queue, wait, current_gender, streak, turn, overtaken>>
    BY <1>1, <1>10, <2>1, DeathStep DEF TypeOK, Labels, KillSwitching
  <2>2. CASE /\ RoomEmpty /\ current_gender' = "NONE" /\ streak' \in Zeroed
             /\ UNCHANGED <<queue, wait, turn, overtaken>>
    BY <1>1, <1>8, <1>9, <1>10, <2>2, DeathStep DEF TypeOK, Labels, KillSwitching
  <2>3. CASE RoomEmpty /\ \E h \in HandedTo : WakeLocked(h)
    <3>1. PICK h \in Genders : WakeLocked(h)
      BY <1>1, <2>3, HandedToGender
    <3>2. /\ queue' \in [Genders -> Nat] /\ wait' \in [Genders -> Nat]
          /\ \A k \in Genders : wait'[k] + queue'[k] = wait[k] + queue[k]
          /\ current_gender' \in Genders /\ turn' \in Genders
          /\ streak' \in [Genders -> Nat] /\ overtaken' \in [Genders -> Nat]
      BY <1>1, <3>1 DEF WakeLocked, TypeOK, Other, Genders
    <3> QED
      BY <1>1, <1>8, <1>10, <2>3, <3>2, DeathStep DEF TypeOK, Labels, KillSwitching
  <2> QED
    BY <1>10, <2>1, <2>2, <2>3 DEF KillSwitching
<1>11. CASE KillWaking(c)
  <2>1. PICK h \in Genders :
          /\ wait' = [wait EXCEPT ![h] = 0]
          /\ \/ UNCHANGED <<current_gender, turn, streak>>
             \/ current_gender' = h /\ UNCHANGED <<turn, streak>>
             \/ current_gender' = h /\ turn' = Other(h) /\ streak' \in Zeroed
    BY <1>1, <1>11, HandedToGender DEF KillWaking
  <2>2. /\ turn' \in Genders /\ streak' \in [Genders -> Nat]
        /\ current_gender' \in Genders \cup {"NONE"} /\ wait' \in [Genders -> Nat]
        /\ \A k \in Genders : wait'[k] <= wait[k]
    BY <1>1, <1>9, <2>1 DEF TypeOK, Other, Genders
  <2>3. /\ RoomEmpty /\ Goto(c, "switch", "torn") /\ UNCHANGED <<queue, in, overtaken>>
    BY <1>11 DEF KillWaking
  <2> QED
    BY <1>1, <1>8, <2>2, <2>3, DeathStep DEF TypeOK, Labels
<1> QED
  BY <1>2, <1>3, <1>4, <1>5, <1>6, <1>7, <1>10, <1>11 DEF Kill

(* IInv is inductive: one case per action.                                 *)
LEMMA NextIInv == IInv /\ [Next]_vars => IInv'
<1> SUFFICES ASSUME IInv, [Next]_vars PROVE IInv'
  OBVIOUS
<1>1. ASSUME NEW c \in Clients, EnterGender(c)
      PROVE  IInv'
  <2>1. CASE Lock(c, "enter", "check")
    BY <2>1, QuietStep DEF Lock, Critical, Labels, Deaths, CountedLabels, SleepLabels, Holding
  <2>2. CASE CheckAllowed(c)
    BY <2>2, QuietStep DEF CheckAllowed, Critical, Labels, Deaths, CountedLabels, SleepLabels, Holding
  <2>3. CASE CheckRefused(c)
    BY <2>3, JoinQueueIInv DEF CheckRefused
  <2>4. CASE TakeCap(c)
    BY <2>4, TakeCapIInv
  <2>5. CASE Lock(c, "recheck_lock", "recheck")
    BY <2>5, QuietStep DEF Lock, Critical, Labels, Deaths, CountedLabels, SleepLabels, Holding
  <2>6. CASE RecheckAllowed(c)
    BY <2>6, RecheckAllowedIInv
  <2>7. CASE RecheckRefused(c)
    BY <2>7, QuietStep DEF RecheckRefused, Critical, Labels, Deaths, CountedLabels,
       SleepLabels, Holding
  <2>8. CASE ReturnCap(c)
    BY <2>8, ReturnCapIInv
  <2>9. CASE Lock(c, "requeue_lock", "requeue")
    BY <2>9, QuietStep DEF Lock, Critical, Labels, Deaths, CountedLabels, SleepLabels, Holding
  <2>10. CASE JoinQueue(c, "requeue")
    BY <2>10, JoinQueueIInv
  <2>11. CASE WakeUp(c)
    BY <2>11, WakeUpIInv
  <2> QED
    BY <1>1, <2>1, <2>2, <2>3, <2>4, <2>5, <2>6, <2>7, <2>8, <2>9, <2>10, <2>11
       DEF EnterGender
<1>2. ASSUME NEW c \in Clients, LeaveGender(c)
      PROVE  IInv'
  <2>1. CASE Lock(c, "shower", "leave")
    BY <2>1, QuietStep DEF Lock, Critical, Labels, Deaths, CountedLabels, SleepLabels, Holding
  <2>2. CASE LeaveRoom(c)
    BY <2>2, LeaveRoomIInv
  <2>3. CASE SwitchRoom(c)
    BY <2>3, SwitchRoomIInv
  <2> QED
    BY <1>2, <2>1, <2>2, <2>3 DEF LeaveGender
<1>3. CASE UNCHANGED vars
  BY <1>3 DEF IInv, TypeOK, MutexInv, GenderInv, CountersExact, CountedIn, Sleepers,
              Holders, At, vars, shared
<1>4. ASSUME NEW c \in Clients, Kill(c)
      PROVE  IInv'
  BY <1>4, KillIInv
<1> QED
  BY <1>1, <1>2, <1>3, <1>4 DEF Next, ClientOnce, Terminating

(* state_t and the semaphores agree with the places of the clients in       *)
(* enter_gender and leave_gender, whoever is killed and when.              *)
THEOREM Inductive == Spec => []IInv
  BY InitIInv, NextIInv, PTL DEF Spec

(* Every semaphore and counter stays in its range.                         *)
THEOREM TypeCorrect == Spec => []TypeOK
<1>1. IInv => TypeOK
  BY DEF IInv
<1> QED
  BY <1>1, Inductive, PTL

(* The counters and semaphores are exact: no lost or surplus wakeup token, *)
(* no leaked place.                                                        *)
THEOREM Exact == Spec => []CountersExact
<1>1. IInv => CountersExact
  BY DEF IInv
<1> QED
  BY <1>1, Inductive, PTL

(* Men and women are never inside together.                                *)
THEOREM OneGenderInside == Spec => []OneGender
<1>1. IInv => OneGender
  BY OfGender DEF IInv, GenderInv, OneGender, InsideOf, At, Genders
<1> QED
  BY <1>1, Inductive, PTL

(* A client inside, or about to enter, has its own place of SEM_CAP.       *)
LEMMA PlacesBound ==
  ASSUME IInv
  PROVE  /\ Cardinality(Inside) \in Nat /\ Cardinality(Inside) <= N
         /\ \A c \in Clients : pc[c] = "recheck" => Cardinality(Inside) < N
<1>1. /\ IsFiniteSet(Holders) /\ Cardinality(Holders) \in Nat
      /\ IsFiniteSet(Inside) /\ Cardinality(Inside) \in Nat
  BY Finite
<1>2. Cardinality(Holders) <= N
  BY <1>1, ShowerAssumption DEF IInv, TypeOK, CountersExact
<1>3. Inside \subseteq Holders
  BY DEF Inside, Holders, Holding, At
<1>4. Cardinality(Inside) <= Cardinality(Holders)
  BY <1>1, <1>3, FS_Subset
<1>5. ASSUME NEW c \in Clients, pc[c] = "recheck"
      PROVE  Cardinality(Inside) < N
  <2>1. c \in Holders /\ c \notin Inside
    BY <1>5 DEF Inside, Holders, Holding, At
  <2>2. Cardinality(Inside) # Cardinality(Holders)
    BY <1>1, <1>3, <2>1, FS_Subset
  <2> QED
    BY <1>1, <1>2, <1>4, <2>2, ShowerAssumption
<1> QED
  BY <1>1, <1>2, <1>4, <1>5, ShowerAssumption

(* Never more than N clients are inside.                                   *)
THEOREM Capacity == Spec => []WithinCapacity
<1>1. IInv => WithinCapacity
  BY PlacesBound DEF WithinCapacity
<1> QED
  BY <1>1, Inductive, PTL
-----------------------------------------------------------------------------
(* A step that does not move a client into or out of the room, nor past    *)
(* it, is a stuttering step of the abstract room.                          *)
LEMMA RoomStutter ==
  ASSUME TypeOK, NEW c \in Clients, NEW from, NEW to, Goto(c, from, to),
         from \in {"shower", "leave"} <=> to \in {"shower", "leave"},
         from \in LeftLabels <=> to \in LeftLabels
  PROVE  UNCHANGED <<Inside, Left>>
  BY DEF Left, LeftLabels, TypeOK, Goto, Inside, At

(* Every step of the semaphore protocol is a step of the abstract room or  *)
(* leaves it unchanged.                                                    *)
LEMMA RoomStep ==
  IInv /\ [Next]_vars => [Room!Next]_<<Inside, Left>>
<1> SUFFICES ASSUME IInv, [Next]_vars
             PROVE  Room!Next \/ UNCHANGED <<Inside, Left>>
  OBVIOUS
<1>1. TypeOK /\ GenderInv
  BY DEF IInv
<1>2. ASSUME NEW c \in Clients, RecheckAllowed(c)
      PROVE  Room!Enter(c)
  <2>1. pc[c] = "recheck" /\ Goto(c, "recheck", "shower")
    BY <1>2 DEF RecheckAllowed, Goto
  <2>2. current_gender \in {"NONE", Gender(c)}
    BY <1>2 DEF RecheckAllowed, Allow2, Allow
  <2>3. \A d \in Inside : Room!SameGender(c, d)
    BY <1>1, <2>2 DEF GenderInv, Inside, At, Room!SameGender, Gender, Clients
  <2>4. Cardinality(Inside) < N
    BY <2>1, PlacesBound
  <2>5. Room!Cardinality(Inside) = Cardinality(Inside)
    BY DEF Room!Cardinality, Cardinality
  <2>6. c \notin Inside \cup Left /\ Inside' = Inside \cup {c} /\ Left' = Left
    BY <1>1, <2>1 DEF Inside, Left, At, TypeOK, Goto
  <2> QED
    BY <2>3, <2>4, <2>5, <2>6 DEF Room!Enter
<1>3. ASSUME NEW c \in Clients, LeaveRoom(c)
      PROVE  Room!Leave(c)
  <2>1. c \in Inside /\ Inside' = Inside \ {c} /\ Left' = Left \cup {c}
    BY <1>1, <1>3 DEF LeaveRoom, Goto, Inside, Left, At, TypeOK
  <2> QED
    BY <2>1 DEF Room!Leave
<1>4. ASSUME NEW c \in Clients, EnterGender(c), ~RecheckAllowed(c)
      PROVE  UNCHANGED <<Inside, Left>>
  BY <1>1, <1>4, RoomStutter DEF EnterGender, Lock, CheckAllowed, CheckRefused, JoinQueue,
     TakeCap, RecheckRefused, ReturnCap, WakeUp, LeftLabels
<1>5. ASSUME NEW c \in Clients, LeaveGender(c), ~LeaveRoom(c)
      PROVE  UNCHANGED <<Inside, Left>>
  BY <1>1, <1>5, RoomStutter DEF LeaveGender, Lock, SwitchRoom, LeftLabels
<1>6. CASE UNCHANGED vars
  BY <1>6 DEF vars, Inside, Left, At
<1>7. ASSUME NEW c \in Clients, Kill(c), pc[c] \in {"shower", "leave"}
      PROVE  Room!Leave(c)
  <2>1. PICK to \in {"ghost_inside", "killed_leaving"} : pc' = [pc EXCEPT ![c] = to]
    BY <1>7 DEF Kill, KillOutside, KillAsleep, KillJoining, KillEntering, KillInside,
       KillLeaving, KillSwitching, KillWaking, Goto
  <2>2. c \in Inside /\ Inside' = Inside \ {c} /\ Left' = Left \cup {c}
    BY <1>1, <1>7, <2>1 DEF Inside, Left, At, TypeOK
  <2> QED
    BY <2>2 DEF Room!Leave
<1>8. ASSUME NEW c \in Clients, Kill(c), pc[c] \notin {"shower", "leave"}
      PROVE  UNCHANGED <<Inside, Left>>
  BY <1>1, <1>8, RoomStutter DEF Kill, KillOutside, KillAsleep, KillJoining, KillEntering,
     KillInside, KillLeaving, KillSwitching, KillWaking, Goto, LeftLabels
<1> QED
  BY <1>2, <1>3, <1>4, <1>5, <1>6, <1>7, <1>8 DEF Next, ClientOnce, Terminating, Room!Next,
     Room!Clients, Clients

(* The semaphore protocol implements the abstract room.                    *)
THEOREM Refinement == Spec => ImplementsRoom
<1>1. Init => Room!Init
  BY DEF Init, Room!Init, Inside, Left, At
<1> QED
  BY <1>1, RoomStep, Inductive, PTL DEF Spec, ImplementsRoom, Room!Spec
-----------------------------------------------------------------------------
(***************************************************************************)
(* What is promised while nobody is killed.  A room that is taken has      *)
(* somebody in it or on the way to it, and a gender that was let in again  *)
(* while the other one waits has given up turn.                            *)
(***************************************************************************)

InRoom == {"shower", "leave", "switch"}
OnTheWay == {"enter", "check", "cap", "recheck_lock", "recheck"} \cup InRoom

ReservedInv ==
  /\ \A c \in Clients : pc[c] \in InRoom => current_gender = Gender(c)
  /\ \A g \in Genders : streak[g] > 0 =>
       \E c \in Clients : Gender(c) = g /\ pc[c] \in InRoom
  /\ \A g \in Genders : current_gender = g =>
       \/ queue[g] > 0
       \/ \E c \in Clients : Gender(c) = g /\ pc[c] \in OnTheWay

\* once g has been overtaken it stays counted as waiting, and the room stays
\* with the other gender, until a switch wakes it
OvertakingInv ==
  \A g \in Genders : overtaken[g] > 0 =>
    /\ wait[g] > 0 /\ current_gender = Other(g)
    /\ streak[g] = 0 /\ streak[Other(g)] <= MaxStreak
    /\ overtaken[g] <= streak[Other(g)] + IF turn = g THEN MaxStreak ELSE 0

PromiseInv == NobodyKilled => ReservedInv /\ OvertakingInv

(* A death is for ever, so a step that leaves nobody killed is a step of a *)
(* client, from a state where nobody was killed.                           *)
LEMMA NoDeath ==
  ASSUME TypeOK, [Next]_vars, NobodyKilled'
  PROVE  /\ NobodyKilled
         /\ (\E c \in Clients : ClientOnce(c)) \/ UNCHANGED vars
<1>1. \A c \in Clients : pc'[c] \notin Deaths
  BY DEF NobodyKilled, At
<1>2. ASSUME NEW c \in Clients, Kill(c)
      PROVE  FALSE
  <2>1. PICK to \in Deaths : pc' = [pc EXCEPT ![c] = to]
    BY <1>2 DEF Kill, KillOutside, KillAsleep, KillJoining, KillEntering, KillInside,
       KillLeaving, KillSwitching, KillWaking, Goto, Deaths
  <2> QED
    BY <1>1, <2>1 DEF TypeOK
<1>3. ASSUME NEW c \in Clients, ClientOnce(c)
      PROVE  \A d \in Clients : pc[d] \notin Deaths
  <2>1. PICK from \in Labels, to \in Labels :
          from \notin Deaths /\ pc[c] = from /\ pc' = [pc EXCEPT ![c] = to]
    BY <1>3 DEF ClientOnce, EnterGender, LeaveGender, Lock, CheckAllowed, CheckRefused,
       JoinQueue, TakeCap, RecheckAllowed, RecheckRefused, ReturnCap, WakeUp, LeaveRoom,
       SwitchRoom, Goto, Deaths, Labels
  <2> QED
    BY <1>1, <2>1 DEF TypeOK
<1>4. CASE UNCHANGED vars
  BY <1>1, <1>4 DEF vars, NobodyKilled, At
<1> QED
  BY <1>2, <1>3, <1>4 DEF Next, Terminating, NobodyKilled, At

(* A client that is refused while the room is its gender's finds somebody  *)
(* of its gender in the room: only the streak can refuse it.               *)
LEMMA Refused ==
  ASSUME IInv, ReservedInv, NobodyKilled, NEW g \in Genders, current_gender = g, ~Allow(g)
  PROVE  \E c \in Clients : Gender(c) = g /\ pc[c] \in InRoom
<1>1. TypeOK /\ GenderInv /\ CountersExact /\ MaxStreak \in Nat \ {0}
  BY ShowerAssumption DEF IInv
<1>2. in[Other(g)] = 0
  <2>1. CountedIn(Other(g)) = {}
    <3>1. ASSUME NEW c \in CountedIn(Other(g))
          PROVE  FALSE
      <4>1. c \in Clients /\ Gender(c) = Other(g) /\ pc[c] \in CountedLabels
        BY OfGender DEF CountedIn, At, CountedLabels, Other, Genders
      <4>2. pc[c] \in {"shower", "leave"}
        BY <4>1 DEF CountedLabels, NobodyKilled, At, Deaths
      <4> QED
        BY <1>1, <4>1, <4>2 DEF GenderInv, Other, Genders
    <3> QED
      BY <3>1
  <2> QED
    BY <1>1, <2>1, FS_EmptySet DEF CountersExact, Other, Genders
<1>3. FairnessBlock(g)
  BY <1>2 DEF Allow
<1>4. streak[g] > 0
  BY <1>1, <1>3 DEF FairnessBlock, TypeOK
<1> QED
  BY <1>4 DEF ReservedInv

(* A step that takes nobody into or out of the room or off the way to it.  *)
LEMMA ReservedMove ==
  ASSUME TypeOK, ReservedInv, NEW c \in Clients, NEW from, NEW to, Goto(c, from, to),
         from \in InRoom <=> to \in InRoom, from \in OnTheWay => to \in OnTheWay,
         UNCHANGED <<queue, current_gender, streak>>
  PROVE  ReservedInv'
<1>1. /\ pc[c] = from /\ pc'[c] = to
      /\ \A d \in Clients : d # c => pc'[d] = pc[d]
  BY DEF Goto, TypeOK
<1>2. \A d \in Clients : /\ pc'[d] \in InRoom <=> pc[d] \in InRoom
                         /\ pc[d] \in OnTheWay => pc'[d] \in OnTheWay
  BY <1>1
<1> QED
  BY <1>2 DEF ReservedInv

(* A client refused by one of the two checks leaves the room to others.    *)
LEMMA ReservedRefuse ==
  ASSUME IInv, ReservedInv, NobodyKilled, NEW c \in Clients, NEW from \in {"check", "recheck"},
         NEW to \in {"queue", "return_cap"}, Goto(c, from, to), ~Allow(Gender(c)),
         UNCHANGED <<queue, current_gender, streak>>
  PROVE  ReservedInv'
<1>1. /\ pc[c] = from /\ pc'[c] = to
      /\ \A d \in Clients : d # c => pc'[d] = pc[d]
  BY DEF Goto, IInv, TypeOK
<1>2. \A d \in Clients : pc'[d] \in InRoom <=> pc[d] \in InRoom
  BY <1>1 DEF InRoom
<1>3. ASSUME NEW g \in Genders, current_gender = g
      PROVE  \/ queue[g] > 0
             \/ \E d \in Clients : Gender(d) = g /\ pc'[d] \in OnTheWay
  <2>1. CASE Gender(c) = g
    BY <1>2, <1>3, <2>1, Refused DEF OnTheWay
  <2>2. CASE Gender(c) # g
    BY <1>1, <1>3, <2>2 DEF ReservedInv
  <2> QED
    BY <2>1, <2>2
<1> QED
  BY <1>2, <1>3 DEF ReservedInv

LEMMA ReservedStep ==
  ASSUME IInv, ReservedInv, NobodyKilled, NEW c \in Clients, ClientOnce(c)
  PROVE  ReservedInv'
<1>1. TypeOK /\ GenderInv /\ CountersExact /\ Gender(c) \in Genders
  BY OfGender DEF IInv
<1>2. CASE WakeUp(c)
  <2>1. /\ pc' = [pc EXCEPT ![c] = "enter"] /\ pc[c] = "queue"
        /\ queue' = [queue EXCEPT ![Gender(c)] = @ - 1]
        /\ current_gender' = current_gender /\ streak' = streak
    BY <1>2 DEF WakeUp, Goto, shared
  <2>2. /\ \A d \in Clients : /\ pc'[d] \in InRoom <=> pc[d] \in InRoom
                              /\ pc[d] \in OnTheWay => pc'[d] \in OnTheWay
        /\ pc'[c] \in OnTheWay
        /\ \A g \in Genders : g # Gender(c) => queue'[g] = queue[g]
    BY <1>1, <2>1 DEF TypeOK, InRoom, OnTheWay
  <2> QED
    BY <1>1, <2>1, <2>2 DEF ReservedInv
<1>3. CASE RecheckAllowed(c)
  <2>1. /\ pc' = [pc EXCEPT ![c] = "shower"] /\ pc[c] = "recheck"
        /\ current_gender' = Gender(c) /\ queue' = queue
        /\ streak' = [streak EXCEPT ![Gender(c)] = @ + 1, ![Other(Gender(c))] = 0]
        /\ current_gender \in {"NONE", Gender(c)}
    BY <1>3 DEF RecheckAllowed, Goto, Allow2, Allow
  <2>2. \A g \in Genders : g # Gender(c) => streak'[g] = 0
    BY <1>1, <2>1 DEF TypeOK, Genders, Other
  <2>3. \A d \in Clients : pc'[d] \in InRoom => Gender(d) = Gender(c)
    BY <1>1, <2>1, OfGender DEF ReservedInv, TypeOK, Genders
  <2> QED
    BY <1>1, <2>1, <2>2, <2>3 DEF ReservedInv, TypeOK, InRoom, OnTheWay
<1>4. CASE SwitchRoom(c)
  <2>1. /\ pc' = [pc EXCEPT ![c] = "done"] /\ pc[c] = "switch"
    BY <1>4 DEF SwitchRoom, Goto
  <2>2. ASSUME RoomEmpty
        PROVE  \A d \in Clients : pc'[d] \notin InRoom
    <3>1. \A g \in Genders : CountedIn(g) = {}
      BY <1>1, <2>2, Finite, FS_EmptySet DEF RoomEmpty, CountersExact
    <3>2. \A d \in Clients : pc[d] \notin {"shower", "leave"}
      BY <3>1, OfGender DEF CountedIn, At
    <3>3. \A d \in Clients : pc[d] = "switch" => d = c
      BY <2>1 DEF IInv, MutexInv, Critical
    <3> QED
      BY <1>1, <2>1, <3>2, <3>3 DEF InRoom, TypeOK
  <2>3. CASE ~RoomEmpty
    <3>1. UNCHANGED <<queue, current_gender, streak>>
      BY <1>4, <2>3 DEF SwitchRoom
    <3>2. PICK g \in Genders : in[g] # 0
      BY <2>3 DEF RoomEmpty
    <3>3. CountedIn(g) # {}
      BY <1>1, <3>2, FS_EmptySet DEF CountersExact
    <3>4. PICK d \in Clients : Gender(d) = g /\ pc[d] \in {"shower", "leave"}
      BY <3>3, OfGender DEF CountedIn, At, NobodyKilled, Deaths
    <3>5. d # c /\ pc'[d] = pc[d] /\ pc[d] \in InRoom
      BY <1>1, <2>1, <3>4 DEF TypeOK, InRoom
    <3>6. current_gender = g /\ Gender(c) = g
      BY <2>1, <3>4, <3>5 DEF ReservedInv, InRoom
    <3>7. \A e \in Clients : pc'[e] \in InRoom => pc[e] \in InRoom
      BY <1>1, <2>1 DEF TypeOK, InRoom
    <3>8. \A h \in Genders : streak[h] > 0 => h = g
      BY <3>6 DEF ReservedInv
    <3> QED
      BY <3>1, <3>4, <3>5, <3>6, <3>7, <3>8 DEF ReservedInv, OnTheWay
  <2>4. CASE RoomEmpty /\ FreeRoom
    <3>1. \A g \in Genders : streak'[g] = 0 /\ current_gender' # g
      BY <2>4 DEF FreeRoom, Genders
    <3> QED
      BY <2>2, <2>4, <3>1 DEF ReservedInv
  <2>5. CASE RoomEmpty /\ \E g \in HandedTo : WakeLocked(g)
    <3>1. PICK g \in HandedTo : WakeLocked(g)
      BY <2>5
    <3>2. g \in Genders /\ wait[g] > 0
      BY <1>1, HandedToGender DEF HandedTo, Waiting
    <3>3. queue'[g] > 0
      BY <1>1, <3>1, <3>2 DEF WakeLocked, TypeOK
    <3> QED
      BY <2>2, <2>5, <3>1, <3>2, <3>3 DEF WakeLocked, ReservedInv
  <2> QED
    BY <1>4, <2>3, <2>4, <2>5 DEF SwitchRoom
<1>5. CASE CheckRefused(c)
  BY <1>5, ReservedRefuse DEF CheckRefused, JoinQueue
<1>6. CASE RecheckRefused(c)
  BY <1>6, ReservedRefuse DEF RecheckRefused, Allow2, shared
<1>7. CASE Lock(c, "enter", "check") \/ Lock(c, "recheck_lock", "recheck")
             \/ Lock(c, "requeue_lock", "requeue") \/ Lock(c, "shower", "leave")
  BY <1>1, <1>7, ReservedMove DEF Lock, InRoom, OnTheWay, shared
<1>8. CASE CheckAllowed(c) \/ TakeCap(c) \/ ReturnCap(c) \/ LeaveRoom(c)
             \/ JoinQueue(c, "requeue")
  BY <1>1, <1>8, ReservedMove DEF CheckAllowed, TakeCap, ReturnCap, LeaveRoom, JoinQueue,
     InRoom, OnTheWay, shared
<1> QED
  BY <1>2, <1>3, <1>4, <1>5, <1>6, <1>7, <1>8 DEF ClientOnce, EnterGender, LeaveGender

LEMMA OvertakingStep ==
  ASSUME TypeOK, OvertakingInv, NEW c \in Clients, ClientOnce(c)
  PROVE  OvertakingInv'
<1>1. Gender(c) \in Genders /\ MaxStreak \in Nat \ {0}
  BY OfGender, ShowerAssumption
<1>2. CASE RecheckAllowed(c)
  <2> DEFINE g == Gender(c)
             o == Other(g)
  <2>1. /\ g \in Genders /\ o \in Genders /\ g # o /\ Other(o) = g
        /\ \A h \in Genders : h = g \/ h = o
    BY <1>1 DEF Genders, Other
  <2>2. /\ current_gender \in {"NONE", g} /\ current_gender' = g
        /\ streak' = [streak EXCEPT ![g] = @ + 1, ![o] = 0]
        /\ overtaken' = [overtaken EXCEPT ![o] = IF wait[o] > 0 THEN @ + 1 ELSE 0]
        /\ wait' = wait /\ turn' = turn
        /\ streak[g] < MaxStreak \/ wait[o] = 0
    BY <1>1, <1>2, <2>1 DEF RecheckAllowed, Allow2, Allow, FairnessBlock, TypeOK, Genders
  <2>3. /\ streak'[o] = 0 /\ streak'[g] = streak[g] + 1
        /\ overtaken'[g] = overtaken[g]
        /\ overtaken'[o] = IF wait[o] > 0 THEN overtaken[o] + 1 ELSE 0
    BY <2>1, <2>2 DEF TypeOK
  <2>4. overtaken[g] = 0
    BY <2>1, <2>2 DEF OvertakingInv, TypeOK, Genders
  <2>5. overtaken'[o] > 0 =>
          /\ wait[o] > 0 /\ streak'[g] <= MaxStreak
          /\ overtaken'[o] <= streak'[g] + IF turn = o THEN MaxStreak ELSE 0
    <3>1. ASSUME wait[o] > 0
          PROVE  /\ streak'[g] <= MaxStreak
                 /\ overtaken'[o] <= streak'[g] + IF turn = o THEN MaxStreak ELSE 0
      <4>1. /\ streak[g] \in Nat /\ streak[o] \in Nat /\ wait[o] \in Nat
            /\ overtaken[o] \in Nat
        BY <2>1 DEF TypeOK
      <4>2. overtaken[o] <= streak[g] + IF turn = o THEN MaxStreak ELSE 0
        BY <1>1, <2>1, <4>1 DEF OvertakingInv
      <4> QED
        BY <1>1, <2>2, <2>3, <3>1, <4>1, <4>2
    <3>2. wait[o] <= 0 => overtaken'[o] = 0
      BY <2>1, <2>3 DEF TypeOK
    <3> QED
      BY <2>1, <3>1, <3>2 DEF TypeOK
  <2> QED
    <3>1. \A h \in Genders : overtaken'[h] > 0 => h = o
      BY <2>1, <2>3, <2>4
    <3>2. overtaken'[o] > 0 =>
            /\ wait'[o] > 0 /\ current_gender' = g /\ streak'[o] = 0 /\ streak'[g] <= MaxStreak
            /\ overtaken'[o] <= streak'[g] + IF turn' = o THEN MaxStreak ELSE 0
      BY <2>2, <2>3, <2>5
    <3> HIDE DEF o, g
    <3> QED
      BY <2>1, <3>1, <3>2 DEF OvertakingInv
<1>3. CASE SwitchRoom(c)
  <2>1. CASE UNCHANGED <<queue, wait, current_gender, streak, turn, overtaken>>
    BY <2>1, SMTT(20) DEF OvertakingInv
  <2>2. CASE Waiting = {} /\ FreeRoom
    <3>1. \A g \in Genders : ~(overtaken[g] > 0)
      BY <2>2 DEF Waiting, OvertakingInv
    <3>2. overtaken' = overtaken
      BY <2>2 DEF FreeRoom
    <3> QED
      BY <3>1, <3>2 DEF OvertakingInv
  <2>3. ASSUME NEW g \in HandedTo, WakeLocked(g)
        PROVE  OvertakingInv'
    <3> DEFINE o == Other(g)
    <3>1. /\ g \in Genders /\ o \in Genders /\ g # o /\ Other(o) = g
          /\ \A h \in Genders : h = g \/ h = o
      BY HandedToGender DEF Genders, Other
    <3>2. /\ current_gender' = g /\ turn' = o
          /\ wait'[o] = wait[o] /\ overtaken'[o] = overtaken[o] /\ overtaken'[g] = 0
          /\ streak'[g] = 0 /\ streak'[o] = 0
      BY <2>3, <3>1 DEF WakeLocked, TypeOK
    <3>3. overtaken[o] > 0 => overtaken[o] <= MaxStreak
      <4>1. SUFFICES ASSUME overtaken[o] > 0 PROVE overtaken[o] <= MaxStreak
        OBVIOUS
      <4>2. /\ streak[o] = 0 /\ streak[g] <= MaxStreak /\ wait[o] > 0
            /\ overtaken[o] <= streak[g] + IF turn = o THEN MaxStreak ELSE 0
        BY <3>1, <4>1 DEF OvertakingInv
      <4>3. wait[g] > 0
        BY <3>1 DEF HandedTo, Waiting, Contended, Genders
      <4>4. g = Contended
        BY <3>1, <4>2, <4>3 DEF HandedTo, Waiting
      <4>5. turn = g /\ streak[g] < MaxStreak
        BY <1>1, <3>1, <4>2, <4>4 DEF Contended, Genders, Other, TypeOK
      <4> QED
        BY <1>1, <3>1, <4>2, <4>5 DEF TypeOK
    <3> QED
      BY <1>1, <3>1, <3>2, <3>3 DEF OvertakingInv, TypeOK
  <2> QED
    BY <1>3, <2>1, <2>2, <2>3 DEF SwitchRoom
<1>4. CASE \E from \in {"check", "requeue"} : JoinQueue(c, from)
  BY <1>1, <1>4 DEF JoinQueue, OvertakingInv, TypeOK
<1>5. CASE UNCHANGED <<wait, current_gender, streak, turn, overtaken>>
  BY <1>5 DEF OvertakingInv
<1> QED
  BY <1>2, <1>3, <1>4, <1>5 DEF ClientOnce, EnterGender, LeaveGender, Lock, CheckAllowed,
     CheckRefused, TakeCap, RecheckRefused, ReturnCap, WakeUp, LeaveRoom, shared

LEMMA PromiseStep == IInv /\ PromiseInv /\ [Next]_vars => PromiseInv'
<1> SUFFICES ASSUME IInv, PromiseInv, [Next]_vars, NobodyKilled'
             PROVE  ReservedInv' /\ OvertakingInv'
  BY DEF PromiseInv
<1>1. TypeOK
  BY DEF IInv
<1>2. NobodyKilled /\ ReservedInv /\ OvertakingInv
  BY <1>1, NoDeath DEF PromiseInv
<1>3. CASE \E c \in Clients : ClientOnce(c)
  BY <1>1, <1>2, <1>3, ReservedStep, OvertakingStep
<1>4. CASE UNCHANGED vars
  BY <1>2, <1>4 DEF vars, shared, ReservedInv, OvertakingInv
<1> QED
  BY <1>1, <1>3, <1>4, NoDeath

(* While no client is killed, a room that is taken has somebody in it or on *)
(* the way to it, and streak and turn bound what an overtaking can cost.   *)
THEOREM Promises == Spec => []PromiseInv
<1>1. Init => PromiseInv
  BY DEF Init, PromiseInv, ReservedInv, OvertakingInv, InRoom, OnTheWay, Genders
<1> QED
  BY <1>1, PromiseStep, Inductive, PTL DEF Spec

(* A room reserved for a gender is never abandoned.                        *)
THEOREM Reserved == Spec => []ReservedForSomeone
<1>1. PromiseInv => ReservedForSomeone
  BY OfGender DEF PromiseInv, ReservedInv, ReservedForSomeone, OnTheWay, InRoom, At
<1> QED
  BY <1>1, Promises, PTL

(* The clients counted as waiting are overtaken at most 2 * MaxStreak      *)
(* times before a switch wakes them.                                       *)
THEOREM Overtaking == Spec => []OvertakingBounded
<1>1. TypeOK /\ PromiseInv => OvertakingBounded
  <2> SUFFICES ASSUME TypeOK, OvertakingInv, NEW g \in Genders
               PROVE  overtaken[g] <= 2 * MaxStreak
    BY DEF PromiseInv, OvertakingBounded
  <2>1. /\ MaxStreak \in Nat /\ overtaken[g] \in Nat
        /\ Other(g) \in Genders /\ streak[Other(g)] \in Nat
    BY ShowerAssumption DEF TypeOK, Genders, Other
  <2> QED
    BY <2>1 DEF OvertakingInv
<1> QED
  BY <1>1, TypeCorrect, Promises, PTL
=============================================================================
