--------------------------- MODULE AssemblyProofs ---------------------------
(***************************************************************************)
(* Proofs about Assembly, for any number of workers and any target.  The   *)
(* two slot semaphores are shown to account for every place on the device; *)
(* that a device is never replaced under a worker follows from it, and so  *)
(* does that the stand stops at the target.                                *)
(***************************************************************************)
EXTENDS Assembly, FiniteSetTheorems, TLAPS

\* the labels where a worker holds SEM_MUTEX
Critical == {"test", "install", "open_nuts", "open_screw", "settle"}

MutexInv ==
  /\ \A w \in Workers : pc[w] \in Critical => mutex = 0
  /\ \A v, w \in Workers : pc[v] \in Critical /\ pc[w] \in Critical => v = w

IInv == TypeOK /\ MutexInv /\ SlotsExact /\ FreshDevice

-----------------------------------------------------------------------------
(* Who is at a label is a finite set of processes.                         *)
LEMMA AtFinite ==
  ASSUME NEW D, IsFiniteSet(D), NEW at, NEW L
  PROVE  IsFiniteSet(At(at, D, L)) /\ Cardinality(At(at, D, L)) \in Nat
<1>1. At(at, D, L) \subseteq D
  BY DEF At
<1> QED
  BY <1>1, FS_Subset, FS_CardinalityType

(* When one process moves from one label to another, the number of         *)
(* processes of D at the labels L changes by what it crosses.              *)
LEMMA AtMove ==
  ASSUME NEW D, IsFiniteSet(D), NEW L, NEW P, NEW Q, D \subseteq P,
         NEW at \in [P -> Q], NEW p \in P, NEW to,
         NEW at2, at2 = [at EXCEPT ![p] = to]
  PROVE  Cardinality(At(at2, D, L))
           = Cardinality(At(at, D, L)) + Crossing(p \in D, at[p], to, L)
<1>1. IsFiniteSet(At(at, D, L)) /\ Cardinality(At(at, D, L)) \in Nat
  BY AtFinite
<1>2. CASE p \in D /\ at[p] \notin L /\ to \in L
  <2>1. At(at2, D, L) = At(at, D, L) \cup {p} /\ p \notin At(at, D, L)
    BY <1>2 DEF At
  <2>2. Cardinality(At(at2, D, L)) = Cardinality(At(at, D, L)) + 1
    BY <1>1, <2>1, FS_AddElement
  <2> QED
    BY <1>2, <2>2 DEF Crossing
<1>3. CASE p \in D /\ at[p] \in L /\ to \notin L
  <2>1. At(at2, D, L) = At(at, D, L) \ {p} /\ p \in At(at, D, L)
    BY <1>3 DEF At
  <2>2. Cardinality(At(at2, D, L)) = Cardinality(At(at, D, L)) - 1
    BY <1>1, <2>1, FS_RemoveElement
  <2> QED
    BY <1>1, <1>3, <2>2 DEF Crossing
<1>4. CASE p \notin D \/ (at[p] \in L <=> to \in L)
  <2>1. At(at2, D, L) = At(at, D, L)
    BY <1>4 DEF At
  <2> QED
    BY <1>1, <1>4, <2>1 DEF Crossing
<1> QED
  BY <1>2, <1>3, <1>4

LEMMA Tools ==
  /\ IsFiniteSet(Workers)
  /\ \A p \in Parts : Of(p) \in SUBSET Workers /\ IsFiniteSet(Of(p)) /\ Limit[p] \in Nat
  /\ Limit["nut"] = 2 /\ Limit["screw"] = 1
  /\ \A w \in Workers : Part(w) \in Parts
  /\ \A w \in Workers : \A p \in Parts : w \in Of(p) <=> Part(w) = p
  BY AssemblyAssumption, FS_Union DEF Workers, Of, Parts, Part, Limit

LEMMA Finite ==
  /\ \A p \in Parts : IsFiniteSet(Holders(p)) /\ Cardinality(Holders(p)) \in Nat
  /\ \A L : IsFiniteSet(At(pc, Workers, L)) /\ Cardinality(At(pc, Workers, L)) \in Nat
  /\ \A p \in Parts : Pending(p) \in Nat
<1>1. \A L : IsFiniteSet(At(pc, Workers, L)) /\ Cardinality(At(pc, Workers, L)) \in Nat
  BY Tools, AtFinite
<1>2. \A p \in Parts : IsFiniteSet(Holders(p)) /\ Cardinality(Holders(p)) \in Nat
  BY Tools, AtFinite DEF Holders
<1>3. \A p \in Parts : Pending(p) \in Nat
  BY <1>1 DEF Pending
<1> QED
  BY <1>1, <1>2, <1>3

(* What a step of worker w does to the sets SlotsExact counts.             *)
LEMMA Counts ==
  ASSUME NEW w \in Workers, NEW from, NEW to, pc \in [Workers -> Labels], Goto(w, from, to)
  PROVE  /\ \A p \in Parts :
              Cardinality(Holders(p)') = Cardinality(Holders(p))
                + Crossing(p = Part(w), from, to, {"lock", "test", "give_back", "work", "install"})
         /\ Cardinality(At(pc, Workers, {"open_nuts"})')
              = Cardinality(At(pc, Workers, {"open_nuts"}))
                + Crossing(TRUE, from, to, {"open_nuts"})
         /\ Cardinality(At(pc, Workers, {"open_nuts", "open_screw"})')
              = Cardinality(At(pc, Workers, {"open_nuts", "open_screw"}))
                + Crossing(TRUE, from, to, {"open_nuts", "open_screw"})
<1>1. pc[w] = from /\ pc' = [pc EXCEPT ![w] = to]
  BY DEF Goto
<1>2. ASSUME NEW D \in SUBSET Workers, IsFiniteSet(D), NEW L
      PROVE  Cardinality(At(pc', D, L))
               = Cardinality(At(pc, D, L)) + Crossing(w \in D, from, to, L)
  <2>1. D \subseteq Workers
    OBVIOUS
  <2>2. Cardinality(At(pc', D, L))
          = Cardinality(At(pc, D, L)) + Crossing(w \in D, pc[w], to, L)
    BY <1>1, <1>2, <2>1, AtMove
  <2> QED
    BY <1>1, <2>2
<1>3. \A p \in Parts : /\ Of(p) \in SUBSET Workers /\ IsFiniteSet(Of(p))
                       /\ w \in Of(p) <=> p = Part(w)
  BY Tools
<1>4. ASSUME NEW p \in Parts
      PROVE  Cardinality(Holders(p)') = Cardinality(Holders(p))
               + Crossing(p = Part(w), from, to, {"lock", "test", "give_back", "work", "install"})
  BY <1>2, <1>3 DEF Holders, Crossing
<1>5. ASSUME NEW L
      PROVE  Cardinality(At(pc', Workers, L))
               = Cardinality(At(pc, Workers, L)) + Crossing(TRUE, from, to, L)
  BY <1>2, Tools DEF Crossing
<1> QED
  BY <1>4, <1>5

LEMMA InitIInv == Init => IInv
<1> SUFFICES ASSUME Init PROVE IInv
  OBVIOUS
<1>1. /\ \A p \in Parts : Holders(p) = {}
      /\ \A L : "loop" \notin L => At(pc, Workers, L) = {}
  BY Tools DEF Init, Holders, At
<1>2. \A p \in Parts : Cardinality(Holders(p)) = 0 /\ Pending(p) = 0
  BY <1>1, FS_EmptySet DEF Pending
<1>3. SlotsExact
  BY <1>2, Tools DEF Init, SlotsExact
<1>4. TypeOK
  <2>1. Limit \in [Parts -> Nat]
    BY DEF Limit
  <2>2. pc \in [Workers -> Labels] /\ dev \in [Workers -> Nat]
    BY DEF Init, Labels
  <2>3. slots \in [Parts -> Nat] /\ placed \in [Parts -> Nat]
    BY <2>1 DEF Init
  <2>4. mutex \in 0..1 /\ device_id \in Nat /\ completed \in Nat
    BY DEF Init
  <2>5. stop \in BOOLEAN
    BY Zenon DEF Init
  <2> QED
    BY <2>2, <2>3, <2>4, <2>5 DEF TypeOK
<1> QED
  BY <1>3, <1>4 DEF IInv, Init, MutexInv, Critical, FreshDevice, At

\* how the mutex may change with a step between two labels
MutexStep(from, to) ==
  \/ from \notin Critical /\ to \in Critical /\ mutex > 0 /\ mutex' = mutex - 1
  \/ from \in Critical /\ to \notin Critical /\ mutex' = mutex + 1
  \/ (from \in Critical <=> to \in Critical) /\ mutex' = mutex

LEMMA MutexMove ==
  ASSUME TypeOK, MutexInv, NEW w \in Workers, NEW from, NEW to, Goto(w, from, to),
         MutexStep(from, to)
  PROVE  mutex' \in 0..1 /\ MutexInv'
<1>1. /\ pc[w] = from /\ pc'[w] = to
      /\ \A v \in Workers : v # w => pc'[v] = pc[v]
  BY DEF Goto, TypeOK
<1>2. mutex \in {0, 1}
  BY DEF TypeOK
<1> QED
  BY <1>1, <1>2 DEF MutexInv, MutexStep

(* FreshDevice is kept by a step that does not change device_id, if the    *)
(* worker that moves only gets to work by reading it.                      *)
LEMMA FreshMove ==
  ASSUME TypeOK, FreshDevice, NEW w \in Workers, NEW from, NEW to, Goto(w, from, to),
         device_id' = device_id,
         \/ dev' = [dev EXCEPT ![w] = device_id]
         \/ /\ dev' = dev
            /\ to \in {"work", "install"} => from \in {"work", "install"}
  PROVE  FreshDevice'
  BY DEF TypeOK, FreshDevice, At, Goto

(* A step that leaves the slots and the device alone and crosses none of   *)
(* the places SlotsExact counts.                                           *)
LEMMA QuietStep ==
  ASSUME IInv, NEW w \in Workers, NEW from, NEW to \in Labels, Goto(w, from, to),
         MutexStep(from, to),
         \A L \in {{"lock", "test", "give_back", "work", "install"},
                   {"open_nuts"}, {"open_nuts", "open_screw"}} :
           from \in L <=> to \in L,
         UNCHANGED <<slots, device>>,
         stop' \in BOOLEAN,
         \/ dev' = [dev EXCEPT ![w] = device_id]
         \/ /\ dev' = dev
            /\ to \in {"work", "install"} => from \in {"work", "install"}
  PROVE  IInv'
<1>1. TypeOK /\ MutexInv /\ SlotsExact /\ FreshDevice
  BY DEF IInv
<1>2. mutex' \in 0..1 /\ MutexInv'
  BY <1>1, MutexMove
<1>3. TypeOK'
  <2>1. dev' \in [Workers -> Nat]
    BY <1>1 DEF TypeOK
  <2> QED
    BY <1>1, <1>2, <2>1 DEF TypeOK, Goto, device
<1>4. FreshDevice'
  BY <1>1, FreshMove DEF device
<1>5. /\ \A p \in Parts : Holders(p)' = Holders(p)
      /\ \A p \in Parts : Pending(p)' = Pending(p)
  <2>1. \A p \in Parts : Of(p) \in SUBSET Workers
    BY Tools
  <2> QED
    BY <1>1, <2>1 DEF TypeOK, Goto, Holders, Pending, At
<1>6. SlotsExact'
  BY <1>1, <1>5 DEF SlotsExact, device
<1> QED
  BY <1>2, <1>3, <1>4, <1>6 DEF IInv

LEMMA TakeSlotIInv ==
  ASSUME IInv, NEW w \in Workers, TakeSlot(w)
  PROVE  IInv'
<1>1. /\ TypeOK /\ MutexInv /\ SlotsExact /\ FreshDevice
      /\ Goto(w, "slot", "lock") /\ Part(w) \in Parts
  BY Tools DEF IInv, TakeSlot
<1>2. mutex' \in 0..1 /\ MutexInv'
  BY <1>1, MutexMove DEF TakeSlot, MutexStep, Critical
<1>3. TypeOK'
  BY <1>1, <1>2 DEF TypeOK, TakeSlot, Goto, Labels, device
<1>4. FreshDevice'
  BY <1>1, FreshMove DEF TakeSlot, device
<1>5. \A p \in Parts :
        /\ Cardinality(Holders(p)') = Cardinality(Holders(p)) + (IF p = Part(w) THEN 1 ELSE 0)
        /\ Pending(p)' = Pending(p)
  BY <1>1, Counts, Finite DEF TypeOK, Crossing, Pending
<1>6. SlotsExact'
  BY <1>1, <1>5, Finite, Tools DEF SlotsExact, TakeSlot, TypeOK, device
<1> QED
  BY <1>2, <1>3, <1>4, <1>6 DEF IInv

LEMMA GiveBackIInv ==
  ASSUME IInv, NEW w \in Workers, GiveBack(w)
  PROVE  IInv'
<1>1. /\ TypeOK /\ MutexInv /\ SlotsExact /\ FreshDevice
      /\ Goto(w, "give_back", "exited") /\ Part(w) \in Parts
  BY Tools DEF IInv, GiveBack
<1>2. mutex' \in 0..1 /\ MutexInv'
  BY <1>1, MutexMove DEF GiveBack, MutexStep, Critical
<1>3. TypeOK'
  BY <1>1, <1>2 DEF TypeOK, GiveBack, Goto, Labels, device
<1>4. FreshDevice'
  BY <1>1, FreshMove DEF GiveBack, device
<1>5. \A p \in Parts :
        /\ Cardinality(Holders(p)') = Cardinality(Holders(p)) - (IF p = Part(w) THEN 1 ELSE 0)
        /\ Pending(p)' = Pending(p)
  BY <1>1, Counts, Finite DEF TypeOK, Crossing, Pending
<1>6. SlotsExact'
  BY <1>1, <1>5, Finite, Tools DEF SlotsExact, GiveBack, TypeOK, device
<1> QED
  BY <1>2, <1>3, <1>4, <1>6 DEF IInv

(* Opening the slots of one part moves them from pending to free.          *)
LEMMA OpenSlotsIInv ==
  ASSUME IInv, NEW w \in Workers,
         \/ OpenSlots(w, "nut", "open_nuts", "open_screw")
         \/ OpenSlots(w, "screw", "open_screw", "settle")
  PROVE  IInv'
<1>1. TypeOK /\ MutexInv /\ SlotsExact /\ FreshDevice
  BY DEF IInv
<1>2. PICK part \in Parts, from \in Labels, to \in Labels :
        /\ OpenSlots(w, part, from, to)
        /\ \/ part = "nut" /\ from = "open_nuts" /\ to = "open_screw"
           \/ part = "screw" /\ from = "open_screw" /\ to = "settle"
  BY DEF Parts, Labels
<1>3. Goto(w, from, to)
  BY <1>2 DEF OpenSlots
<1>4. mutex' \in 0..1 /\ MutexInv'
  BY <1>1, <1>2, <1>3, MutexMove DEF OpenSlots, MutexStep, Critical
<1>5. TypeOK'
  <2>1. slots' \in [Parts -> Nat]
    BY <1>1, <1>2, Tools DEF OpenSlots, TypeOK
  <2> QED
    BY <1>1, <1>2, <1>3, <1>4, <2>1 DEF TypeOK, OpenSlots, Goto, device
<1>6. FreshDevice'
  BY <1>1, <1>2, <1>3, FreshMove DEF OpenSlots, device
<1>7. \A p \in Parts :
        /\ Cardinality(Holders(p)') = Cardinality(Holders(p))
        /\ Pending(p)' = Pending(p) - (IF p = part THEN Limit[p] ELSE 0)
  <2>1. CASE part = "nut"
    BY <1>1, <1>2, <1>3, <2>1, Counts, Finite, Tools DEF TypeOK, Crossing, Pending, Parts
  <2>2. CASE part = "screw"
    BY <1>1, <1>2, <1>3, <2>2, Counts, Finite, Tools DEF TypeOK, Crossing, Pending, Parts
  <2> QED
    BY <2>1, <2>2 DEF Parts
<1>8. SlotsExact'
  BY <1>1, <1>2, <1>7, Finite, Tools DEF SlotsExact, OpenSlots, TypeOK, device
<1> QED
  BY <1>4, <1>5, <1>6, <1>8 DEF IInv

(* A worker about to count its part still holds the place for it.          *)
LEMMA Fits ==
  ASSUME IInv, NEW w \in Workers, pc[w] = "install"
  PROVE  /\ Cardinality(Holders(Part(w))) >= 1
         /\ ~Exceeded([placed EXCEPT ![Part(w)] = @ + 1])
<1> DEFINE part == Part(w)
           count == [placed EXCEPT ![part] = @ + 1]
<1>1. TypeOK /\ SlotsExact /\ part \in Parts
  BY Tools DEF IInv
<1>2. Cardinality(Holders(part)) >= 1
  <2>1. w \in Holders(part)
    BY <1>1, Tools DEF Holders, At
  <2> QED
    BY <1>1, <2>1, Finite, FS_EmptySet
<1>3. \A p \in Parts : count[p] \in Nat /\ count[p] <= Limit[p]
  BY <1>1, <1>2, Finite, Tools DEF SlotsExact, TypeOK
<1>4. ~Exceeded(count)
  BY <1>3, Tools DEF Exceeded, Parts
<1> QED
  BY <1>2, <1>4

(* Counting a part.  By SlotsExact the worker's own place is still empty,  *)
(* so no limit is exceeded; and when the part is the last one, the worker  *)
(* is the only one that holds a slot, so nobody's device is replaced.      *)
LEMMA InstallIInv ==
  ASSUME IInv, NEW w \in Workers, Install(w)
  PROVE  IInv'
<1> DEFINE part == Part(w)
           count == [placed EXCEPT ![part] = @ + 1]
<1>1. /\ TypeOK /\ MutexInv /\ SlotsExact /\ FreshDevice
      /\ pc[w] = "install" /\ part \in Parts
      /\ slots' = slots /\ dev' = dev
  BY Tools DEF IInv, Install
<1>2. Cardinality(Holders(part)) >= 1
  BY <1>1, Fits
<1>4. ~Exceeded(count)
  BY <1>1, Fits
<1>5. CASE Finished(count)
  <2>1. /\ Goto(w, "install", "open_nuts")
        /\ completed' = completed + 1 /\ device_id' = device_id + 1
        /\ placed' = [p \in Parts |-> 0]
        /\ mutex' = mutex /\ stop' = stop
    BY <1>1, <1>4, <1>5 DEF Install, Goto
  <2>2. mutex' \in 0..1 /\ MutexInv'
    BY <1>1, <2>1, MutexMove DEF MutexStep, Critical
  <2>3. TypeOK'
    BY <1>1, <2>1, <2>2 DEF TypeOK, Goto, Labels
  <2>4. \A p \in Parts : count[p] = Limit[p]
    BY <1>5, Tools DEF Finished, Parts
  <2>5. \A p \in Parts :
          /\ slots[p] = 0 /\ Pending(p) = 0
          /\ Cardinality(Holders(p)) = IF p = part THEN 1 ELSE 0
    <3> TAKE p \in Parts
    <3>1. placed[p] = Limit[p] - (IF p = part THEN 1 ELSE 0)
      BY <1>1, <2>4, Tools DEF TypeOK
    <3>2. slots[p] + Cardinality(Holders(p)) + Pending(p) = IF p = part THEN 1 ELSE 0
      <4>1. slots[p] \in Nat /\ placed[p] \in Nat /\ Limit[p] \in Nat
        BY <1>1, Tools DEF TypeOK
      <4>2. slots[p] + Cardinality(Holders(p)) + placed[p] + Pending(p) = Limit[p]
        BY <1>1 DEF SlotsExact
      <4>3. Cardinality(Holders(p)) \in Nat /\ Pending(p) \in Nat
        BY Finite
      <4> QED
        BY <3>1, <4>1, <4>2, <4>3
    <3> QED
      BY <1>1, <1>2, <3>2, Finite DEF TypeOK
  <2>6. \A p \in Parts : Cardinality(Holders(p)') = 0 /\ Pending(p)' = Limit[p]
    <3>1. \A p \in Parts : Cardinality(Holders(p)') = 0
      BY <1>1, <2>1, <2>5, Counts DEF TypeOK, Crossing
    <3>2. /\ 2 * Cardinality(At(pc, Workers, {"open_nuts"})) = 0
          /\ Cardinality(At(pc, Workers, {"open_nuts", "open_screw"})) = 0
      BY <2>5 DEF Pending, Parts
    <3>3. /\ Cardinality(At(pc, Workers, {"open_nuts"})') = 1
          /\ Cardinality(At(pc, Workers, {"open_nuts", "open_screw"})') = 1
      BY <1>1, <2>1, <3>2, Counts, Finite DEF TypeOK, Crossing
    <3> QED
      BY <3>1, <3>3, Tools DEF Pending, Parts
  <2>7. SlotsExact'
    BY <1>1, <2>1, <2>5, <2>6, Tools DEF SlotsExact
  <2>8. FreshDevice'
    <3>1. \A p \in Parts : Holders(p)' = {}
      <4>1. \A p \in Parts : IsFiniteSet(Holders(p)')
        BY Tools, AtFinite DEF Holders
      <4> QED
        BY <2>6, <4>1, FS_EmptySet
    <3>2. ASSUME NEW v \in Workers, pc'[v] \in {"work", "install"}
          PROVE  FALSE
      <4>1. Part(v) \in Parts /\ v \in Of(Part(v))
        BY Tools
      <4>2. v \in Holders(Part(v))'
        BY <3>2, <4>1 DEF Holders, At
      <4> QED
        BY <3>1, <4>1, <4>2
    <3> QED
      BY <3>2 DEF FreshDevice, At
  <2> QED
    BY <2>2, <2>3, <2>7, <2>8 DEF IInv
<1>6. CASE ~Finished(count)
  <2>1. /\ Goto(w, "install", "loop")
        /\ placed' = count /\ mutex' = mutex + 1
        /\ UNCHANGED <<device_id, completed, stop>>
    BY <1>1, <1>4, <1>6 DEF Install, Goto
  <2>2. mutex' \in 0..1 /\ MutexInv'
    BY <1>1, <2>1, MutexMove DEF MutexStep, Critical
  <2>3. TypeOK'
    BY <1>1, <2>1, <2>2 DEF TypeOK, Goto, Labels
  <2>4. FreshDevice'
    BY <1>1, <2>1, FreshMove
  <2>5. \A p \in Parts :
          /\ Cardinality(Holders(p)') = Cardinality(Holders(p)) - (IF p = part THEN 1 ELSE 0)
          /\ Pending(p)' = Pending(p)
    BY <1>1, <2>1, Counts, Finite DEF TypeOK, Crossing, Pending
  <2>6. SlotsExact'
    BY <1>1, <2>1, <2>5, Finite, Tools DEF SlotsExact, TypeOK
  <2> QED
    BY <2>2, <2>3, <2>4, <2>6 DEF IInv
<1> QED
  BY <1>5, <1>6

LEMMA NextIInv == IInv /\ [Next]_vars => IInv'
<1> SUFFICES ASSUME IInv, [Next]_vars PROVE IInv'
  OBVIOUS
<1>0. TypeOK
  BY DEF IInv
<1>1. ASSUME NEW w \in Workers, WorkerLoop(w)
      PROVE  IInv'
  <2>1. CASE Loop(w)
    <3>1. PICK to \in {"exited", "slot"} : Goto(w, "loop", to)
      BY <2>1 DEF Loop
    <3>2. UNCHANGED <<semaphores, device, stop, dev>>
      BY <2>1 DEF Loop
    <3> QED
      BY <1>0, <3>1, <3>2, QuietStep DEF Critical, MutexStep, Labels, semaphores, TypeOK
  <2>2. CASE TakeSlot(w)
    BY <2>2, TakeSlotIInv
  <2>3. CASE Lock(w, "lock", "test")
    BY <1>0, <2>3, QuietStep DEF Lock, Critical, MutexStep, Labels, TypeOK
  <2>4. CASE StopSeen(w)
    BY <1>0, <2>4, QuietStep DEF StopSeen, Critical, MutexStep, Labels, TypeOK
  <2>5. CASE GiveBack(w)
    BY <2>5, GiveBackIInv
  <2>6. CASE ReadDevice(w)
    BY <1>0, <2>6, QuietStep DEF ReadDevice, Critical, MutexStep, Labels, TypeOK
  <2>7. CASE Lock(w, "work", "install")
    BY <1>0, <2>7, QuietStep DEF Lock, Critical, MutexStep, Labels, TypeOK
  <2>8. CASE Install(w)
    BY <2>8, InstallIInv
  <2>9. CASE OpenSlots(w, "nut", "open_nuts", "open_screw")
    BY <2>9, OpenSlotsIInv
  <2>10. CASE OpenSlots(w, "screw", "open_screw", "settle")
    BY <2>10, OpenSlotsIInv
  <2>11. CASE Settle(w)
    BY <1>0, <2>11, QuietStep DEF Settle, Critical, MutexStep, Labels, TypeOK
  <2> QED
    BY <1>1, <2>1, <2>2, <2>3, <2>4, <2>5, <2>6, <2>7, <2>8, <2>9, <2>10, <2>11
       DEF WorkerLoop
<1>2. CASE UNCHANGED vars
  BY <1>2 DEF IInv, TypeOK, MutexInv, SlotsExact, FreshDevice, Holders, Pending, At,
              vars, semaphores, device
<1> QED
  BY <1>1, <1>2 DEF Next, Terminating
-----------------------------------------------------------------------------
(* Mutex, slots and devices of worker_loop agree in every reachable state:  *)
(* the invariant the theorems on the stand rest on.                        *)
THEOREM Inductive == Spec => []IInv
  BY InitIInv, NextIInv, PTL DEF Spec

(* Every semaphore and counter stays in its range.                         *)
THEOREM TypeCorrect == Spec => []TypeOK
<1>1. IInv => TypeOK
  BY DEF IInv
<1> QED
  BY <1>1, Inductive, PTL

(* Every place on the device is accounted for by the slot semaphores.      *)
THEOREM Slots == Spec => []SlotsExact
<1>1. IInv => SlotsExact
  BY DEF IInv
<1> QED
  BY <1>1, Inductive, PTL

(* The limits hold, so the error branch of worker_loop is dead code.       *)
THEOREM Limits == Spec => []WithinLimits
<1>1. IInv => WithinLimits
  BY Finite, Tools DEF IInv, TypeOK, SlotsExact, WithinLimits
<1> QED
  BY <1>1, Inductive, PTL

(* No worker's device is replaced while it works on it.                    *)
THEOREM Fresh == Spec => []FreshDevice
<1>1. IInv => FreshDevice
  BY DEF IInv
<1> QED
  BY <1>1, Inductive, PTL

-----------------------------------------------------------------------------
(***************************************************************************)
(* The end of the shift.  From the part that completes the last device to  *)
(* the flag that says so, the worker that put it holds the mutex, and      *)
(* nobody else is past the test of stop.                                   *)
(***************************************************************************)

TargetInv ==
  /\ completed <= Target
  /\ stop => completed = Target
  /\ completed = Target =>
       /\ \A p \in Parts : placed[p] = 0
       /\ \A w \in Workers : pc[w] \notin {"work", "install"}
       /\ stop \/ \E w \in Workers : pc[w] \in {"open_nuts", "open_screw", "settle"}
  /\ \A w \in Workers : pc[w] \in {"give_back", "exited"} => stop

\* while a worker opens the slots of a new device, nobody holds a part
NewDevice ==
  \A w \in Workers : pc[w] = "open_nuts" =>
    /\ \A p \in Parts : placed[p] = 0
    /\ \A v \in Workers : pc[v] \notin {"work", "install"}

LEMMA NobodyElse == IInv => NewDevice
<1> SUFFICES ASSUME IInv, NEW w \in Workers, pc[w] = "open_nuts"
             PROVE  /\ \A p \in Parts : placed[p] = 0
                    /\ \A v \in Workers : pc[v] \notin {"work", "install"}
  BY DEF NewDevice
<1>1. /\ At(pc, Workers, {"open_nuts"}) # {}
      /\ At(pc, Workers, {"open_nuts", "open_screw"}) # {}
  BY DEF At
<1>2. /\ Cardinality(At(pc, Workers, {"open_nuts"})) >= 1
      /\ Cardinality(At(pc, Workers, {"open_nuts", "open_screw"})) >= 1
  BY <1>1, Finite, FS_EmptySet
<1>3. \A p \in Parts : Pending(p) >= Limit[p]
  BY <1>2, Finite, Tools DEF Pending, Parts
<1>4. \A p \in Parts : Cardinality(Holders(p)) = 0 /\ placed[p] = 0
  <2> TAKE p \in Parts
  <2>1. slots[p] + Cardinality(Holders(p)) + placed[p] + Pending(p) = Limit[p]
    BY DEF IInv, SlotsExact
  <2>2. /\ slots[p] \in Nat /\ placed[p] \in Nat /\ Limit[p] \in Nat
        /\ Cardinality(Holders(p)) \in Nat /\ Pending(p) \in Nat
    BY Finite, Tools DEF IInv, TypeOK
  <2> QED
    BY <1>3, <2>1, <2>2
<1>5. \A p \in Parts : Holders(p) = {}
  BY <1>4, Finite, FS_EmptySet
<1> QED
  BY <1>4, <1>5, Tools DEF Holders, At

LEMMA TargetStep ==
  IInv /\ TargetInv /\ [Next]_vars => TargetInv'
<1>a. (IInv => NewDevice)'
  BY NobodyElse, PTL
<1> SUFFICES ASSUME IInv, TargetInv, [Next]_vars PROVE TargetInv'
  OBVIOUS
<1>0. TypeOK /\ MutexInv /\ Target \in Nat \ {0}
  BY AssemblyAssumption DEF IInv
<1>1. ASSUME NEW w \in Workers, WorkerLoop(w)
      PROVE  TargetInv'
  <2>1. CASE Loop(w)
    BY <1>0, <2>1 DEF Loop, Goto, TypeOK, TargetInv, device
  <2>2. CASE TakeSlot(w)
    BY <1>0, <2>2 DEF TakeSlot, Goto, TypeOK, TargetInv, device
  <2>3. CASE Lock(w, "lock", "test")
    BY <1>0, <2>3 DEF Lock, Goto, TypeOK, TargetInv, device
  <2>4. CASE StopSeen(w)
    BY <1>0, <2>4 DEF StopSeen, Goto, TypeOK, TargetInv, device
  <2>5. CASE GiveBack(w)
    BY <1>0, <2>5 DEF GiveBack, Goto, TypeOK, TargetInv, device
  <2>6. CASE ReadDevice(w)
    <3>1. completed # Target
      BY <1>0, <2>6 DEF ReadDevice, Goto, TargetInv, MutexInv, Critical
    <3> QED
      BY <1>0, <2>6, <3>1 DEF ReadDevice, Goto, TypeOK, TargetInv, device
  <2>7. CASE Lock(w, "work", "install")
    BY <1>0, <2>7 DEF Lock, Goto, TypeOK, TargetInv, device
  <2>8. CASE Install(w)
    <3>1. completed # Target
      BY <2>8 DEF Install, TargetInv
    <3>2. ~Exceeded([placed EXCEPT ![Part(w)] = @ + 1])
      BY <2>8, Fits DEF Install
    <3>3. CASE pc'[w] = "loop"
      BY <1>0, <2>8, <3>1, <3>2, <3>3 DEF Install, TypeOK, TargetInv
    <3>4. CASE pc'[w] # "loop"
      <4>1. pc'[w] = "open_nuts" /\ completed' = completed + 1 /\ stop' = stop
        BY <1>0, <2>8, <3>2, <3>4 DEF Install, TypeOK
      <4>2. /\ \A p \in Parts : placed'[p] = 0
            /\ \A v \in Workers : pc'[v] \notin {"work", "install"}
        <5>1. IInv'
          BY <2>8, InstallIInv
        <5> QED
          BY <1>a, <4>1, <5>1 DEF NewDevice
      <4>3. \A v \in Workers : v # w => pc'[v] = pc[v]
        BY <1>0, <2>8 DEF Install, TypeOK
      <4> QED
        BY <1>0, <3>1, <4>1, <4>2, <4>3 DEF TypeOK, TargetInv
    <3> QED
      BY <3>3, <3>4
  <2>9. CASE OpenSlots(w, "nut", "open_nuts", "open_screw")
    BY <1>0, <2>9 DEF OpenSlots, Goto, TypeOK, TargetInv, device
  <2>10. CASE OpenSlots(w, "screw", "open_screw", "settle")
    BY <1>0, <2>10 DEF OpenSlots, Goto, TypeOK, TargetInv, device
  <2>11. CASE Settle(w)
    <3>1. /\ pc[w] = "settle" /\ pc' = [pc EXCEPT ![w] = "loop"]
          /\ placed' = placed /\ completed' = completed
      BY <2>11 DEF Settle, Goto, device
    <3>2. stop' <=> stop \/ completed >= Target
      BY <2>11 DEF Settle
    <3>3. stop' <=> completed = Target
      BY <1>0, <3>2 DEF TypeOK, TargetInv
    <3> QED
      BY <1>0, <3>1, <3>2, <3>3 DEF TypeOK, TargetInv
  <2> QED
    BY <1>1, <2>1, <2>2, <2>3, <2>4, <2>5, <2>6, <2>7, <2>8, <2>9, <2>10, <2>11
       DEF WorkerLoop
<1>2. CASE UNCHANGED vars
  BY <1>2 DEF TargetInv, vars, device
<1> QED
  BY <1>1, <1>2 DEF Next, Terminating

(* The stand stops after exactly Target devices, with nothing on the next. *)
THEOREM Exactly == Spec => []ExactTarget
<1>1. Init => TargetInv
  BY AssemblyAssumption DEF Init, TargetInv, Parts
<1>2. TargetInv => ExactTarget
  BY AssemblyAssumption DEF TargetInv, ExactTarget, AllExited, Workers
<1> QED
  BY <1>1, <1>2, TargetStep, Inductive, PTL DEF Spec
=============================================================================
