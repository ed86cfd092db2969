------------------------------ MODULE Assembly ------------------------------
(***************************************************************************)
(* The assembly stand of Lesson_9/lesson9_task3_test.c: workers with a     *)
(* wrench put two nuts on a device, workers with a screwdriver one screw,  *)
(* and whoever finishes the device replaces it.  The code starts two       *)
(* wrenches and one driver; worker_loop is written for any number.         *)
(*                                                                         *)
(* Shared is read and written with SEM_MUTEX held, except for the read of  *)
(* stop at the head of the loop.  A critical section is one step, split    *)
(* where a V lets another worker run inside it.                            *)
(***************************************************************************)
EXTENDS ControlPoints

CONSTANTS
  Wrenches, Drivers,   \* the worker processes
  Target               \* how many devices to assemble

ASSUME AssemblyAssumption ==
  /\ IsFiniteSet(Wrenches) /\ IsFiniteSet(Drivers)
  /\ Wrenches # {} /\ Drivers # {} /\ Wrenches \cap Drivers = {}
  /\ Target \in Nat \ {0}

Workers == Wrenches \cup Drivers
Parts == {"nut", "screw"}
Part(w) == IF w \in Wrenches THEN "nut" ELSE "screw"
Limit == [p \in Parts |-> IF p = "nut" THEN 2 ELSE 1]

VARIABLES
  pc,          \* where each worker is in worker_loop
  mutex,       \* SEM_MUTEX
  slots,       \* SEM_NUT_SLOTS and SEM_SCREW_SLOTS
  placed,      \* nuts and screw
  device_id,
  completed,
  stop,
  dev          \* the local dev of each worker

semaphores == <<mutex, slots>>
device == <<placed, device_id, completed>>
vars == <<pc, semaphores, device, stop, dev>>

Goto(w, from, to) ==
  /\ pc[w] = from
  /\ pc' = [pc EXCEPT ![w] = to]

\* main, up to the forks
Init ==
  /\ pc = [w \in Workers |-> "loop"]
  /\ mutex = 1
  /\ slots = Limit
  /\ placed = [p \in Parts |-> 0]
  /\ device_id = 1
  /\ completed = 0
  /\ stop = FALSE
  /\ dev = [w \in Workers |-> 0]

-----------------------------------------------------------------------------
\* the read of stop without the mutex
Loop(w) ==
  /\ \/ stop /\ Goto(w, "loop", "exited")
     \/ ~stop /\ Goto(w, "loop", "slot")
  /\ UNCHANGED <<semaphores, device, stop, dev>>

\* P of the slot semaphore
TakeSlot(w) ==
  /\ Goto(w, "slot", "lock")
  /\ slots[Part(w)] > 0
  /\ slots' = [slots EXCEPT ![Part(w)] = @ - 1]
  /\ UNCHANGED <<mutex, device, stop, dev>>

\* mutated Lock: a semop that returns with EINTR is taken for a success
LockInterrupted(w, from, to) ==
  /\ Goto(w, from, to)
  /\ mutex' = mutex - 1
  /\ UNCHANGED <<slots, device, stop, dev>>

\* P(SEM_MUTEX)
Lock(w, from, to) ==
  /\ Goto(w, from, to)
  /\ mutex > 0
  /\ mutex' = mutex - 1
  /\ UNCHANGED <<slots, device, stop, dev>>

\* the second look at stop, with the mutex
StopSeen(w) ==
  /\ stop
  /\ Goto(w, "test", "give_back")
  /\ mutex' = mutex + 1
  /\ UNCHANGED <<slots, device, stop, dev>>

\* mutated GiveBack: the worker leaves with its slot
KeepSlot(w) ==
  /\ Goto(w, "give_back", "exited")
  /\ UNCHANGED <<semaphores, device, stop, dev>>

GiveBack(w) ==
  /\ Goto(w, "give_back", "exited")
  /\ slots' = [slots EXCEPT ![Part(w)] = @ + 1]
  /\ UNCHANGED <<mutex, device, stop, dev>>

ReadDevice(w) ==
  /\ ~stop
  /\ Goto(w, "test", "work")
  /\ dev' = [dev EXCEPT ![w] = device_id]
  /\ mutex' = mutex + 1
  /\ UNCHANGED <<slots, device, stop>>

Exceeded(count) == count["nut"] > 2 \/ count["screw"] > 1

Finished(count) == count["nut"] = 2 /\ count["screw"] = 1

(***************************************************************************)
(* Install: the part is counted.  A count over its limit stops the worker  *)
(* with the stop flag set; a finished device is taken out and the next one *)
(* put in, and the worker goes on to open its slots with the mutex held.   *)
(***************************************************************************)
Install(w) ==
  LET count == [placed EXCEPT ![Part(w)] = @ + 1] IN
  /\ pc[w] = "install"
  /\ UNCHANGED <<slots, dev>>
  /\ IF Exceeded(count)
     THEN /\ pc' = [pc EXCEPT ![w] = "exited"]
          /\ placed' = count
          /\ stop' = TRUE
          /\ mutex' = mutex + 1
          /\ UNCHANGED <<device_id, completed>>
     ELSE IF Finished(count)
     THEN /\ pc' = [pc EXCEPT ![w] = "open_nuts"]
          /\ completed' = completed + 1
          /\ device_id' = device_id + 1
          /\ placed' = [p \in Parts |-> 0]
          /\ UNCHANGED <<mutex, stop>>
     ELSE /\ pc' = [pc EXCEPT ![w] = "loop"]
          /\ placed' = count
          /\ mutex' = mutex + 1
          /\ UNCHANGED <<device_id, completed, stop>>

\* mutated OpenSlots: one slot per device, whatever the part
OpenOne(w, part, from, to) ==
  /\ Goto(w, from, to)
  /\ slots' = [slots EXCEPT ![part] = @ + 1]
  /\ UNCHANGED <<mutex, device, stop, dev>>

\* mutated OpenSlots: two slots per device, whatever the part
OpenTwo(w, part, from, to) ==
  /\ Goto(w, from, to)
  /\ slots' = [slots EXCEPT ![part] = @ + 2]
  /\ UNCHANGED <<mutex, device, stop, dev>>

\* Vn(SEM_NUT_SLOTS, 2), then Vn(SEM_SCREW_SLOTS, 1)
OpenSlots(w, part, from, to) ==
  /\ Goto(w, from, to)
  /\ slots' = [slots EXCEPT ![part] = @ + Limit[part]]
  /\ UNCHANGED <<mutex, device, stop, dev>>

\* mutated Settle: the target is overshot by one
SettleLate(w) ==
  /\ Goto(w, "settle", "loop")
  /\ stop' = (stop \/ completed > Target)
  /\ mutex' = mutex + 1
  /\ UNCHANGED <<slots, device, dev>>

Settle(w) ==
  /\ Goto(w, "settle", "loop")
  /\ stop' = (stop \/ completed >= Target)
  /\ mutex' = mutex + 1
  /\ UNCHANGED <<slots, device, dev>>

WorkerLoop(w) ==
  \/ Loop(w)
  \/ TakeSlot(w)
  \/ Lock(w, "lock", "test")
  \/ StopSeen(w)
  \/ GiveBack(w)
  \/ ReadDevice(w)
  \/ Lock(w, "work", "install")
  \/ Install(w)
  \/ OpenSlots(w, "nut", "open_nuts", "open_screw")
  \/ OpenSlots(w, "screw", "open_screw", "settle")
  \/ Settle(w)

AllExited == \A w \in Workers : pc[w] = "exited"

Terminating == AllExited /\ UNCHANGED vars

Next == (\E w \in Workers : WorkerLoop(w)) \/ Terminating

Spec == Init /\ [][Next]_vars

(***************************************************************************)
(* Every runnable worker runs and usleep ends.  Nothing is asked of the    *)
(* semaphores beyond that: the workers make finitely many rounds, so one   *)
(* that waits for a semaphore cannot be overtaken for ever.                *)
(***************************************************************************)
FairSpec == Spec /\ \A w \in Workers : WF_vars(WorkerLoop(w))

-----------------------------------------------------------------------------
(***************************************************************************)
(* Properties                                                              *)
(***************************************************************************)

Labels == {"loop", "slot", "lock", "test", "give_back", "work", "install",
           "open_nuts", "open_screw", "settle", "exited"}

Of(part) == IF part = "nut" THEN Wrenches ELSE Drivers

\* the workers that hold a slot whose part is not counted yet
Holders(part) == At(pc, Of(part), {"lock", "test", "give_back", "work", "install"})

\* the slots of the new device that are not open yet
Pending(part) ==
  IF part = "nut" THEN 2 * Cardinality(At(pc, Workers, {"open_nuts"}))
                  ELSE Cardinality(At(pc, Workers, {"open_nuts", "open_screw"}))

(* The semaphores and the counters keep their ranges.                       *)
TypeOK ==
  /\ pc \in [Workers -> Labels]
  /\ mutex \in 0..1
  /\ slots \in [Parts -> Nat]
  /\ placed \in [Parts -> Nat]
  /\ device_id \in Nat
  /\ completed \in Nat
  /\ stop \in BOOLEAN
  /\ dev \in [Workers -> Nat]

(* Every place for a part is in exactly one state: free, held by a worker,  *)
(* filled, or still to be opened.  Two workers that finish devices one      *)
(* after the other, and the slots given back at the stop, must keep this.   *)
SlotsExact ==
  \A p \in Parts :
    slots[p] + Cardinality(Holders(p)) + placed[p] + Pending(p) = Limit[p]

(* lesson9_task3_test.c:19-20 and 78: never more than two nuts and a screw, *)
(* so the error branch of worker_loop is dead code.                         *)
WithinLimits == \A p \in Parts : placed[p] <= Limit[p]

(* A part is put on the device its worker saw when it took it: nobody       *)
(* replaces the device while a worker sleeps between reading device_id and  *)
(* counting its part.                                                       *)
FreshDevice ==
  \A w \in At(pc, Workers, {"work", "install"}) : dev[w] = device_id

(* The stand stops after exactly Target devices and leaves no part on the   *)
(* next one, even for the workers that were past the test of stop.          *)
ExactTarget ==
  /\ completed <= Target
  /\ AllExited => completed = Target /\ \A p \in Parts : placed[p] = 0

(* A worker that sleeps on its slot semaphore when stop is set is woken,    *)
(* and every worker ends, so that main's waitpid loop does.                 *)
EveryoneExits == <>AllExited
=============================================================================
