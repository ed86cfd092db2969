------------------------------- MODULE Shower -------------------------------
(***************************************************************************)
(* The unisex shower of Lesson_6/lesson6_shower+bonus.c.                   *)
(*                                                                         *)
(* Every client is one process running client_once: enter_gender, a finite *)
(* sleep, leave_gender.  The clients share four System V semaphores and    *)
(* the state_t record in shared memory.  state_t is only read or written   *)
(* with SEM_MUTEX held, so the code between a P(SEM_MUTEX) and the next    *)
(* semop is one step; every semop that can block, and every V that another *)
(* client can see while the mutex is still held, is a step of its own.     *)
(* The per-gender fields of state_t are functions of the gender.           *)
(*                                                                         *)
(* A client may be killed, by Ctrl-C for one: the kernel plays SEM_MUTEX   *)
(* and SEM_CAP back, but not the queues, and state_t stays as it is.       *)
(***************************************************************************)
EXTENDS ControlPoints

CONSTANTS
  Men, Women,   \* the client processes of "run men K women K"
  Mortal,       \* those among them that may be killed
  N,            \* capacity of the room
  MaxStreak     \* what get_max_streak returns

ASSUME ShowerAssumption ==
  /\ IsFiniteSet(Men) /\ IsFiniteSet(Women)
  /\ Men \cap Women = {}
  /\ Mortal \subseteq Men \cup Women
  /\ N \in Nat \ {0}
  /\ MaxStreak \in Nat \ {0}

Clients == Men \cup Women
Genders == {"MEN", "WOMEN"}
Gender(c) == IF c \in Men THEN "MEN" ELSE "WOMEN"
Other(g) == IF g = "MEN" THEN "WOMEN" ELSE "MEN"

VARIABLES
  pc,              \* where each client is in client_once
  mutex,           \* SEM_MUTEX
  cap,             \* SEM_CAP
  queue,           \* SEM_MQ and SEM_WQ
  in,              \* men_in, women_in
  wait,            \* men_wait, women_wait
  current_gender,
  streak,          \* men_streak, women_streak
  turn,
  overtaken        \* history: entries of the other gender since wait[g] was 0

shared == <<in, wait, current_gender, streak, turn, overtaken>>
vars == <<pc, mutex, cap, queue, shared>>

Goto(c, from, to) ==
  /\ pc[c] = from
  /\ pc' = [pc EXCEPT ![c] = to]

(***************************************************************************)
(* cmd_init, then spawn_many has forked every client.                      *)
(***************************************************************************)
Init ==
  /\ pc = [c \in Clients |-> "enter"]
  /\ mutex = 1
  /\ cap = N
  /\ queue = [g \in Genders |-> 0]
  /\ in = [g \in Genders |-> 0]
  /\ wait = [g \in Genders |-> 0]
  /\ current_gender = "NONE"
  /\ streak = [g \in Genders |-> 0]
  /\ turn = "MEN"
  /\ overtaken = [g \in Genders |-> 0]

-----------------------------------------------------------------------------
(***************************************************************************)
(* enter_gender                                                            *)
(***************************************************************************)

\* fairness_block: my streak is exhausted and the other gender is waiting
FairnessBlock(g) ==
  /\ streak[g] >= MaxStreak
  /\ wait[Other(g)] > 0
  /\ current_gender # Other(g)

\* allow
Allow(g) ==
  /\ current_gender \in {"NONE", g}
  /\ in[Other(g)] = 0
  /\ ~FairnessBlock(g)

\* mutated Allow2: the decision of the first check is trusted
TrustCheck(g) == TRUE

\* mutated Allow2: the recheck forgets the streak
ForgetStreak(g) == current_gender \in {"NONE", g} /\ in[Other(g)] = 0

\* allow2, after the wait for SEM_CAP
Allow2(g) == Allow(g)

\* P(SEM_MUTEX) on the way from one label to another
Lock(c, from, to) ==
  /\ Goto(c, from, to)
  /\ mutex > 0
  /\ mutex' = mutex - 1
  /\ UNCHANGED <<cap, queue, shared>>

\* count the client as waiting and V(SEM_MUTEX); it goes to sleep on its queue
JoinQueue(c, from) ==
  /\ Goto(c, from, "queue")
  /\ wait' = [wait EXCEPT ![Gender(c)] = @ + 1]
  /\ mutex' = mutex + 1
  /\ UNCHANGED <<cap, queue, in, current_gender, streak, turn, overtaken>>

CheckAllowed(c) ==
  /\ Allow(Gender(c))
  /\ Goto(c, "check", "cap")
  /\ mutex' = mutex + 1
  /\ UNCHANGED <<cap, queue, shared>>

CheckRefused(c) ==
  /\ ~Allow(Gender(c))
  /\ JoinQueue(c, "check")

\* P(SEM_CAP)
TakeCap(c) ==
  /\ Goto(c, "cap", "recheck_lock")
  /\ cap > 0
  /\ cap' = cap - 1
  /\ UNCHANGED <<mutex, queue, shared>>

RecheckAllowed(c) ==
  LET g == Gender(c) IN
  /\ Allow2(g)
  /\ Goto(c, "recheck", "shower")
  /\ current_gender' = g
  /\ in' = [in EXCEPT ![g] = @ + 1]
  /\ streak' = [streak EXCEPT ![g] = @ + 1, ![Other(g)] = 0]
  /\ overtaken' = [overtaken EXCEPT ![Other(g)] = IF wait[Other(g)] > 0 THEN @ + 1 ELSE 0]
  /\ mutex' = mutex + 1
  /\ UNCHANGED <<cap, queue, wait, turn>>

\* the mutex is dropped before the client is counted as waiting
RecheckRefused(c) ==
  /\ ~Allow2(Gender(c))
  /\ Goto(c, "recheck", "return_cap")
  /\ mutex' = mutex + 1
  /\ UNCHANGED <<cap, queue, shared>>

ReturnCap(c) ==
  /\ Goto(c, "return_cap", "requeue_lock")
  /\ cap' = cap + 1
  /\ UNCHANGED <<mutex, queue, shared>>

\* Pq(SEM_MQ) or Pq(SEM_WQ), then the loop starts over
WakeUp(c) ==
  /\ Goto(c, "queue", "enter")
  /\ queue[Gender(c)] > 0
  /\ queue' = [queue EXCEPT ![Gender(c)] = @ - 1]
  /\ UNCHANGED <<mutex, cap, shared>>

EnterGender(c) ==
  \/ Lock(c, "enter", "check")
  \/ CheckAllowed(c)
  \/ CheckRefused(c)
  \/ TakeCap(c)
  \/ Lock(c, "recheck_lock", "recheck")
  \/ RecheckAllowed(c)
  \/ RecheckRefused(c)
  \/ ReturnCap(c)
  \/ Lock(c, "requeue_lock", "requeue")
  \/ JoinQueue(c, "requeue")
  \/ WakeUp(c)

-----------------------------------------------------------------------------
(***************************************************************************)
(* leave_gender.  The msleep of client_once ends before its P(SEM_MUTEX).  *)
(***************************************************************************)

\* mutated LeaveRoom: the other branch of the ?: is decremented
LeaveWrongRoom(c) ==
  /\ Goto(c, "leave", "switch")
  /\ in' = [in EXCEPT ![Other(Gender(c))] = @ - 1]
  /\ cap' = cap + 1
  /\ UNCHANGED <<mutex, queue, wait, current_gender, streak, turn, overtaken>>

\* in--, then V(SEM_CAP) while the mutex is held
LeaveRoom(c) ==
  /\ Goto(c, "leave", "switch")
  /\ in' = [in EXCEPT ![Gender(c)] = @ - 1]
  /\ cap' = cap + 1
  /\ UNCHANGED <<mutex, queue, wait, current_gender, streak, turn, overtaken>>

\* mutated WakeLocked: the waiters stay counted after they are woken
WakeKeepsCount(g) ==
  /\ queue' = [queue EXCEPT ![g] = @ + wait[g]]
  /\ wait' = wait
  /\ current_gender' = g
  /\ turn' = Other(g)
  /\ streak' = [h \in Genders |-> 0]
  /\ overtaken' = [overtaken EXCEPT ![g] = 0]

\* wake_men_locked and wake_women_locked: hand the room to g
WakeLocked(g) ==
  /\ queue' = [queue EXCEPT ![g] = @ + wait[g]]
  /\ wait' = [wait EXCEPT ![g] = 0]
  /\ current_gender' = g
  /\ turn' = Other(g)
  /\ streak' = [h \in Genders |-> 0]
  /\ overtaken' = [overtaken EXCEPT ![g] = 0]

\* the gender an empty room goes to when both genders wait
Contended ==
  CASE streak["MEN"] >= MaxStreak /\ streak["WOMEN"] < MaxStreak -> "WOMEN"
    [] streak["WOMEN"] >= MaxStreak /\ streak["MEN"] < MaxStreak -> "MEN"
    [] OTHER -> turn

Waiting == {g \in Genders : wait[g] > 0}

\* the gender that an empty room is handed to, if any
HandedTo == IF Waiting = Genders THEN {Contended} ELSE Waiting

\* mutated FreeRoom: the room stays reserved for the gender that left
KeepReserved ==
  /\ current_gender' = current_gender
  /\ streak' = [g \in Genders |-> 0]
  /\ UNCHANGED <<queue, wait, turn, overtaken>>

FreeRoom ==
  /\ current_gender' = "NONE"
  /\ streak' = [g \in Genders |-> 0]
  /\ UNCHANGED <<queue, wait, turn, overtaken>>

RoomEmpty == \A g \in Genders : in[g] = 0

\* the rest of the critical section, up to V(SEM_MUTEX)
SwitchRoom(c) ==
  /\ Goto(c, "switch", "done")
  /\ mutex' = mutex + 1
  /\ UNCHANGED <<cap, in>>
  /\ \/ /\ ~RoomEmpty
        /\ UNCHANGED <<queue, wait, current_gender, streak, turn, overtaken>>
     \/ /\ RoomEmpty /\ Waiting = {}
        /\ FreeRoom
     \/ /\ RoomEmpty
        /\ \E g \in HandedTo : WakeLocked(g)

LeaveGender(c) ==
  \/ Lock(c, "shower", "leave")
  \/ LeaveRoom(c)
  \/ SwitchRoom(c)

-----------------------------------------------------------------------------
(***************************************************************************)
(* A client is killed.  A critical section is left after any of its        *)
(* stores; the label says what the client has left in state_t:             *)
(*   killed           nothing but current_gender                           *)
(*   ghost_waiting    it is counted as waiting, or has a token waiting     *)
(*   ghost_entering   it is counted as inside, but never was               *)
(*   ghost_inside     it is counted as inside                              *)
(*   killed_leaving   it had left; perhaps it has freed the room           *)
(*   torn             it had left, and handed the room on without the Vq_k *)
(***************************************************************************)

Critical == {"check", "recheck", "requeue", "leave", "switch"}
Holding == {"recheck_lock", "recheck", "return_cap", "shower", "leave"}

\* SEM_UNDO: what P has taken and V not yet given back
Undo(c) ==
  /\ mutex' = mutex + IF pc[c] \in Critical THEN 1 ELSE 0
  /\ cap' = cap + IF pc[c] \in Holding THEN 1 ELSE 0

KillOutside(c) ==
  /\ \E from \in {"enter", "check", "cap", "recheck_lock", "recheck", "return_cap",
                "requeue_lock", "requeue"} : Goto(c, from, "killed")
  /\ UNCHANGED <<queue, shared>>

KillAsleep(c) ==
  /\ Goto(c, "queue", "ghost_waiting")
  /\ UNCHANGED <<queue, shared>>

\* after the ++ of wait
KillJoining(c) ==
  /\ \/ ~Allow(Gender(c)) /\ Goto(c, "check", "ghost_waiting")
     \/ Goto(c, "requeue", "ghost_waiting")
  /\ wait' = [wait EXCEPT ![Gender(c)] = @ + 1]
  /\ UNCHANGED <<queue, in, current_gender, streak, turn, overtaken>>

\* after current_gender, in or a streak has been set
KillEntering(c) ==
  LET g == Gender(c) IN
  /\ Allow2(g)
  /\ current_gender' = g
  /\ \/ Goto(c, "recheck", "killed") /\ UNCHANGED <<in, streak>>
     \/ /\ Goto(c, "recheck", "ghost_entering")
        /\ in' = [in EXCEPT ![g] = @ + 1]
        /\ streak' \in {streak, [streak EXCEPT ![g] = @ + 1],
                        [streak EXCEPT ![g] = @ + 1, ![Other(g)] = 0]}
  /\ UNCHANGED <<queue, wait, turn, overtaken>>

KillInside(c) ==
  /\ \E from \in {"shower", "leave"} : Goto(c, from, "ghost_inside")
  /\ UNCHANGED <<queue, shared>>

\* after the -- of in
KillLeaving(c) ==
  /\ Goto(c, "leave", "killed_leaving")
  /\ in' = [in EXCEPT ![Gender(c)] = @ - 1]
  /\ UNCHANGED <<queue, wait, current_gender, streak, turn, overtaken>>

\* the streaks before, between and after the two stores of 0
Zeroed == {streak, [streak EXCEPT !["MEN"] = 0], [g \in Genders |-> 0]}

\* before, in or after FreeRoom, or after WakeLocked
KillSwitching(c) ==
  /\ Goto(c, "switch", "killed_leaving")
  /\ UNCHANGED in
  /\ \/ UNCHANGED <<queue, wait, current_gender, streak, turn, overtaken>>
     \/ /\ RoomEmpty /\ Waiting = {}
        /\ current_gender' = "NONE" /\ streak' \in Zeroed
        /\ UNCHANGED <<queue, wait, turn, overtaken>>
     \/ RoomEmpty /\ \E g \in HandedTo : WakeLocked(g)

\* in WakeLocked, after wait, current_gender, turn or a streak has been set
KillWaking(c) ==
  /\ RoomEmpty
  /\ Goto(c, "switch", "torn")
  /\ \E g \in HandedTo :
       /\ wait' = [wait EXCEPT ![g] = 0]
       /\ \/ UNCHANGED <<current_gender, turn, streak>>
          \/ current_gender' = g /\ UNCHANGED <<turn, streak>>
          \/ current_gender' = g /\ turn' = Other(g) /\ streak' \in Zeroed
  /\ UNCHANGED <<queue, in, overtaken>>

Kill(c) ==
  /\ c \in Mortal
  /\ Undo(c)
  /\ \/ KillOutside(c) \/ KillAsleep(c) \/ KillJoining(c) \/ KillEntering(c)
     \/ KillInside(c) \/ KillLeaving(c) \/ KillSwitching(c) \/ KillWaking(c)

-----------------------------------------------------------------------------
ClientOnce(c) == EnterGender(c) \/ LeaveGender(c)

AllDone == \A c \in Clients : pc[c] = "done"

Terminating == AllDone /\ UNCHANGED vars

Next == (\E c \in Clients : ClientOnce(c) \/ Kill(c)) \/ Terminating

Spec == Init /\ [][Next]_vars

(***************************************************************************)
(* The kernel schedules every runnable process and every sleep is finite.  *)
(* Nothing more is asked of the semaphores: the clients make finitely many *)
(* steps, so one that waits for SEM_MUTEX or SEM_CAP cannot be overtaken   *)
(* for ever.                                                               *)
(***************************************************************************)
FairSpec == Spec /\ \A c \in Clients : WF_vars(ClientOnce(c))
-----------------------------------------------------------------------------
(***************************************************************************)
(* Properties                                                              *)
(***************************************************************************)

Of(g) == IF g = "MEN" THEN Men ELSE Women

InsideOf(g) == At(pc, Of(g), {"shower", "leave"})
Inside == At(pc, Clients, {"shower", "leave"})

\* those that men_in or women_in counts, and those that have been counted as waiting
CountedIn(g) == At(pc, Of(g), {"shower", "leave", "ghost_inside", "ghost_entering"})
Sleepers(g) == At(pc, Of(g), {"queue", "ghost_waiting"})

\* the clients between a P(SEM_CAP) and the V that returns it
Holders == At(pc, Clients, Holding)

\* those that have left the room, alive or not
Left == At(pc, Clients, {"switch", "done", "ghost_inside", "killed_leaving", "torn"})

Deaths == {"killed", "ghost_waiting", "ghost_entering", "ghost_inside",
           "killed_leaving", "torn"}

Labels == {"enter", "check", "cap", "recheck_lock", "recheck", "return_cap",
           "requeue_lock", "requeue", "queue", "shower", "leave", "switch", "done"}
            \cup Deaths

NobodyKilled == At(pc, Clients, Deaths) = {}

(* The semaphores and the counters of state_t keep their ranges.  In        *)
(* particular men_in and women_in never go below 0 in leave_gender.         *)
TypeOK ==
  /\ pc \in [Clients -> Labels]
  /\ mutex \in 0..1
  /\ cap \in 0..N
  /\ queue \in [Genders -> Nat]
  /\ in \in [Genders -> Nat]
  /\ wait \in [Genders -> Nat]
  /\ current_gender \in Genders \cup {"NONE"}
  /\ streak \in [Genders -> Nat]
  /\ turn \in Genders
  /\ overtaken \in [Genders -> Nat]

(* README.md:4: only one gender is inside at a time.  The decision to enter *)
(* is taken before the wait for SEM_CAP and must be taken again after it.   *)
(* A client that is killed does not change this.                            *)
OneGender == InsideOf("MEN") = {} \/ InsideOf("WOMEN") = {}

(* README.md:5: at most N clients are inside, although a client that is     *)
(* refused by the recheck holds a place for a while, and although the place *)
(* of a killed client is given back while men_in still counts it.           *)
WithinCapacity == Cardinality(Inside) <= N

(* The counters of state_t and the semaphores agree with where the clients  *)
(* are or have died: in[g] counts the clients inside and those killed       *)
(* there; every client asleep on a queue, or killed asleep, is counted in   *)
(* wait[g] or has a token, so no wakeup is left over, and none is lost      *)
(* unless somebody was killed between wait = 0 and Vq_k; no place of        *)
(* SEM_CAP leaks on the recheck path or at a death.                         *)
CountersExact ==
  /\ \A g \in Genders :
       /\ in[g] = Cardinality(CountedIn(g))
       /\ wait[g] + queue[g] <= Cardinality(Sleepers(g))
       /\ At(pc, Clients, {"torn"}) = {} => wait[g] + queue[g] = Cardinality(Sleepers(g))
  /\ cap + Cardinality(Holders) = N

(* A room reserved for gender g is never abandoned, if nobody is killed:    *)
(* someone of g is inside, just leaving, or awake and on the way in.        *)
(* Otherwise the other gender would be refused for ever by an empty room.   *)
ReservedForSomeone ==
  \A g \in Genders : NobodyKilled /\ current_gender = g =>
    \/ queue[g] > 0
    \/ At(pc, Of(g), {"enter", "check", "cap", "recheck_lock", "recheck",
                  "shower", "leave", "switch"}) # {}

(* The fairness promised by README.md:6 for the clients that are counted as *)
(* waiting: before a switch wakes gender g, the other gender enters at most *)
(* 2 * MaxStreak times (one streak that was running, and one more if turn   *)
(* gives the room to the other gender once).  Nobody is killed.             *)
OvertakingBounded ==
  NobodyKilled => \A g \in Genders : overtaken[g] <= 2 * MaxStreak

(* The protocol of semaphores implements the abstract room, where a client  *)
(* that is killed inside leaves.                                            *)
Room == INSTANCE UnisexRoom WITH
  occupants <- Inside,
  served <- Left

ImplementsRoom == Room!Spec

(* README.md:6 as it stands: no client starves, so all of them get their    *)
(* shower.  Not so: a client refused by the recheck gives the mutex back    *)
(* before it is counted in wait, and the last client to leave can find      *)
(* nobody to wake in between.                                               *)
NoStarvation == <>AllDone

(* That gap is the only way to starve: if no client is ever refused by the  *)
(* recheck, nor killed, every client gets its shower.                       *)
ServedUnlessRechecked ==
  [](NobodyKilled /\ \A c \in Clients : pc[c] # "return_cap") => <>AllDone
=============================================================================
